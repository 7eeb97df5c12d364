-------------------------- MODULE RetirementProofs --------------------------
(* The retirement contract beside the coupon engine, for any accounts,       *)
(* bonds, legacy records and number of retirements, whenever the contract    *)
(* is upgraded.                                                              *)
EXTENDS CreditRetirement, CouponProofs

-----------------------------------------------------------------------------
(* The invariant *)

(* A stored record is found under its id, and its vintage is the year of    *)
(* its report.                                                              *)
RecordOK(i) ==
  LET record == get_retirement_record(i) IN
  /\ record.id = i /\ record.holder \in Addresses /\ record.bond_id \in BondIds
  /\ record.amount \in Nat /\ record.report_id \in Reports
  /\ record.vintage_year = year_from_timestamp(ReportData[record.report_id].end_day)

(* A record made since the move names a period that was paid out for its    *)
(* report.                                                                  *)
OfPaidPeriod(i) ==
  LET record == get_retirement_record(i) IN
  /\ record.period_index \in Periods
  /\ period_info[record.bond_id][record.period_index].distributed
  /\ period_info[record.bond_id][record.period_index].report_id = record.report_id

(* The counter tells which records there are. *)
RecordsKept ==
  /\ get_retirement_count \in Len(LegacyRecords) .. MaxRetirements
  /\ \A i \in RetirementIds :
       /\ HasRecord(i) <=> i <= get_retirement_count
       /\ HasRecord(i) => RecordOK(i)
       /\ HasRecord(i) /\ i \notin LegacyIds => OfPaidPeriod(i)

(* What was retired since the move was taken out of the coupon engine.      *)
SinceMove(b) ==
  {i \in RetirementIds \ LegacyIds : HasRecord(i) /\ Certificate(i).bond_id = b}
SpentCovers == \A b \in BondIds : AmountOf(SinceMove(b)) <= spent[b]

(* The two indexes list the certificates, each once.                        *)
IndexesTrue(h) ==
  /\ get_holder_retirements(h) \in Seq(RetirementIds)
  /\ Elements(get_holder_retirements(h)) = CertificatesOf(h, BondIds)
  /\ \A b \in BondIds :
       LET since == CertificatesOf(h, {b}) \ LegacyIds IN
       /\ get_bond_retirements(b, h) \in Seq(RetirementIds)
       /\ Elements(get_bond_retirements(b, h)) = since
       /\ Len(get_bond_retirements(b, h)) = Cardinality(since)

RetirementInv ==
  /\ CouponInv /\ RecordsKept /\ SpentCovers
  /\ \A h \in Addresses : TotalsTrue(h) /\ IndexesTrue(h)

-----------------------------------------------------------------------------
(* Storage *)

(* What read answers when the persistent entries are storage. *)
Lookup(storage, key, default) ==
  IF key \in DOMAIN storage THEN storage[key]
  ELSE IF key \in DOMAIN Instance THEN Instance[key] ELSE default

(* A write is read back, and every other key reads as before.               *)
LEMMA WriteRead ==
  ASSUME NEW storage, NEW key, NEW value, NEW k, NEW default
  PROVE  Lookup(write(storage, key, value), k, default) =
           IF k = key THEN value ELSE Lookup(storage, k, default)
<1>1. /\ DOMAIN write(storage, key, value) = DOMAIN storage \cup {key}
      /\ \A x \in DOMAIN storage \cup {key} :
           write(storage, key, value)[x] = IF x = key THEN value ELSE storage[x]
  BY DEF write
<1> HIDE DEF write
<1> QED
  BY <1>1 DEF Lookup

(* Keys of different kinds, or with different arguments, are different.     *)
LEMMA KeysApart ==
  /\ \A i : /\ Retirement(i) # RetirementCount
            /\ \A j : Retirement(i) = Retirement(j) => i = j
            /\ \A h : Retirement(i) # HolderRetirements(h) /\ Retirement(i) # RetiredCredits(h)
            /\ \A b, h : /\ Retirement(i) # BondHolderRetirements(b, h)
                         /\ Retirement(i) # RetiredPerBond(b, h)
  /\ \A g : /\ RetiredCredits(g) # RetirementCount
            /\ \A h : /\ RetiredCredits(g) = RetiredCredits(h) => g = h
                      /\ RetiredCredits(g) # HolderRetirements(h)
            /\ \A b, h : /\ RetiredCredits(g) # BondHolderRetirements(b, h)
                         /\ RetiredCredits(g) # RetiredPerBond(b, h)
  /\ \A c, g : /\ RetiredPerBond(c, g) # RetirementCount
               /\ \A h : RetiredPerBond(c, g) # HolderRetirements(h)
               /\ \A b, h : /\ RetiredPerBond(c, g) # BondHolderRetirements(b, h)
                            /\ RetiredPerBond(c, g) = RetiredPerBond(b, h) => c = b /\ g = h
  /\ \A g : /\ HolderRetirements(g) # RetirementCount
            /\ \A h : HolderRetirements(g) = HolderRetirements(h) => g = h
            /\ \A b, h : HolderRetirements(g) # BondHolderRetirements(b, h)
  /\ \A c, g : /\ BondHolderRetirements(c, g) # RetirementCount
               /\ \A b, h : BondHolderRetirements(c, g) = BondHolderRetirements(b, h) =>
                               c = b /\ g = h
  BY DEF Retirement, RetirementCount, HolderRetirements, RetiredCredits, BondHolderRetirements,
     RetiredPerBond

(* What the six writes of a retirement change for the reads.                *)
LEMMA RetirementWritten ==
  ASSUME NEW record, RecordRetirement(record)
  PROVE  /\ Lookup(persistent', RetirementCount, 0) = record.id
         /\ \A i : Lookup(persistent', Retirement(i), NoRecord) =
              IF i = record.id THEN record ELSE read(Retirement(i), NoRecord)
         /\ \A h : Lookup(persistent', RetiredCredits(h), 0) =
              IF h = record.holder THEN read(RetiredCredits(h), 0) + record.amount
                                   ELSE read(RetiredCredits(h), 0)
         /\ \A b, h : Lookup(persistent', RetiredPerBond(b, h), 0) =
              IF b = record.bond_id /\ h = record.holder
              THEN read(RetiredPerBond(b, h), 0) + record.amount
              ELSE read(RetiredPerBond(b, h), 0)
         /\ \A h : Lookup(persistent', HolderRetirements(h), <<>>) =
              IF h = record.holder THEN Append(read(HolderRetirements(h), <<>>), record.id)
                                   ELSE read(HolderRetirements(h), <<>>)
         /\ \A b, h : Lookup(persistent', BondHolderRetirements(b, h), <<>>) =
              IF b = record.bond_id /\ h = record.holder
              THEN Append(read(BondHolderRetirements(b, h), <<>>), record.id)
              ELSE read(BondHolderRetirements(b, h), <<>>)
<1> DEFINE h0 == record.holder
           b0 == record.bond_id
           v1 == read(RetiredPerBond(b0, h0), 0) + record.amount
           v4 == read(RetiredCredits(h0), 0) + record.amount
           v5 == Append(read(HolderRetirements(h0), <<>>), record.id)
           v6 == Append(read(BondHolderRetirements(b0, h0), <<>>), record.id)
           s1 == write(persistent, RetiredPerBond(b0, h0), v1)
           s2 == write(s1, RetirementCount, record.id)
           s3 == write(s2, Retirement(record.id), record)
           s4 == write(s3, RetiredCredits(h0), v4)
           s5 == write(s4, HolderRetirements(h0), v5)
           s6 == write(s5, BondHolderRetirements(b0, h0), v6)
<1>1. persistent' = s6
  BY DEF RecordRetirement
<1>2. \A k, d : Lookup(s1, k, d) = IF k = RetiredPerBond(b0, h0) THEN v1 ELSE Lookup(persistent, k, d)
  BY WriteRead
<1>3. \A k, d : Lookup(s2, k, d) = IF k = RetirementCount THEN record.id ELSE Lookup(s1, k, d)
  BY WriteRead
<1>4. \A k, d : Lookup(s3, k, d) = IF k = Retirement(record.id) THEN record ELSE Lookup(s2, k, d)
  BY WriteRead
<1>5. \A k, d : Lookup(s4, k, d) = IF k = RetiredCredits(h0) THEN v4 ELSE Lookup(s3, k, d)
  BY WriteRead
<1>6. \A k, d : Lookup(s5, k, d) = IF k = HolderRetirements(h0) THEN v5 ELSE Lookup(s4, k, d)
  BY WriteRead
<1>7. \A k, d : Lookup(s6, k, d) = IF k = BondHolderRetirements(b0, h0) THEN v6 ELSE Lookup(s5, k, d)
  BY WriteRead
<1>8. \A k, d : read(k, d) = Lookup(persistent, k, d)
  BY DEF read, Lookup
<1> HIDE DEF s1, s2, s3, s4, s5, s6
<1>9. Lookup(persistent', RetirementCount, 0) = record.id
  BY <1>1, <1>3, <1>4, <1>5, <1>6, <1>7, KeysApart, SMTT(30)
<1>10. \A i : Lookup(persistent', Retirement(i), NoRecord) =
         IF i = record.id THEN record ELSE read(Retirement(i), NoRecord)
  BY <1>1, <1>2, <1>3, <1>4, <1>5, <1>6, <1>7, <1>8, KeysApart, SMTT(30)
<1>11. \A h : Lookup(persistent', RetiredCredits(h), 0) =
         IF h = h0 THEN v4 ELSE read(RetiredCredits(h), 0)
  BY <1>1, <1>2, <1>3, <1>4, <1>5, <1>6, <1>7, <1>8, KeysApart, SMTT(30)
<1>12. \A b, h : Lookup(persistent', RetiredPerBond(b, h), 0) =
         IF b = b0 /\ h = h0 THEN v1 ELSE read(RetiredPerBond(b, h), 0)
  BY <1>1, <1>2, <1>3, <1>4, <1>5, <1>6, <1>7, <1>8, KeysApart, SMTT(30)
<1>13. \A h : Lookup(persistent', HolderRetirements(h), <<>>) =
         IF h = h0 THEN v5 ELSE read(HolderRetirements(h), <<>>)
  BY <1>1, <1>2, <1>3, <1>4, <1>5, <1>6, <1>7, <1>8, KeysApart, SMTT(30)
<1>14. \A b, h : Lookup(persistent', BondHolderRetirements(b, h), <<>>) =
         IF b = b0 /\ h = h0 THEN v6 ELSE read(BondHolderRetirements(b, h), <<>>)
  BY <1>1, <1>2, <1>3, <1>4, <1>5, <1>6, <1>7, <1>8, KeysApart, SMTT(30)
<1> QED
  BY <1>9, <1>10, <1>11, <1>12, <1>13, <1>14, Zenon

-----------------------------------------------------------------------------
(* The engine underneath *)

(* A period paid out stays as it is, and what was taken out of the engine   *)
(* only grows.                                                              *)
EngineForward ==
  /\ \A b \in BondIds, p \in Periods :
       period_info[b][p].distributed => period_info'[b][p] = period_info[b][p]
  /\ \A b \in BondIds : spent[b] <= spent'[b]

LEMMA EngineSteps ==
  ASSUME CouponInv, CouponStep
  PROVE  EngineForward
<1> USE DEF EngineForward
<1>1. /\ period_info \in [BondIds -> [Periods -> PeriodRecords \cup {NoPeriod}]]
      /\ spent \in [BondIds -> Nat] /\ accrued \in [BondIds -> [Addresses -> Nat]]
  BY DEF CouponInv, CouponTypeOK
<1>2. ASSUME UNCHANGED <<period_info, spent>>
      PROVE  EngineForward
  BY <1>1, <1>2
<1>3. ASSUME NEW caller \in Addresses, NEW b \in BondIds, claim_credits(caller, b)
      PROVE  EngineForward
  <2>1. UNCHANGED period_info /\ spent' = [spent EXCEPT ![b] = @ + accrued[b][caller]]
    BY <1>3 DEF claim_credits, periodVars
  <2> QED
    BY <1>1, <2>1
<1>4. CASE AccountCall
  <2>1. ASSUME NEW caller \in Addresses, NEW b \in BondIds, register_bond(caller, b)
        PROVE  EngineForward
    BY <1>2, <2>1, Zenon DEF register_bond, periodVars, creditVars
  <2>2. ASSUME NEW caller \in Addresses, NEW b \in BondIds, NEW to \in SweepDestinations,
               sweep_undistributed(caller, b, to)
        PROVE  EngineForward
    <3>1. UNCHANGED periodVars /\ UNCHANGED spent
      BY <2>2, Zenon DEF sweep_undistributed
    <3> QED
      BY <1>2, <3>1, Zenon DEF periodVars
  <2>3. ASSUME NEW caller \in Addresses, register_deduct_caller(caller)
        PROVE  EngineForward
    BY <1>2, <2>3, Zenon DEF register_deduct_caller, periodVars, creditVars
  <2> QED
    BY <1>3, <1>4, <2>1, <2>2, <2>3, Zenon DEF AccountCall
<1>5. CASE DistributeCall
  <2>1. PICK caller \in Addresses, b \in BondIds, p \in Periods, holders \in Batches,
             r \in Reports, last \in BOOLEAN : distribute_coupon(caller, b, p, holders, r, last)
    BY <1>5, Zenon DEF DistributeCall
  <2> DEFINE s == StateOf(b, p, r)
             paid == Paid(b, p, holders)
             credit == CreditOf(s, paid, holders)
             after == AfterBatch(s, Total(paid, BalanceOf(paid, holders)), EarnedOf(paid, credit))
  <2>2. /\ ~period_info[b][p].distributed
        /\ PayHolders(b, p, holders, paid, credit)
        /\ FinalisePeriod(b, p, after) \/ UNCHANGED period_info
    BY ONLY <2>1, Zenon DEF distribute_coupon
  <2> HIDE DEF after, credit, paid, s
  <2>3. UNCHANGED spent
    BY <2>2, Zenon DEF PayHolders
  <2>4. CASE UNCHANGED period_info
    BY <1>2, <2>3, <2>4, Zenon
  <2>5. CASE FinalisePeriod(b, p, after)
    <3>1. PICK record : period_info' = [period_info EXCEPT ![b][p] = record]
      BY <2>5, Zenon DEF FinalisePeriod
    <3> QED
      BY <1>1, <2>2, <2>3, <3>1
  <2> QED
    BY <2>2, <2>4, <2>5, Zenon
<1>6. CASE UNCHANGED couponVars
  BY <1>2, <1>6, Zenon DEF couponVars, periodVars, creditVars
<1> QED
  BY <1>4, <1>5, <1>6, Zenon DEF CouponStep

-----------------------------------------------------------------------------
(* Sums over certificates *)

LEMMA TotalAgrees ==
  ASSUME NEW S, NEW f, NEW g, \A x \in S : f[x] = g[x]
  PROVE  Total(S, f) = Total(S, g)
<1>1. UnitsOf(S, f) = UnitsOf(S, g)
  BY DEF UnitsOf
<1> QED
  BY <1>1 DEF Total

(* One more certificate adds its amount. *)
LEMMA TotalWithNew ==
  ASSUME NEW S, IsFiniteSet(S), NEW x, x \notin S, NEW f, NEW g,
         \A y \in S : f[y] \in Nat /\ g[y] = f[y], g[x] \in Nat
  PROVE  /\ Total(S \cup {x}, g) = Total(S, f) + g[x]
         /\ Total(S, f) \in Nat
<1>1. Total(S, f) = Total(S, g)
  BY TotalAgrees
<1>2. \A y \in S : g[y] \in Nat
  OBVIOUS
<1>3. Total(S \cup {x}, g) = Total(S, g) + g[x] /\ Total(S, g) \in Nat
  BY <1>2, TotalGrown, Zenon
<1> QED
  BY <1>1, <1>3

LEMMA IdsFinite ==
  /\ IsFiniteSet(RetirementIds) /\ RetirementIds \subseteq Nat \ {0}
  /\ LegacyIds \subseteq RetirementIds /\ Len(LegacyRecords) \in Nat
  /\ \A S : S \subseteq RetirementIds => IsFiniteSet(S) /\ Cardinality(S) \in Nat
<1>1. 1 \in Int /\ MaxRetirements \in Int
  BY RetirementAssumption
<1>2. IsFiniteSet(1 .. MaxRetirements)
  BY ONLY <1>1, FS_Interval, Zenon
<1>3. LegacyIds \subseteq RetirementIds /\ RetirementIds \subseteq Nat \ {0} /\ Len(LegacyRecords) \in Nat
  BY RetirementAssumption DEF LegacyIds, RetirementIds
<1>4. ASSUME NEW S, S \subseteq RetirementIds
      PROVE  IsFiniteSet(S) /\ Cardinality(S) \in Nat
  <2>1. IsFiniteSet(RetirementIds) /\ S \in SUBSET RetirementIds
    BY <1>2, <1>4 DEF RetirementIds
  <2>2. IsFiniteSet(S)
    BY ONLY <2>1, FS_Subset, Zenon
  <2> QED
    BY ONLY <2>2, FS_CardinalityType
<1> QED
  BY <1>2, <1>3, <1>4, Zenon DEF RetirementIds

-----------------------------------------------------------------------------
(* After the move *)

(* Which keys have an instance entry. *)
LEMMA InstanceKeysAre ==
  /\ RetirementCount \in InstanceKeys <=> LegacyIds # {}
  /\ \A i : Retirement(i) \in InstanceKeys <=> i \in LegacyIds
  /\ \A h : /\ HolderRetirements(h) \in InstanceKeys <=> LegacyOf(h) # {}
            /\ RetiredCredits(h) \in InstanceKeys <=> LegacyOf(h) # {}
  /\ \A b, h : /\ RetiredPerBond(b, h) \in InstanceKeys <=> b \in BondIds /\ LegacyOf(h) # {}
               /\ BondHolderRetirements(b, h) \notin InstanceKeys
<1> DEFINE holders == {LegacyRecords[i].holder : i \in LegacyIds}
           A == {RetirementCount : i \in LegacyIds}
           B == {Retirement(i) : i \in LegacyIds}
           C == {HolderRetirements(h) : h \in holders}
           D == {RetiredCredits(h) : h \in holders}
           E == {RetiredPerBond(b, h) : b \in BondIds, h \in holders}
<1>1. \A h : h \in holders <=> LegacyOf(h) # {}
  BY DEF LegacyOf
<1>2. InstanceKeys = A \cup B \cup C \cup D \cup E
  BY DEF InstanceKeys
<1>3. \A k : k \in A <=> k = RetirementCount /\ LegacyIds # {}
  OBVIOUS
<1>4. \A k : k \in B <=> \E i \in LegacyIds : k = Retirement(i)
  OBVIOUS
<1> HIDE DEF holders
<1>5. \A k : k \in C <=> \E h \in holders : k = HolderRetirements(h)
  OBVIOUS
<1>6. \A k : k \in D <=> \E h \in holders : k = RetiredCredits(h)
  OBVIOUS
<1>7. \A k : k \in E <=> \E b \in BondIds, h \in holders : k = RetiredPerBond(b, h)
  OBVIOUS
<1> HIDE DEF A, B, C, D, E
<1>8. RetirementCount \in InstanceKeys <=> LegacyIds # {}
  BY <1>2, <1>3, <1>4, <1>5, <1>6, <1>7, KeysApart, SMTT(30)
<1>9. \A i : Retirement(i) \in InstanceKeys <=> i \in LegacyIds
  BY <1>2, <1>3, <1>4, <1>5, <1>6, <1>7, KeysApart, SMTT(30)
<1>10. \A h : HolderRetirements(h) \in InstanceKeys <=> LegacyOf(h) # {}
  BY <1>1, <1>2, <1>3, <1>4, <1>5, <1>6, <1>7, KeysApart, SMTT(30)
<1>11. \A h : RetiredCredits(h) \in InstanceKeys <=> LegacyOf(h) # {}
  BY <1>1, <1>2, <1>3, <1>4, <1>5, <1>6, <1>7, KeysApart, SMTT(30)
<1>12. \A b, h : RetiredPerBond(b, h) \in InstanceKeys <=> b \in BondIds /\ LegacyOf(h) # {}
  BY <1>1, <1>2, <1>3, <1>4, <1>5, <1>6, <1>7, KeysApart, SMTT(30)
<1>13. \A b, h : BondHolderRetirements(b, h) \notin InstanceKeys
  BY <1>2, <1>3, <1>4, <1>5, <1>6, <1>7, KeysApart, SMTT(30)
<1> QED
  BY <1>8, <1>9, <1>10, <1>11, <1>12, <1>13, Zenon

(* What the queries answer right after the move.                            *)
LEMMA InstanceReads ==
  ASSUME RetirementInit
  PROVE  /\ get_retirement_count = Len(LegacyRecords)
         /\ \A i : get_retirement_record(i) =
              IF i \in LegacyIds THEN LegacyRecords[i] ELSE NoRecord
         /\ \A h : /\ get_holder_retirements(h) =
                        IF LegacyOf(h) = {} THEN <<>> ELSE LegacyList(h)
                   /\ get_total_retired(h) = LegacyAmount(LegacyOf(h))
         /\ \A b \in BondIds : \A h :
              /\ read(RetiredPerBond(b, h), 0) = LegacyAmount(LegacyOn(b, h))
              /\ get_bond_retirements(b, h) = <<>>
<1>1. \A k, d : read(k, d) = IF k \in InstanceKeys THEN Instance[k] ELSE d
  <2>1. DOMAIN Instance = InstanceKeys
    BY Zenon DEF Instance
  <2>2. DOMAIN persistent = {}
    BY DEF RetirementInit
  <2> QED
    BY <2>1, <2>2 DEF read
<1>2. LegacyAmount({}) = 0
  BY TotalZero DEF LegacyAmount
<1>3. /\ RetirementCount \in InstanceKeys => Instance[RetirementCount] = Len(LegacyRecords)
      /\ \A i : Retirement(i) \in InstanceKeys => Instance[Retirement(i)] = LegacyRecords[i]
      /\ \A h : HolderRetirements(h) \in InstanceKeys =>
           Instance[HolderRetirements(h)] = LegacyList(h)
      /\ \A h : RetiredCredits(h) \in InstanceKeys =>
           Instance[RetiredCredits(h)] = LegacyAmount(LegacyOf(h))
      /\ \A b, h : RetiredPerBond(b, h) \in InstanceKeys =>
           Instance[RetiredPerBond(b, h)] = LegacyAmount(LegacyOn(b, h))
  BY DEF Instance, RetirementCount, Retirement, HolderRetirements, RetiredCredits, RetiredPerBond
<1>4. LegacyIds = {} => Len(LegacyRecords) = 0
  BY IdsFinite DEF LegacyIds
<1>5. \A b, h : LegacyOf(h) = {} => LegacyOn(b, h) = {}
  BY DEF LegacyOn
<1>6. get_retirement_count = Len(LegacyRecords)
  BY <1>1, <1>3, <1>4, InstanceKeysAre, Zenon DEF get_retirement_count
<1>7. \A i : get_retirement_record(i) = IF i \in LegacyIds THEN LegacyRecords[i] ELSE NoRecord
  BY <1>1, <1>3, InstanceKeysAre, Zenon DEF get_retirement_record
<1>8. \A h : /\ get_holder_retirements(h) = IF LegacyOf(h) = {} THEN <<>> ELSE LegacyList(h)
             /\ get_total_retired(h) = LegacyAmount(LegacyOf(h))
  BY <1>1, <1>2, <1>3, InstanceKeysAre, Zenon DEF get_holder_retirements, get_total_retired
<1>9. \A b \in BondIds : \A h :
        /\ read(RetiredPerBond(b, h), 0) = LegacyAmount(LegacyOn(b, h))
        /\ get_bond_retirements(b, h) = <<>>
  BY <1>1, <1>2, <1>3, <1>5, InstanceKeysAre, Zenon DEF get_bond_retirements
<1> QED
  BY <1>6, <1>7, <1>8, <1>9, Zenon

(* A holder's list of the legacy ids exists. *)
LEMMA LegacyListed ==
  ASSUME NEW h
  PROVE  LegacyList(h) \in Seq(LegacyOf(h)) /\ Elements(LegacyList(h)) = LegacyOf(h)
<1> DEFINE S == LegacyOf(h)
           n == Cardinality(S)
<1>1. IsFiniteSet(S)
  BY IdsFinite, Zenon DEF LegacyOf
<1> HIDE DEF S
<1>2. n \in Nat /\ ExistsBijection(1 .. n, S)
  BY ONLY <1>1, FS_CardinalityType
<1>3. PICK list \in [1 .. n -> S] : \A t \in S : \E i \in 1 .. n : list[i] = t
  BY <1>2 DEF ExistsBijection, Bijection, Surjection, Injection
<1>4. Elements(list) = S
  BY <1>3 DEF Elements
<1>5. LegacyList(h) \in [1 .. n -> S] /\ Elements(LegacyList(h)) = S
  BY <1>4, Zenon DEF LegacyList, S
<1> QED
  BY <1>2, <1>5 DEF S

LEMMA RetirementInvInit ==
  ASSUME CouponInv, RetirementInit
  PROVE  RetirementInv
<1>1. \A i \in LegacyIds : /\ LegacyRecords[i].id = i /\ LegacyRecords[i].amount \in Nat
                           /\ LegacyRecords[i].holder \in Addresses
                           /\ LegacyRecords[i].bond_id \in BondIds
  BY RetirementAssumption
<1>2. \A i : get_retirement_record(i) = IF i \in LegacyIds THEN LegacyRecords[i] ELSE NoRecord
  BY InstanceReads
<1>3. \A i \in RetirementIds : HasRecord(i) <=> i \in LegacyIds
  <2>1. NoRecord.id = 0 /\ 0 \notin RetirementIds
    BY IdsFinite DEF NoRecord
  <2> QED
    BY <1>1, <1>2, <2>1, IdsFinite, Zenon DEF HasRecord
<1>4. RecordsKept
  <2>1. get_retirement_count = Len(LegacyRecords)
    BY InstanceReads
  <2>2. get_retirement_count \in Len(LegacyRecords) .. MaxRetirements
    BY <2>1, RetirementAssumption
  <2>3. \A i \in RetirementIds : i \in LegacyIds <=> i <= get_retirement_count
    BY <2>1, IdsFinite DEF LegacyIds
  <2>4. ASSUME NEW i \in LegacyIds
        PROVE  RecordOK(i)
    BY <1>2, RetirementAssumption, Zenon DEF RecordOK
  <2> QED
    BY <1>3, <2>2, <2>3, <2>4, Zenon DEF RecordsKept
<1>5. SpentCovers
  <2>1. \A b \in BondIds : SinceMove(b) = {}
    BY <1>3 DEF SinceMove
  <2>2. AmountOf({}) = 0
    BY TotalZero DEF AmountOf
  <2>3. \A b \in BondIds : spent[b] \in Nat
    BY Zenon DEF CouponInv, CouponTypeOK
  <2> QED
    BY <2>1, <2>2, <2>3 DEF SpentCovers
<1>6. \A i \in LegacyIds : /\ Certificate(i).record_id = i
                           /\ Certificate(i).amount = LegacyRecords[i].amount
                           /\ Certificate(i).holder = LegacyRecords[i].holder
                           /\ Certificate(i).bond_id = LegacyRecords[i].bond_id
  BY <1>1, <1>2 DEF Certificate, get_retirement_certificate, certificate_from_record
<1>7. \A h : CertificatesOf(h, BondIds) = LegacyOf(h)
  BY <1>1, <1>3, <1>6, IdsFinite, Zenon DEF CertificatesOf, LegacyOf
<1>8. \A b, h : CertificatesOf(h, {b}) = LegacyOn(b, h)
  BY <1>1, <1>3, <1>6, IdsFinite, Zenon DEF CertificatesOf, LegacyOn, LegacyOf
<1>9. ASSUME NEW ids, ids \subseteq LegacyIds
      PROVE  AmountOf(ids) = LegacyAmount(ids)
  BY <1>6, <1>9 DEF AmountOf, LegacyAmount
<1>10. ASSUME NEW h \in Addresses
       PROVE  TotalsTrue(h) /\ IndexesTrue(h)
  <2>1. LegacyOf(h) \subseteq LegacyIds /\ \A b : LegacyOn(b, h) \subseteq LegacyIds
    BY Zenon DEF LegacyOf, LegacyOn
  <2>2. TotalsTrue(h)
    BY <1>6, <1>7, <1>8, <1>9, <2>1, InstanceReads DEF TotalsTrue
  <2>3. /\ get_holder_retirements(h) \in Seq(RetirementIds)
        /\ Elements(get_holder_retirements(h)) = LegacyOf(h)
    <3>1. CASE LegacyOf(h) = {}
      <4>1. get_holder_retirements(h) = <<>>
        BY <3>1, InstanceReads, Zenon
      <4> QED
        BY <3>1, <4>1 DEF Elements
    <3>2. CASE LegacyOf(h) # {}
      <4>1. get_holder_retirements(h) = LegacyList(h)
        BY <3>2, InstanceReads
      <4>2. LegacyOf(h) \subseteq RetirementIds
        BY <2>1, IdsFinite, Zenon
      <4> HIDE DEF LegacyList
      <4> QED
        BY <4>1, <4>2, LegacyListed
    <3> QED
      BY <3>1, <3>2, Zenon
  <2>4. ASSUME NEW b \in BondIds
        PROVE  /\ CertificatesOf(h, {b}) \ LegacyIds = {}
               /\ get_bond_retirements(b, h) = <<>>
    BY <1>8, <2>1, InstanceReads, Zenon
  <2>5. Elements(<<>>) = {} /\ Len(<<>>) = 0 /\ <<>> \in Seq(RetirementIds)
    BY DEF Elements
  <2>6. IndexesTrue(h)
    BY <1>7, <2>3, <2>4, <2>5, FS_EmptySet, Zenon DEF IndexesTrue
  <2> QED
    BY <2>2, <2>6, Zenon
<1> QED
  BY <1>4, <1>5, <1>10, Zenon DEF RetirementInv

-----------------------------------------------------------------------------
(* Steps that answer every query as before *)

ReadsKept ==
  /\ get_retirement_count' = get_retirement_count
  /\ \A i : get_retirement_record(i)' = get_retirement_record(i)
  /\ \A h : /\ get_holder_retirements(h)' = get_holder_retirements(h)
            /\ get_total_retired(h)' = get_total_retired(h)
  /\ \A b, h : /\ read(RetiredPerBond(b, h), 0)' = read(RetiredPerBond(b, h), 0)
               /\ get_bond_retirements(b, h)' = get_bond_retirements(b, h)

(* Writing an entry back to persistent storage changes no answer: neither   *)
(* the counter when it is read, nor a record whose lifetime is extended.    *)
LEMMA RewriteKeeps ==
  ASSUME \/ persistent' = write(persistent, RetirementCount, get_retirement_count)
         \/ \E id : persistent' = write(persistent, Retirement(id), get_retirement_record(id))
         \/ UNCHANGED persistent
  PROVE  ReadsKept
<1> USE DEF ReadsKept, get_retirement_count, get_retirement_record, get_holder_retirements,
            get_total_retired, get_bond_retirements
<1>1. \A k, d : read(k, d) = Lookup(persistent, k, d) /\ read(k, d)' = Lookup(persistent', k, d)
  BY Zenon DEF read, Lookup
<1>2. CASE UNCHANGED persistent
  BY <1>2, Zenon DEF read
<1>3. CASE persistent' = write(persistent, RetirementCount, get_retirement_count)
  <2>1. \A k, d : Lookup(persistent', k, d) =
          IF k = RetirementCount THEN get_retirement_count ELSE Lookup(persistent, k, d)
    BY <1>3, WriteRead
  <2>2. \A k, d : read(k, d)' = IF k = RetirementCount THEN get_retirement_count ELSE read(k, d)
    BY <1>1, <2>1, Zenon
  <2> HIDE DEF read
  <2> QED
    BY <2>2, KeysApart, Zenon
<1>4. ASSUME NEW id, persistent' = write(persistent, Retirement(id), get_retirement_record(id))
      PROVE  ReadsKept
  <2>1. \A k, d : Lookup(persistent', k, d) =
          IF k = Retirement(id) THEN get_retirement_record(id) ELSE Lookup(persistent, k, d)
    BY <1>4, WriteRead
  <2>2. \A k, d : read(k, d)' = IF k = Retirement(id) THEN get_retirement_record(id) ELSE read(k, d)
    BY <1>1, <2>1, Zenon
  <2> HIDE DEF read
  <2> QED
    BY <2>2, KeysApart, Zenon
<1> QED
  BY <1>2, <1>3, <1>4, Zenon

LEMMA AnswersKept ==
  ASSUME RetirementInv, ReadsKept, CouponInv', EngineForward
  PROVE  /\ RetirementInv'
         /\ \A i \in RetirementIds : Certificate(i)' = Certificate(i)
<1>1. \A i : /\ HasRecord(i)' <=> HasRecord(i)
            /\ Certificate(i)' = Certificate(i)
  BY Zenon DEF ReadsKept, HasRecord, Certificate, get_retirement_certificate
<1>2. \A i : RecordOK(i)' <=> RecordOK(i)
  BY DEF ReadsKept, RecordOK
<1>3. \A h, S : CertificatesOf(h, S)' = CertificatesOf(h, S)
  BY <1>1 DEF CertificatesOf
<1>4. \A S : AmountOf(S)' = AmountOf(S)
  BY <1>1, Zenon DEF AmountOf
<1>5. RecordsKept'
  <2>1. ASSUME NEW i \in RetirementIds, HasRecord(i), i \notin LegacyIds
        PROVE  OfPaidPeriod(i)'
    <3>1. OfPaidPeriod(i) /\ RecordOK(i)
      BY <2>1 DEF RetirementInv, RecordsKept
    <3> DEFINE r == get_retirement_record(i)
    <3>2. get_retirement_record(i)' = r
      BY DEF ReadsKept
    <3>3. /\ r.bond_id \in BondIds /\ r.period_index \in Periods
          /\ period_info[r.bond_id][r.period_index].distributed
          /\ period_info[r.bond_id][r.period_index].report_id = r.report_id
      BY <3>1, Zenon DEF OfPaidPeriod, RecordOK
    <3>4. period_info'[r.bond_id][r.period_index] = period_info[r.bond_id][r.period_index]
      BY <3>3, Zenon DEF EngineForward
    <3> HIDE DEF r
    <3> QED
      BY <3>2, <3>3, <3>4, Zenon DEF OfPaidPeriod
  <2> QED
    BY <1>1, <1>2, <2>1, Zenon DEF RetirementInv, RecordsKept, ReadsKept
<1>6. SpentCovers'
  <2>1. \A b : SinceMove(b)' = SinceMove(b)
    BY <1>1, Zenon DEF SinceMove
  <2>2. ASSUME NEW b \in BondIds
        PROVE  AmountOf(SinceMove(b))' <= spent'[b]
    <3> DEFINE n == AmountOf(SinceMove(b))
    <3>1. AmountOf(SinceMove(b))' = n
      BY <1>1, <2>1, Zenon DEF AmountOf
    <3>2. n \in Int
      <4>1. SinceMove(b) \subseteq RetirementIds
        BY Zenon DEF SinceMove
      <4>2. \A i \in SinceMove(b) : Certificate(i).amount \in Nat
        BY DEF RetirementInv, RecordsKept, RecordOK, SinceMove, Certificate,
               get_retirement_certificate, certificate_from_record
      <4>3. IsFiniteSet(SinceMove(b))
        BY <4>1, IdsFinite, Zenon
      <4> QED
        BY <4>2, <4>3, TotalFinite DEF AmountOf
    <3>3. n <= spent[b] /\ spent[b] <= spent'[b] /\ spent[b] \in Nat /\ spent'[b] \in Nat
      BY DEF RetirementInv, SpentCovers, EngineForward, CouponInv, CouponTypeOK
    <3> HIDE DEF n
    <3> QED
      BY <3>1, <3>2, <3>3
  <2> QED
    BY <2>2 DEF SpentCovers
<1>7. ASSUME NEW h \in Addresses
      PROVE  TotalsTrue(h)' /\ IndexesTrue(h)'
  <2>1. TotalsTrue(h) /\ IndexesTrue(h)
    BY DEF RetirementInv
  <2>2. \A S : AmountOf(CertificatesOf(h, S))' = AmountOf(CertificatesOf(h, S))
    BY <1>1, <1>3, Zenon DEF AmountOf
  <2>3. TotalsTrue(h)'
    BY <1>1, <1>3, <2>1, <2>2, Zenon DEF TotalsTrue, ReadsKept
  <2>4. IndexesTrue(h)'
    BY <1>3, <2>1, Zenon DEF IndexesTrue, ReadsKept, Elements
  <2> QED
    BY <2>3, <2>4, Zenon
<1> QED
  BY <1>1, <1>5, <1>6, <1>7, Zenon DEF RetirementInv

-----------------------------------------------------------------------------
(* A retirement *)

(* The call recorded the retirement of amount, with the fields it says. *)
RetiredAs(holder, b, p, amount) ==
  \E record :
    /\ RecordRetirement(record)
    /\ record.id = get_retirement_count + 1 /\ record.id \in RetirementIds
    /\ record.holder = holder /\ record.bond_id = b /\ record.amount = amount
    /\ record.period_index = p /\ record.report_id \in Reports
    /\ record.vintage_year = year_from_timestamp(ReportData[record.report_id].end_day)
    /\ period_info[b][p].distributed
    /\ period_info[b][p].report_id = record.report_id

(* The parts of a call of retire_credits that the invariant is about.       *)
LEMMA RetirementParts ==
  ASSUME RetirementInv, NEW holder \in Addresses, NEW b \in BondIds, NEW project_id,
         NEW p \in Periods, NEW amount \in Retirements, NEW type \in CreditTypes,
         retire_credits(holder, b, project_id, p, amount, type)
  PROVE  /\ CouponInv' /\ amount \in Nat
         /\ UNCHANGED period_info /\ spent' = [spent EXCEPT ![b] = @ + amount]
         /\ RetiredAs(holder, b, p, amount)
<1> DEFINE id == get_retirement_count + 1
           report_id == period_info[b][p].report_id
           record == [id |-> id, holder |-> holder, bond_id |-> b, period_index |-> p,
                      report_id |-> report_id, amount |-> amount, credit_type |-> type,
                      vintage_year |-> year_from_timestamp(ReportData[report_id].end_day)]
<1>1. /\ id \in RetirementIds /\ amount > 0 /\ period_info[b][p].distributed
      /\ deduct_credits(b, holder, amount, type) /\ RecordRetirement(record)
      /\ UNCHANGED vars /\ UNCHANGED report_status
  BY Zenon DEF retire_credits, Deducted
<1>2. CouponInv'
  BY <1>1, DeductStep, Zenon DEF RetirementInv
<1>3. amount \in Nat
  <2>1. amount \in Int
    BY CouponAssumption, Zenon
  <2> QED
    BY ONLY <1>1, <2>1
<1>4. UNCHANGED period_info /\ spent' = [spent EXCEPT ![b] = @ + amount]
  BY <1>1 DEF deduct_credits, periodVars
<1>5. report_id \in Reports
  BY <1>1, EntryTypes, Zenon DEF RetirementInv, CouponInv
<1>6. /\ record.id = id /\ record.holder = holder /\ record.bond_id = b
      /\ record.amount = amount /\ record.period_index = p /\ record.report_id = report_id
      /\ record.vintage_year = year_from_timestamp(ReportData[report_id].end_day)
  BY Zenon
<1> HIDE DEF record
<1> QED
  BY <1>1, <1>2, <1>3, <1>4, <1>5, <1>6, Zenon DEF RetiredAs

(* The certificates after it: those there were, and one more.               *)
LEMMA CertificatesAfter ==
  ASSUME RetirementInv, NEW record, RecordRetirement(record),
         record.id = get_retirement_count + 1, record.id \in RetirementIds
  PROVE  /\ ~HasRecord(record.id) /\ record.id \notin LegacyIds
         /\ get_retirement_count' = record.id
         /\ get_retirement_record(record.id)' = record
         /\ Certificate(record.id)' = certificate_from_record(record)
         /\ \A i \in RetirementIds :
              /\ HasRecord(i)' <=> HasRecord(i) \/ i = record.id
              /\ HasRecord(i) => /\ get_retirement_record(i)' = get_retirement_record(i)
                                 /\ Certificate(i)' = Certificate(i)
<1>1. \A k, d : read(k, d)' = Lookup(persistent', k, d)
  BY DEF read, Lookup
<1>2. \A i : get_retirement_record(i)' =
               IF i = record.id THEN record ELSE get_retirement_record(i)
  BY <1>1, RetirementWritten DEF get_retirement_record
<1>3. get_retirement_count' = record.id
  BY <1>1, RetirementWritten, Zenon DEF get_retirement_count
<1>4. ~HasRecord(record.id) /\ record.id \notin LegacyIds
  <2>1. get_retirement_count \in Len(LegacyRecords) .. MaxRetirements
    BY DEF RetirementInv, RecordsKept
  <2>2. HasRecord(record.id) <=> record.id <= get_retirement_count
    BY DEF RetirementInv, RecordsKept
  <2> QED
    BY <2>1, <2>2, IdsFinite DEF LegacyIds
<1>5. record # NoRecord
  BY IdsFinite DEF NoRecord
<1> QED
  BY <1>2, <1>3, <1>4, <1>5 DEF HasRecord, Certificate, get_retirement_certificate

LEMMA RecordsAfter ==
  ASSUME RetirementInv, NEW record, RecordRetirement(record),
         record.id = get_retirement_count + 1, record.id \in RetirementIds,
         record.holder \in Addresses, record.bond_id \in BondIds, record.amount \in Nat,
         record.period_index \in Periods, record.report_id \in Reports,
         record.vintage_year = year_from_timestamp(ReportData[record.report_id].end_day),
         period_info[record.bond_id][record.period_index].distributed,
         period_info[record.bond_id][record.period_index].report_id = record.report_id,
         UNCHANGED period_info
  PROVE  RecordsKept'
<1> DEFINE n == get_retirement_count
<1>1. n \in Nat /\ n \in Len(LegacyRecords) .. MaxRetirements /\ MaxRetirements \in Nat
  BY IdsFinite, RetirementAssumption DEF RetirementInv, RecordsKept
<1>2. get_retirement_count' \in Len(LegacyRecords) .. MaxRetirements
  BY <1>1, CertificatesAfter, IdsFinite DEF RetirementIds
<1>3. ASSUME NEW i \in RetirementIds
      PROVE  /\ HasRecord(i)' <=> i <= get_retirement_count'
             /\ HasRecord(i)' => RecordOK(i)'
             /\ HasRecord(i)' /\ i \notin LegacyIds => OfPaidPeriod(i)'
  <2>1. /\ HasRecord(i) <=> i <= n
        /\ HasRecord(i) => RecordOK(i)
        /\ HasRecord(i) /\ i \notin LegacyIds => OfPaidPeriod(i)
    BY Zenon DEF RetirementInv, RecordsKept
  <2>2. HasRecord(i)' <=> i <= get_retirement_count'
    BY <1>1, <2>1, CertificatesAfter, IdsFinite
  <2>3. CASE i = record.id
    <3>1. get_retirement_record(i)' = record
      BY <2>3, CertificatesAfter, Zenon
    <3>2. RecordOK(i)' /\ OfPaidPeriod(i)'
      BY <2>3, <3>1, Zenon DEF RecordOK, OfPaidPeriod
    <3> QED
      BY <2>2, <3>2, Zenon
  <2>4. CASE i # record.id /\ HasRecord(i)
    <3>1. get_retirement_record(i)' = get_retirement_record(i)
      BY <2>4, CertificatesAfter, Zenon
    <3>2. RecordOK(i)' /\ (OfPaidPeriod(i) => OfPaidPeriod(i)')
      BY <2>1, <2>4, <3>1, ZenonT(30) DEF RecordOK, OfPaidPeriod
    <3> QED
      BY <2>1, <2>2, <2>4, <3>2, ZenonT(30)
  <2>5. CASE i # record.id /\ ~HasRecord(i)
    BY <2>2, <2>5, CertificatesAfter, Zenon
  <2> QED
    BY <2>3, <2>4, <2>5, Zenon
<1> QED
  BY <1>2, <1>3, Zenon DEF RecordsKept

(* What was counted over a set of certificates grows by the new one.        *)
LEMMA SumAfter ==
  ASSUME RetirementInv, NEW record, RecordRetirement(record),
         record.id = get_retirement_count + 1, record.id \in RetirementIds,
         record.amount \in Nat,
         NEW S, S \subseteq RetirementIds, \A i \in S : HasRecord(i)
  PROVE  /\ AmountOf(S) \in Nat
         /\ Total(S, [i \in S |-> Certificate(i)'.amount]) = AmountOf(S)
         /\ Total(S \cup {record.id}, [i \in S \cup {record.id} |-> Certificate(i)'.amount]) =
              AmountOf(S) + record.amount
<1> DEFINE x == record.id
           f == [i \in S |-> Certificate(i).amount]
           g == [i \in S \cup {x} |-> Certificate(i)'.amount]
           k == [i \in S |-> Certificate(i)'.amount]
<1>1. IsFiniteSet(S)
  BY IdsFinite, Zenon
<1>2. x \notin S
  BY CertificatesAfter, Zenon
<1>3. \A i \in S : f[i] \in Nat
  BY Zenon DEF RetirementInv, RecordsKept, RecordOK, Certificate, get_retirement_certificate,
         certificate_from_record
<1>4. \A i \in S : g[i] = f[i] /\ k[i] = f[i]
  BY CertificatesAfter, Zenon
<1>5. g[x] = record.amount
  <2>1. Certificate(x)' = certificate_from_record(record)
    BY CertificatesAfter
  <2>2. certificate_from_record(record).amount = record.amount
    BY Zenon DEF certificate_from_record
  <2> QED
    BY <2>1, <2>2, Zenon
<1>6. AmountOf(S) = Total(S, f)
  BY Zenon DEF AmountOf
<1> HIDE DEF f, g, k, x
<1>7. Total(S, k) = Total(S, f)
  BY <1>4, TotalAgrees, Zenon
<1>8. g[x] \in Nat
  BY <1>5, Zenon
<1>9. Total(S \cup {x}, g) = Total(S, f) + g[x] /\ Total(S, f) \in Nat
  BY ONLY <1>1, <1>2, <1>3, <1>4, <1>8, TotalWithNew, Zenon
<1> QED
  BY <1>5, <1>6, <1>7, <1>9, Zenon DEF g, k, x

(* The same for the certificates of a holder on some bonds.                 *)
LEMMA HoldingsAfter ==
  ASSUME RetirementInv, NEW record, RecordRetirement(record),
         record.id = get_retirement_count + 1, record.id \in RetirementIds,
         record.amount \in Nat, NEW h, NEW bonds
  PROVE  LET S == CertificatesOf(h, bonds)
             more == record.holder = h /\ record.bond_id \in bonds
         IN /\ S \subseteq RetirementIds /\ record.id \notin S
            /\ CertificatesOf(h, bonds)' = IF more THEN S \cup {record.id} ELSE S
            /\ AmountOf(S) \in Nat
            /\ AmountOf(CertificatesOf(h, bonds))' =
                 IF more THEN AmountOf(S) + record.amount ELSE AmountOf(S)
<1> DEFINE S == CertificatesOf(h, bonds)
           T == CertificatesOf(h, bonds)'
           more == record.holder = h /\ record.bond_id \in bonds
<1>1. S \subseteq RetirementIds /\ \A i \in S : HasRecord(i)
  BY DEF CertificatesOf
<1>2. record.id \notin S
  BY <1>1, CertificatesAfter, Zenon
<1>3. /\ Certificate(record.id)'.holder = record.holder
      /\ Certificate(record.id)'.bond_id = record.bond_id
  <2>1. Certificate(record.id)' = certificate_from_record(record)
    BY CertificatesAfter
  <2>2. /\ certificate_from_record(record).holder = record.holder
        /\ certificate_from_record(record).bond_id = record.bond_id
    BY Zenon DEF certificate_from_record
  <2> QED
    BY <2>1, <2>2, Zenon
<1>4. \A i \in RetirementIds : i \in T <=> i \in S \/ (i = record.id /\ more)
  BY <1>2, <1>3, CertificatesAfter, Zenon DEF CertificatesOf
<1>5. T \subseteq RetirementIds
  BY DEF CertificatesOf
<1> HIDE DEF S, T
<1>6. T = IF more THEN S \cup {record.id} ELSE S
  BY <1>1, <1>4, <1>5, Zenon
<1>7. AmountOf(CertificatesOf(h, bonds))' = Total(T, [i \in T |-> Certificate(i)'.amount])
  BY Zenon DEF AmountOf, T
<1>8. /\ AmountOf(S) \in Nat
      /\ Total(S, [i \in S |-> Certificate(i)'.amount]) = AmountOf(S)
      /\ Total(S \cup {record.id}, [i \in S \cup {record.id} |-> Certificate(i)'.amount]) =
           AmountOf(S) + record.amount
  BY <1>1, SumAfter, Zenon
<1>9. AmountOf(CertificatesOf(h, bonds))' =
        IF more THEN AmountOf(S) + record.amount ELSE AmountOf(S)
  <2>1. CASE more
    <3>1. T = S \cup {record.id}
      BY <1>6, <2>1
    <3> QED
      BY <1>7, <1>8, <2>1, <3>1, Zenon
  <2>2. CASE ~more
    <3>1. T = S
      BY <1>6, <2>2, Zenon
    <3> QED
      BY <1>7, <1>8, <2>2, <3>1, Zenon
  <2> QED
    BY <2>1, <2>2, Zenon
<1> QED
  BY <1>1, <1>2, <1>6, <1>8, <1>9, Zenon DEF S, T

LEMMA TotalsAfter ==
  ASSUME RetirementInv, NEW record, RecordRetirement(record),
         record.id = get_retirement_count + 1, record.id \in RetirementIds,
         record.amount \in Nat, record.bond_id \in BondIds, NEW h \in Addresses
  PROVE  TotalsTrue(h)'
<1>1. TotalsTrue(h)
  BY DEF RetirementInv
<1>2. \A k, d : read(k, d)' = Lookup(persistent', k, d)
  BY Zenon DEF read, Lookup
<1>3. get_total_retired(h)' = AmountOf(CertificatesOf(h, BondIds))'
  <2>1. get_total_retired(h)' = IF h = record.holder THEN get_total_retired(h) + record.amount
                                                      ELSE get_total_retired(h)
    BY <1>2, RetirementWritten, Zenon DEF get_total_retired
  <2>2. AmountOf(CertificatesOf(h, BondIds))' =
          IF record.holder = h /\ record.bond_id \in BondIds
          THEN AmountOf(CertificatesOf(h, BondIds)) + record.amount
          ELSE AmountOf(CertificatesOf(h, BondIds))
    BY HoldingsAfter, Zenon
  <2> QED
    BY <1>1, <2>1, <2>2, Zenon DEF TotalsTrue
<1>4. ASSUME NEW c \in BondIds
      PROVE  read(RetiredPerBond(c, h), 0)' = AmountOf(CertificatesOf(h, {c}))'
  <2>1. read(RetiredPerBond(c, h), 0)' =
          IF c = record.bond_id /\ h = record.holder
          THEN read(RetiredPerBond(c, h), 0) + record.amount
          ELSE read(RetiredPerBond(c, h), 0)
    BY <1>2, RetirementWritten
  <2>2. AmountOf(CertificatesOf(h, {c}))' =
          IF record.holder = h /\ record.bond_id \in {c}
          THEN AmountOf(CertificatesOf(h, {c})) + record.amount
          ELSE AmountOf(CertificatesOf(h, {c}))
    BY HoldingsAfter, Zenon
  <2> QED
    BY <1>1, <2>1, <2>2, Zenon DEF TotalsTrue
<1>5. ASSUME NEW i \in CertificatesOf(h, BondIds)'
      PROVE  Certificate(i)'.record_id = i
  <2>1. i \in CertificatesOf(h, BondIds) \/ i = record.id
    BY HoldingsAfter
  <2>2. CASE i \in CertificatesOf(h, BondIds)
    <3>1. i \in RetirementIds /\ HasRecord(i)
      BY <2>2, Zenon DEF CertificatesOf
    <3> QED
      BY <1>1, <2>2, <3>1, CertificatesAfter, Zenon DEF TotalsTrue
  <2>3. CASE i = record.id
    <3>1. Certificate(i)' = certificate_from_record(record)
      BY <2>3, CertificatesAfter, Zenon
    <3>2. certificate_from_record(record).record_id = record.id
      BY Zenon DEF certificate_from_record
    <3> QED
      BY <2>3, <3>1, <3>2, Zenon
  <2> QED
    BY <2>1, <2>2, <2>3, Zenon
<1> QED
  BY <1>3, <1>4, <1>5, Zenon DEF TotalsTrue

LEMMA ElementsAppended ==
  ASSUME NEW S, NEW list \in Seq(S), NEW x \in S
  PROVE  /\ Append(list, x) \in Seq(S) /\ Len(Append(list, x)) = Len(list) + 1
         /\ Elements(Append(list, x)) = Elements(list) \cup {x}
<1> DEFINE n == Len(list)
           new == Append(list, x)
<1>1. /\ n \in Nat /\ DOMAIN list = 1 .. n /\ DOMAIN new = 1 .. n + 1
      /\ new \in Seq(S) /\ Len(new) = n + 1
      /\ \A i \in 1 .. n : new[i] = list[i]
      /\ new[n + 1] = x
  OBVIOUS
<1> HIDE DEF n, new
<1>2. 1 .. n + 1 = (1 .. n) \cup {n + 1}
  BY <1>1
<1>3. Elements(new) = Elements(list) \cup {x}
  <2>1. ASSUME NEW y \in Elements(new)
        PROVE  y \in Elements(list) \cup {x}
    <3>1. PICK i \in (1 .. n) \cup {n + 1} : y = new[i]
      BY <1>1, <1>2, Zenon DEF Elements
    <3> QED
      BY <1>1, <3>1, Zenon DEF Elements
  <2>2. ASSUME NEW y \in Elements(list) \cup {x}
        PROVE  y \in Elements(new)
    <3>1. PICK i \in DOMAIN new : y = new[i]
      BY <1>1, <1>2, Zenon DEF Elements
    <3> QED
      BY <3>1, Zenon DEF Elements
  <2> QED
    BY <2>1, <2>2, Zenon
<1> QED
  BY <1>1, <1>3, Zenon DEF n, new

LEMMA IndexesAfter ==
  ASSUME RetirementInv, NEW record, RecordRetirement(record),
         record.id = get_retirement_count + 1, record.id \in RetirementIds,
         record.amount \in Nat, record.bond_id \in BondIds, NEW h \in Addresses
  PROVE  IndexesTrue(h)'
<1> DEFINE id == record.id
<1>1. IndexesTrue(h)
  BY Zenon DEF RetirementInv
<1>2. \A k, d : read(k, d)' = Lookup(persistent', k, d)
  BY DEF read, Lookup
<1>3. /\ get_holder_retirements(h)' \in Seq(RetirementIds)
      /\ Elements(get_holder_retirements(h))' = CertificatesOf(h, BondIds)'
  <2> DEFINE list == get_holder_retirements(h)
             new == get_holder_retirements(h)'
             S == CertificatesOf(h, BondIds)
             T == CertificatesOf(h, BondIds)'
  <2>1. new = IF h = record.holder THEN Append(list, id) ELSE list
    BY <1>2, RetirementWritten, Zenon DEF get_holder_retirements
  <2>2. T = IF record.holder = h /\ record.bond_id \in BondIds THEN S \cup {id} ELSE S
    BY HoldingsAfter, Zenon
  <2>3. list \in Seq(RetirementIds) /\ Elements(list) = S
    BY <1>1, Zenon DEF IndexesTrue
  <2>4. Elements(get_holder_retirements(h))' = Elements(new)
    BY DEF Elements
  <2> HIDE DEF list, new, S, T, id
  <2>5. new \in Seq(RetirementIds) /\ Elements(new) = T
    <3>1. id \in RetirementIds
      BY DEF id
    <3>2. /\ Append(list, id) \in Seq(RetirementIds)
          /\ Elements(Append(list, id)) = Elements(list) \cup {id}
      BY ONLY <2>3, <3>1, ElementsAppended
    <3> QED
      BY <2>1, <2>2, <2>3, <3>2, Zenon
  <2> QED
    BY <2>4, <2>5, Zenon DEF new, T
<1>4. ASSUME NEW c \in BondIds
      PROVE  /\ get_bond_retirements(c, h)' \in Seq(RetirementIds)
             /\ Elements(get_bond_retirements(c, h))' = CertificatesOf(h, {c})' \ LegacyIds
             /\ Len(get_bond_retirements(c, h)') = Cardinality(CertificatesOf(h, {c})' \ LegacyIds)
  <2> DEFINE list == get_bond_retirements(c, h)
             new == get_bond_retirements(c, h)'
             S == CertificatesOf(h, {c}) \ LegacyIds
             T == CertificatesOf(h, {c})' \ LegacyIds
             more == c = record.bond_id /\ h = record.holder
  <2>1. new = IF more THEN Append(list, id) ELSE list
    BY <1>2, RetirementWritten DEF get_bond_retirements
  <2>2. /\ CertificatesOf(h, {c})' = IF record.holder = h /\ record.bond_id \in {c}
                                     THEN CertificatesOf(h, {c}) \cup {id}
                                     ELSE CertificatesOf(h, {c})
        /\ CertificatesOf(h, {c}) \subseteq RetirementIds /\ id \notin CertificatesOf(h, {c})
    BY HoldingsAfter, Zenon
  <2>3. id \notin LegacyIds /\ id \in RetirementIds
    BY CertificatesAfter, Zenon
  <2>4. T = IF more THEN S \cup {id} ELSE S
    BY <2>2, <2>3, Zenon
  <2>5. IsFiniteSet(S) /\ id \notin S
    BY <2>2, IdsFinite, Zenon
  <2>6. list \in Seq(RetirementIds) /\ Elements(list) = S /\ Len(list) = Cardinality(S)
    BY <1>1, Zenon DEF IndexesTrue
  <2>7. Elements(get_bond_retirements(c, h))' = Elements(new)
    BY DEF Elements
  <2> HIDE DEF list, new, S, T, id, more
  <2>8. Cardinality(S \cup {id}) = Cardinality(S) + 1
    BY ONLY <2>5, FS_AddElement, Zenon
  <2>9. new \in Seq(RetirementIds) /\ Elements(new) = T /\ Len(new) = Cardinality(T)
    <3>1. /\ Append(list, id) \in Seq(RetirementIds) /\ Len(Append(list, id)) = Len(list) + 1
          /\ Elements(Append(list, id)) = Elements(list) \cup {id}
      BY ONLY <2>3, <2>6, ElementsAppended
    <3>2. CASE more
      BY <2>1, <2>4, <2>6, <2>8, <3>1, <3>2, Zenon
    <3>3. CASE ~more
      BY <2>1, <2>4, <2>6, <3>3, Zenon
    <3> QED
      BY <3>2, <3>3, Zenon
  <2> QED
    BY <2>7, <2>9, Zenon DEF new, T
<1> QED
  BY <1>3, <1>4, Zenon DEF IndexesTrue

LEMMA SpentAfter ==
  ASSUME RetirementInv, CouponInv', NEW record, RecordRetirement(record),
         record.id = get_retirement_count + 1, record.id \in RetirementIds,
         record.amount \in Nat, record.bond_id \in BondIds,
         spent' = [spent EXCEPT ![record.bond_id] = @ + record.amount]
  PROVE  SpentCovers'
<1> SUFFICES ASSUME NEW c \in BondIds
             PROVE  AmountOf(SinceMove(c))' <= spent'[c]
  BY Zenon DEF SpentCovers
<1> DEFINE S == SinceMove(c)
           T == SinceMove(c)'
           more == record.bond_id = c
<1>1. S \subseteq RetirementIds /\ \A i \in S : HasRecord(i)
  BY Zenon DEF SinceMove
<1>2. record.id \notin LegacyIds /\ record.id \notin S
  BY <1>1, CertificatesAfter, Zenon
<1>3. Certificate(record.id)'.bond_id = record.bond_id
  <2>1. Certificate(record.id)' = certificate_from_record(record)
    BY CertificatesAfter, Zenon
  <2>2. certificate_from_record(record).bond_id = record.bond_id
    BY Zenon DEF certificate_from_record
  <2> QED
    BY <2>1, <2>2, Zenon
<1>4. \A i \in RetirementIds : i \in T <=> i \in S \/ (i = record.id /\ more)
  BY <1>2, <1>3, CertificatesAfter, ZenonT(30) DEF SinceMove
<1>5. T \subseteq RetirementIds
  BY Zenon DEF SinceMove
<1>6. AmountOf(SinceMove(c))' = Total(T, [i \in T |-> Certificate(i)'.amount])
  BY Zenon DEF AmountOf
<1>7. AmountOf(S) <= spent[c] /\ spent \in [BondIds -> Nat]
  BY DEF RetirementInv, SpentCovers, CouponInv, CouponTypeOK
<1> HIDE DEF S, T
<1>8. /\ AmountOf(S) \in Nat
      /\ Total(S, [i \in S |-> Certificate(i)'.amount]) = AmountOf(S)
      /\ Total(S \cup {record.id}, [i \in S \cup {record.id} |-> Certificate(i)'.amount]) =
           AmountOf(S) + record.amount
  BY <1>1, SumAfter, Zenon
<1>9. CASE more
  <2>1. T = S \cup {record.id}
    BY <1>1, <1>4, <1>5, <1>9, Zenon
  <2>2. AmountOf(SinceMove(c))' = AmountOf(S) + record.amount
    BY <1>6, <1>8, <2>1, Zenon
  <2>3. spent'[c] = spent[c] + record.amount
    BY <1>7, <1>9, Zenon
  <2> QED
    BY <1>7, <1>8, <2>2, <2>3
<1>10. CASE ~more
  <2>1. T = S
    BY <1>1, <1>4, <1>5, <1>10, Zenon
  <2>2. AmountOf(SinceMove(c))' = AmountOf(S)
    BY <1>6, <1>8, <2>1, Zenon
  <2>3. spent'[c] = spent[c]
    BY <1>7, <1>10, Zenon
  <2> QED
    BY <1>7, <2>2, <2>3, Zenon
<1> QED
  BY <1>9, <1>10, Zenon

LEMMA RetireStep ==
  ASSUME RetirementInv, NEW holder \in Addresses, NEW b \in BondIds, NEW project_id,
         NEW p \in Periods, NEW amount \in Retirements, NEW type \in CreditTypes,
         retire_credits(holder, b, project_id, p, amount, type)
  PROVE  /\ RetirementInv'
         /\ \A i \in RetirementIds : HasRecord(i) => Certificate(i)' = Certificate(i)
<1>1. /\ CouponInv' /\ amount \in Nat
      /\ UNCHANGED period_info /\ spent' = [spent EXCEPT ![b] = @ + amount]
      /\ RetiredAs(holder, b, p, amount)
  BY RetirementParts, Zenon
<1>2. PICK record :
        /\ RecordRetirement(record)
        /\ record.id = get_retirement_count + 1 /\ record.id \in RetirementIds
        /\ record.holder = holder /\ record.bond_id = b /\ record.amount = amount
        /\ record.period_index = p /\ record.report_id \in Reports
        /\ record.vintage_year = year_from_timestamp(ReportData[record.report_id].end_day)
        /\ period_info[b][p].distributed
        /\ period_info[b][p].report_id = record.report_id
  BY <1>1, Zenon DEF RetiredAs
<1>3. RecordsKept'
  BY <1>1, <1>2, RecordsAfter, Zenon
<1>4. SpentCovers'
  BY <1>1, <1>2, SpentAfter, Zenon
<1>5. \A h \in Addresses : TotalsTrue(h)' /\ IndexesTrue(h)'
  BY <1>1, <1>2, TotalsAfter, IndexesAfter, ZenonT(30)
<1>6. \A i \in RetirementIds : HasRecord(i) => Certificate(i)' = Certificate(i)
  BY <1>2, CertificatesAfter, Zenon
<1> QED
  BY <1>1, <1>3, <1>4, <1>5, <1>6, Zenon DEF RetirementInv

LEMMA RetirementInvStep ==
  ASSUME RetirementInv, [RetirementNext]_retirementAllVars
  PROVE  /\ RetirementInv'
         /\ \A i \in RetirementIds : HasRecord(i) => Certificate(i)' = Certificate(i)
<1>1. CouponInv
  BY Zenon DEF RetirementInv
<1>2. ASSUME UNCHANGED couponAllVars
      PROVE  CouponInv' /\ EngineForward
  <2>1. UNCHANGED <<couponVars, vars, report_status>> /\ UNCHANGED <<period_info, spent>>
    BY <1>2, Zenon DEF couponAllVars, couponVars, periodVars, creditVars
  <2>2. CouponInv'
    BY <1>1, <2>1, OutsideStep, Zenon
  <2>3. \A b \in BondIds : spent[b] \in Nat
    BY <1>1, Zenon DEF CouponInv, CouponTypeOK
  <2> QED
    BY <2>1, <2>2, <2>3 DEF EngineForward
<1>3. ASSUME NEW holder \in Addresses, NEW b \in BondIds, NEW project_id,
             NEW p \in Periods, NEW amount \in Retirements, NEW type \in CreditTypes,
             retire_credits(holder, b, project_id, p, amount, type)
      PROVE  /\ RetirementInv'
             /\ \A i \in RetirementIds : HasRecord(i) => Certificate(i)' = Certificate(i)
  BY <1>3, RetireStep, Zenon
<1>4. CASE total_retirements
  BY <1>2, <1>4, RewriteKeeps, AnswersKept, Zenon DEF total_retirements
<1>5. ASSUME NEW id \in RetirementIds, extend_retirement_ttl(id)
      PROVE  /\ RetirementInv'
             /\ \A i \in RetirementIds : HasRecord(i) => Certificate(i)' = Certificate(i)
  BY <1>2, <1>5, RewriteKeeps, AnswersKept, Zenon DEF extend_retirement_ttl
<1>6. CASE CouponStep /\ UNCHANGED persistent
  BY <1>1, <1>6, CouponStepKept, EngineSteps, RewriteKeeps, AnswersKept, Zenon
<1>7. CASE UNCHANGED retirementAllVars
  BY <1>2, <1>7, RewriteKeeps, AnswersKept, Zenon DEF retirementAllVars
<1> QED
  BY <1>3, <1>4, <1>5, <1>6, <1>7, Zenon DEF RetirementNext, RetirementCall

-----------------------------------------------------------------------------
(* Theorems *)

(* The contract was upgraded at some moment of the engine's life, whatever  *)
(* the engine had distributed by then.                                      *)
UpgradedAnytime == CouponInv /\ RetirementInit /\ [][RetirementNext]_retirementAllVars

LEMMA UpgradedEarly == RetirementSpec => UpgradedAnytime
  BY CouponInvInit, PTL DEF RetirementSpec, UpgradedAnytime

LEMMA RetirementInvHolds == UpgradedAnytime => []RetirementInv
<1>1. CouponInv /\ RetirementInit => RetirementInv
  BY RetirementInvInit, Zenon
<1>2. RetirementInv /\ [RetirementNext]_retirementAllVars => RetirementInv'
  BY RetirementInvStep, Zenon
<1> QED
  BY <1>1, <1>2, PTL DEF UpgradedAnytime

(* No credit is spent twice: what a call of retire_credits puts on a        *)
(* certificate was taken out of the coupon engine by deduct_credits in the  *)
(* same call, whatever claims, sweeps and batches come between.             *)
THEOREM NoCreditTwice == UpgradedAnytime => []NoDoubleSpend
<1>1. RetirementInv => NoDoubleSpend
  <2> SUFFICES ASSUME RetirementInv, NEW b \in BondIds
               PROVE  Total(Addresses, accrued[b]) + undistributed_total[b]
                        + AmountOf((UNION {CertificatesOf(h, {b}) : h \in Addresses}) \ LegacyIds)
                        <= Created(b)
    BY DEF NoDoubleSpend
  <2> DEFINE S == (UNION {CertificatesOf(h, {b}) : h \in Addresses}) \ LegacyIds
  <2>1. \A i \in RetirementIds : HasRecord(i) => /\ Certificate(i).holder \in Addresses
                                                 /\ Certificate(i).amount \in Nat
    BY Zenon DEF RetirementInv, RecordsKept, RecordOK, Certificate, get_retirement_certificate,
           certificate_from_record
  <2>2. S = SinceMove(b)
    <3>1. ASSUME NEW i
          PROVE  i \in S <=> i \notin LegacyIds /\ \E h \in Addresses : i \in CertificatesOf(h, {b})
      <4> DEFINE F == {CertificatesOf(h, {b}) : h \in Addresses}
      <4>1. \A X : X \in F <=> \E h \in Addresses : X = CertificatesOf(h, {b})
        OBVIOUS
      <4> HIDE DEF F
      <4>2. i \in UNION F <=> \E h \in Addresses : i \in CertificatesOf(h, {b})
        BY ONLY <4>1, Zenon
      <4> QED
        BY <4>2, Zenon DEF F
    <3>2. ASSUME NEW i
          PROVE  (\E h \in Addresses : i \in CertificatesOf(h, {b})) <=>
                   i \in RetirementIds /\ HasRecord(i) /\ Certificate(i).bond_id = b
      BY <2>1, Zenon DEF CertificatesOf
    <3>3. ASSUME NEW i
          PROVE  i \in SinceMove(b) <=> /\ i \in RetirementIds /\ i \notin LegacyIds
                                        /\ HasRecord(i) /\ Certificate(i).bond_id = b
      BY DEF SinceMove
    <3> HIDE DEF S
    <3> QED
      BY <3>1, <3>2, <3>3, Zenon
  <2>3. AmountOf(S) <= spent[b]
    BY <2>2, Zenon DEF RetirementInv, SpentCovers
  <2>4. AmountOf(S) \in Nat
    <3>1. S \subseteq RetirementIds /\ \A i \in S : Certificate(i).amount \in Nat
      BY <2>1, <2>2, Zenon DEF SinceMove
    <3>2. IsFiniteSet(S)
      BY <3>1, IdsFinite, Zenon
    <3> HIDE DEF S
    <3> QED
      BY <3>1, <3>2, TotalFinite, Zenon DEF AmountOf
  <2>5. /\ Total(Addresses, accrued[b]) + undistributed_total[b] + spent[b] = Created(b)
        /\ Total(Addresses, accrued[b]) \in Nat /\ undistributed_total[b] \in Nat
        /\ spent[b] \in Nat
    <3>1. /\ IsFiniteSet(UnitsOf(Addresses, accrued[b]))
          /\ Total(Addresses, accrued[b]) + undistributed_total[b] + spent[b] = Created(b)
          /\ undistributed_total[b] \in Nat /\ spent[b] \in Nat
      BY DEF RetirementInv, CouponInv, CreditsAddUp, CouponTypeOK
    <3>2. Total(Addresses, accrued[b]) \in Nat
      BY ONLY <3>1, FS_CardinalityType, Zenon DEF Total
    <3> QED
      BY <3>1, <3>2, Zenon
  <2> HIDE DEF S
  <2>6. Total(Addresses, accrued[b]) + undistributed_total[b] + AmountOf(S) <= Created(b)
    BY ONLY <2>3, <2>4, <2>5, SMTT(30)
  <2> QED
    BY <2>6, Zenon DEF S
<1> QED
  BY <1>1, RetirementInvHolds, PTL

(* The totals and indexes the contract keeps agree with the certificates,   *)
(* across the storage move: read's fallback to instance storage and the     *)
(* first write of an entry to persistent storage lose and double nothing.   *)
THEOREM AnswersAreTrue == UpgradedAnytime => []TotalsMatchRecords
<1>1. RetirementInv => TotalsMatchRecords
  <2> SUFFICES ASSUME RetirementInv, NEW h \in Addresses, NEW b \in BondIds
               PROVE  LET since == CertificatesOf(h, {b}) \ LegacyIds IN
                      /\ Elements(get_bond_certificates(b, h)) = {Certificate(i) : i \in since}
                      /\ Cardinality(DOMAIN get_bond_certificates(b, h)) = Cardinality(since)
    BY Zenon DEF RetirementInv, TotalsMatchRecords, IndexesTrue
  <2> DEFINE since == CertificatesOf(h, {b}) \ LegacyIds
             ids == get_bond_retirements(b, h)
             answer == get_bond_certificates(b, h)
  <2>1. ids \in Seq(RetirementIds) /\ Elements(ids) = since /\ Len(ids) = Cardinality(since)
    BY Zenon DEF RetirementInv, IndexesTrue
  <2>2. \A i \in since : HasRecord(i)
    BY Zenon DEF CertificatesOf
  <2>3. answer = [i \in {i \in DOMAIN ids : HasRecord(ids[i])} |-> Certificate(ids[i])]
    BY Zenon DEF get_bond_certificates, Certificate
  <2> HIDE DEF since, ids, answer
  <2>4. \A i \in DOMAIN ids : ids[i] \in since
    BY <2>1, Zenon DEF Elements
  <2>5. answer = [i \in DOMAIN ids |-> Certificate(ids[i])]
    BY <2>2, <2>3, <2>4, Zenon
  <2>6. Elements(answer) = {Certificate(i) : i \in since}
    <3>1. \A i \in since : \E j \in DOMAIN ids : ids[j] = i
      BY <2>1, Zenon DEF Elements
    <3> QED
      BY <2>4, <2>5, <3>1, Zenon DEF Elements
  <2>7. Cardinality(DOMAIN answer) = Cardinality(since)
    <3>1. DOMAIN answer = 1 .. Len(ids) /\ Len(ids) \in Nat
      BY <2>1, <2>5
    <3>2. 1 \in Int /\ Len(ids) \in Int
      BY <3>1
    <3>3. Cardinality(1 .. Len(ids)) = IF 1 > Len(ids) THEN 0 ELSE Len(ids) - 1 + 1
      BY ONLY <3>2, FS_Interval, Zenon
    <3> QED
      BY <2>1, <3>1, <3>3
  <2> QED
    BY <2>6, <2>7, Zenon DEF since, answer
<1> QED
  BY <1>1, RetirementInvHolds, PTL

(* No call overwrites or changes a certificate: a retirement is recorded    *)
(* under an id that no record has, in either storage.                       *)
THEOREM NeverRewritten == UpgradedAnytime => CertificatesImmutable
<1>1. RetirementInv /\ [RetirementNext]_retirementAllVars =>
        [\A i \in RetirementIds : HasRecord(i) => Certificate(i)' = Certificate(i)]_retirementAllVars
  BY RetirementInvStep, Zenon
<1> QED
  BY <1>1, RetirementInvHolds, PTL DEF UpgradedAnytime, CertificatesImmutable

(* The vintage on a certificate is the calendar year its report's window    *)
(* ended in, and the report of a certificate made since the move is         *)
(* verified and was paid out as the period the certificate names.           *)
THEOREM VintageIsTrue == UpgradedAnytime => []CertificateVintage
<1>1. RetirementInv => CertificateVintage
  <2> SUFFICES ASSUME RetirementInv, NEW i \in RetirementIds, HasRecord(i)
               PROVE  /\ InYear(ReportData[Certificate(i).report_id].end_day,
                                Certificate(i).vintage_year)
                      /\ i \notin LegacyIds =>
                           /\ get_period_info(Certificate(i).bond_id,
                                 Certificate(i).period_index).report_id = Certificate(i).report_id
                           /\ report_status[Certificate(i).report_id] = "Verified"
    BY DEF CertificateVintage
  <2> DEFINE r == get_retirement_record(i)
  <2>1. /\ Certificate(i).report_id = r.report_id /\ Certificate(i).vintage_year = r.vintage_year
        /\ Certificate(i).bond_id = r.bond_id /\ Certificate(i).period_index = r.period_index
    BY Zenon DEF Certificate, get_retirement_certificate, certificate_from_record
  <2>2. RecordOK(i) /\ (i \notin LegacyIds => OfPaidPeriod(i))
    BY DEF RetirementInv, RecordsKept
  <2>3. /\ r.report_id \in Reports /\ r.bond_id \in BondIds
        /\ r.vintage_year = year_from_timestamp(ReportData[r.report_id].end_day)
    BY <2>2, Zenon DEF RecordOK
  <2>4. i \notin LegacyIds => /\ r.period_index \in Periods
                             /\ period_info[r.bond_id][r.period_index].distributed
                             /\ period_info[r.bond_id][r.period_index].report_id = r.report_id
    BY <2>2, Zenon DEF OfPaidPeriod
  <2>5. CouponsOnVerified
    BY Zenon DEF RetirementInv, CouponInv
  <2> HIDE DEF r
  <2>6. InYear(ReportData[r.report_id].end_day, r.vintage_year)
    <3>1. ReportData[r.report_id].end_day \in Nat
      BY <2>3, RetirementAssumption, Zenon
    <3> QED
      BY <2>3, <3>1, YearIsCalendarYear, Zenon
  <2>7. i \notin LegacyIds =>
          /\ get_period_info(r.bond_id, r.period_index).report_id = r.report_id
          /\ report_status[r.report_id] = "Verified"
    BY <2>3, <2>4, <2>5 DEF CouponsOnVerified, get_period_info
  <2> QED
    BY <2>1, <2>6, <2>7, Zenon
<1> QED
  BY <1>1, RetirementInvHolds, PTL
=============================================================================
