--------------------------- MODULE OperatorProofs ---------------------------
(* Facts about the operators other modules are built from: how the sum of a  *)
(* function changes when one of its values does (UnitSums), and that the     *)
(* year computed for a certificate is the calendar year, for every day       *)
(* (VintageYear).                                                            *)
EXTENDS UnitSums, VintageYear, FiniteSetTheorems, TLAPS

(* The order facts the accounts need. *)
LEMMA OrderFacts ==
  /\ \A a \in Nat : a >= a /\ a - 0 = a
  /\ \A a, b \in Nat : a < b => ~(a >= b)
  /\ \A a, b, c \in Nat : a <= b /\ b <= c => a <= c
  /\ \A a, b, c \in Nat : a >= b /\ c <= b => a >= c
  OBVIOUS

(* Where every value is zero the sum is zero. *)
LEMMA TotalZero ==
  ASSUME NEW S, NEW f, \A x \in S : f[x] = 0
  PROVE  /\ IsFiniteSet(UnitsOf(S, f))
         /\ Total(S, f) = 0
<1>1. UnitsOf(S, f) = {}
  BY DEF UnitsOf
<1> QED
  BY <1>1, FS_EmptySet DEF Total

(* If g is f with one value raised by k, it has k units that f has not.     *)
LEMMA UnitsRaised ==
  ASSUME NEW S, NEW f \in [S -> Nat], NEW g \in [S -> Nat], NEW x \in S, NEW k \in Nat,
         g[x] = f[x] + k, \A y \in S \ {x} : g[y] = f[y]
  PROVE  /\ UnitsOf(S, g) = UnitsOf(S, f) \cup ({x} \X (f[x] + 1 .. f[x] + k))
         /\ UnitsOf(S, f) \cap ({x} \X (f[x] + 1 .. f[x] + k)) = {}
<1> DEFINE fresh == {x} \X (f[x] + 1 .. f[x] + k)
<1>1. \A i : i \in 1 .. g[x] <=> i \in 1 .. f[x] \/ i \in f[x] + 1 .. f[x] + k
  OBVIOUS
<1>2. UnitsOf(S, f) \cap fresh = {}
  <2>1. SUFFICES ASSUME NEW u \in UnitsOf(S, f), u \in fresh
                 PROVE  FALSE
    OBVIOUS
  <2>2. PICK y \in S : u \in {y} \X (1 .. f[y])
    BY DEF UnitsOf
  <2>3. y = x /\ u[2] \in 1 .. f[x] /\ u[2] \in f[x] + 1 .. f[x] + k
    BY <2>1, <2>2
  <2> QED
    BY <2>3
<1>3. UnitsOf(S, g) \subseteq UnitsOf(S, f) \cup fresh
  <2>1. SUFFICES ASSUME NEW u \in UnitsOf(S, g)
                 PROVE  u \in UnitsOf(S, f) \cup fresh
    OBVIOUS
  <2>2. PICK y \in S : u \in {y} \X (1 .. g[y])
    BY DEF UnitsOf
  <2>3. CASE y = x
    BY <1>1, <2>2, <2>3 DEF UnitsOf
  <2>4. CASE y # x
    BY <2>2, <2>4 DEF UnitsOf
  <2> QED
    BY <2>3, <2>4
<1>4. UnitsOf(S, f) \subseteq UnitsOf(S, g)
  <2>1. \A y \in S : {y} \X (1 .. f[y]) \subseteq {y} \X (1 .. g[y])
    OBVIOUS
  <2> QED
    BY <2>1 DEF UnitsOf
<1>5. fresh \subseteq UnitsOf(S, g)
  <2>1. fresh \subseteq {x} \X (1 .. g[x])
    OBVIOUS
  <2> QED
    BY <2>1 DEF UnitsOf
<1> QED
  BY <1>2, <1>3, <1>4, <1>5

(* Raising one value by k raises the sum by k.                              *)
LEMMA TotalRaised ==
  ASSUME NEW S, NEW f \in [S -> Nat], NEW g \in [S -> Nat], NEW x \in S, NEW k \in Nat,
         g[x] = f[x] + k, \A y \in S \ {x} : g[y] = f[y],
         IsFiniteSet(UnitsOf(S, f))
  PROVE  /\ IsFiniteSet(UnitsOf(S, g))
         /\ Total(S, g) = Total(S, f) + k
<1> DEFINE fresh == {x} \X (f[x] + 1 .. f[x] + k)
<1>1. UnitsOf(S, g) = UnitsOf(S, f) \cup fresh /\ UnitsOf(S, f) \cap fresh = {}
  BY UnitsRaised
<1>2. IsFiniteSet(fresh) /\ Cardinality(fresh) = k
  <2>0. PICK lo \in Int, hi \in Int : lo = f[x] + 1 /\ hi = f[x] + k
    OBVIOUS
  <2> DEFINE T == lo .. hi
  <2>1. IsFiniteSet({x}) /\ Cardinality({x}) = 1
    BY FS_Singleton
  <2>2. IsFiniteSet(T) /\ Cardinality(T) = k
    <3>1. IsFiniteSet(lo .. hi) /\ Cardinality(lo .. hi) = IF lo > hi THEN 0 ELSE hi - lo + 1
      BY FS_Interval, Zenon
    <3>2. (IF lo > hi THEN 0 ELSE hi - lo + 1) = k
      BY <2>0
    <3> QED
      BY <3>1, <3>2, Zenon
  <2> HIDE DEF T
  <2>3. IsFiniteSet({x} \X T) /\ Cardinality({x} \X T) = Cardinality({x}) * Cardinality(T)
    BY <2>1, <2>2, FS_Product
  <2>4. Cardinality({x} \X T) = k
    BY <2>1, <2>2, <2>3
  <2> QED
    BY <2>0, <2>3, <2>4 DEF T
<1> HIDE DEF fresh
<1>3. /\ IsFiniteSet(UnitsOf(S, f) \cup fresh)
      /\ Cardinality(UnitsOf(S, f) \cup fresh)
           = Cardinality(UnitsOf(S, f)) + Cardinality(fresh)
             - Cardinality(UnitsOf(S, f) \cap fresh)
  BY <1>2, FS_Union
<1>4. Cardinality(UnitsOf(S, f)) \in Nat /\ Cardinality({}) = 0
  BY FS_CardinalityType, FS_EmptySet
<1>5. Cardinality(UnitsOf(S, g)) = Cardinality(UnitsOf(S, f)) + k
  <2>1. Cardinality(UnitsOf(S, g)) = Cardinality(UnitsOf(S, f) \cup fresh)
    BY <1>1
  <2>2. Cardinality(UnitsOf(S, f) \cap fresh) = 0
    BY <1>1, <1>4
  <2> QED
    BY <1>2, <1>3, <1>4, <2>1, <2>2
<1> QED
  BY <1>1, <1>3, <1>5 DEF Total

(* Lowering one value by k lowers the sum by k.                             *)
LEMMA TotalLowered ==
  ASSUME NEW S, NEW f \in [S -> Nat], NEW g \in [S -> Nat], NEW x \in S, NEW k \in Nat,
         f[x] = g[x] + k, \A y \in S \ {x} : g[y] = f[y],
         IsFiniteSet(UnitsOf(S, f))
  PROVE  /\ IsFiniteSet(UnitsOf(S, g))
         /\ Total(S, g) \in Nat
         /\ Total(S, g) = Total(S, f) - k
<1>1. UnitsOf(S, g) \subseteq UnitsOf(S, f)
  BY UnitsRaised
<1>2. IsFiniteSet(UnitsOf(S, g))
  BY <1>1, FS_Subset
<1>3. Total(S, f) = Total(S, g) + k
  BY <1>2, TotalRaised
<1>4. Total(S, g) \in Nat
  BY <1>2, FS_CardinalityType DEF Total
<1> QED
  BY <1>2, <1>3, <1>4

(* A change of one value changes the sum alike.                             *)
LEMMA TotalChanged ==
  ASSUME NEW S, NEW f \in [S -> Nat], NEW g \in [S -> Nat], NEW x \in S,
         \A y \in S \ {x} : g[y] = f[y], IsFiniteSet(UnitsOf(S, f))
  PROVE  /\ IsFiniteSet(UnitsOf(S, g))
         /\ Total(S, f) \in Nat /\ Total(S, g) \in Nat
         /\ Total(S, g) + f[x] = Total(S, f) + g[x]
<1>1. f[x] \in Nat /\ g[x] \in Nat
  OBVIOUS
<1>2. Total(S, f) \in Nat
  BY FS_CardinalityType DEF Total
<1>3. CASE f[x] <= g[x]
  <2>1. PICK k \in Nat : g[x] = f[x] + k
    <3>1. g[x] - f[x] \in Nat /\ g[x] = f[x] + (g[x] - f[x])
      BY <1>1, <1>3
    <3> QED
      BY <3>1
  <2>2. IsFiniteSet(UnitsOf(S, g)) /\ Total(S, g) = Total(S, f) + k
    BY <2>1, TotalRaised
  <2> QED
    BY <1>1, <1>2, <2>1, <2>2
<1>4. CASE g[x] <= f[x]
  <2>1. PICK k \in Nat : f[x] = g[x] + k
    <3>1. f[x] - g[x] \in Nat /\ f[x] = g[x] + (f[x] - g[x])
      BY <1>1, <1>4
    <3> QED
      BY <3>1
  <2>2. IsFiniteSet(UnitsOf(S, g)) /\ Total(S, g) \in Nat /\ Total(S, g) = Total(S, f) - k
    BY <2>1, TotalLowered
  <2> QED
    BY <1>1, <1>2, <2>1, <2>2
<1> QED
  BY <1>1, <1>3, <1>4

(* Moving k from one value to another leaves the sum as it was: it passes   *)
(* through the function h in between.                                       *)
LEMMA TotalMoved ==
  ASSUME NEW S, NEW f \in [S -> Nat], NEW g \in [S -> Nat], NEW x \in S, NEW y \in S \ {x},
         NEW k \in Nat, f[x] = g[x] + k, g[y] = f[y] + k,
         \A z \in S \ {x, y} : g[z] = f[z],
         IsFiniteSet(UnitsOf(S, f))
  PROVE  /\ IsFiniteSet(UnitsOf(S, g))
         /\ Total(S, g) = Total(S, f)
<1> DEFINE h == [f EXCEPT ![x] = g[x]]
<1>1. /\ h \in [S -> Nat] /\ f[x] = h[x] + k
      /\ \A z \in S \ {x} : h[z] = f[z]
  OBVIOUS
<1>2. g[y] = h[y] + k /\ \A z \in S \ {y} : g[z] = h[z]
  OBVIOUS
<1> HIDE DEF h
<1>3. IsFiniteSet(UnitsOf(S, h)) /\ Total(S, h) \in Nat /\ Total(S, h) = Total(S, f) - k
  BY ONLY <1>1, TotalLowered, IsFiniteSet(UnitsOf(S, f)), f \in [S -> Nat], x \in S, k \in Nat
<1>4. IsFiniteSet(UnitsOf(S, g)) /\ Total(S, g) = Total(S, h) + k
  BY ONLY <1>1, <1>2, <1>3, TotalRaised, g \in [S -> Nat], y \in S, k \in Nat
<1>5. Total(S, f) \in Nat
  BY FS_CardinalityType DEF Total
<1> QED
  BY <1>3, <1>4, <1>5

(* A function with fewer units has a smaller sum.                           *)
LEMMA TotalSmaller ==
  ASSUME NEW S, NEW f, NEW g, UnitsOf(S, f) \subseteq UnitsOf(S, g),
         IsFiniteSet(UnitsOf(S, g))
  PROVE  /\ Total(S, f) \in Nat
         /\ Total(S, f) <= Total(S, g)
  BY FS_Subset, FS_CardinalityType DEF Total

-----------------------------------------------------------------------------
(* Induction over a finite set: a family that holds {} and, with a subset   *)
(* of S, the subset and one more element, holds S.  (A least subset outside *)
(* the family would have an element to remove.)                             *)
LEMMA BuildUp ==
  ASSUME NEW S, IsFiniteSet(S), NEW F, {} \in F,
         \A T \in SUBSET S : \A x \in S \ T : T \in F => T \cup {x} \in F
  PROVE  S \in F
<1> DEFINE R == StrictSubsetOrdering(S)
           Out == (SUBSET S) \ F
<1>1. IsWellFoundedOn(R, SUBSET S)
  BY FS_StrictSubsetOrderingWellFounded, FS_FiniteSubsetsOfFinite
<1>2. SUFFICES ASSUME Out # {}
               PROVE  FALSE
  OBVIOUS
<1>3. PICK U \in Out : \A V \in Out : ~(<<V, U>> \in R)
  <2> HIDE DEF R
  <2> QED
    BY <1>1, <1>2, WFMin
<1>4. PICK x \in U : TRUE
  BY <1>3
<1> DEFINE V == U \ {x}
<1>5. V \in SUBSET S /\ x \in S \ V /\ V \cup {x} = U
  BY <1>3, <1>4
<1>6. <<V, U>> \in R
  BY <1>3, <1>4, <1>5 DEF StrictSubsetOrdering
<1>7. V \notin Out
  BY <1>3, <1>6
<1> QED
  BY <1>3, <1>5, <1>7

(* Over a finite set every sum is finite.                                   *)
LEMMA TotalFinite ==
  ASSUME NEW S, IsFiniteSet(S), NEW f, \A x \in S : f[x] \in Nat
  PROVE  IsFiniteSet(UnitsOf(S, f)) /\ Total(S, f) \in Nat
<1> DEFINE F == {T \in SUBSET S : IsFiniteSet(UnitsOf(T, f))}
<1>1. {} \in F
  BY TotalZero
<1>2. ASSUME NEW T \in SUBSET S, NEW x \in S \ T, T \in F
      PROVE  T \cup {x} \in F
  <2> DEFINE A == UnitsOf(T, f)
             B == {x} \X (1 .. f[x])
  <2>1. UnitsOf(T \cup {x}, f) = A \cup B
    BY Zenon DEF UnitsOf
  <2>2. IsFiniteSet(B)
    <3>1. f[x] \in Int /\ 1 \in Int
      OBVIOUS
    <3>2. IsFiniteSet({x}) /\ IsFiniteSet(1 .. f[x])
      BY ONLY <3>1, FS_Singleton, FS_Interval
    <3> QED
      BY <3>2, FS_Product
  <2>3. IsFiniteSet(A)
    BY <1>2
  <2> HIDE DEF A, B
  <2>4. IsFiniteSet(UnitsOf(T \cup {x}, f))
    BY ONLY <2>1, <2>2, <2>3, FS_Union
  <2> QED
    BY <2>4
<1> HIDE DEF F
<1>3. S \in F
  BY <1>1, <1>2, BuildUp
<1>4. IsFiniteSet(UnitsOf(S, f))
  BY <1>3 DEF F
<1> QED
  BY <1>4, FS_CardinalityType DEF Total

(* One more element adds its value.                                         *)
LEMMA TotalGrown ==
  ASSUME NEW S, IsFiniteSet(S), NEW x, x \notin S, NEW f, f[x] \in Nat,
         \A y \in S : f[y] \in Nat
  PROVE  /\ Total(S \cup {x}, f) = Total(S, f) + f[x]
         /\ Total(S, f) \in Nat
<1> DEFINE A == UnitsOf(S, f)
           B == {x} \X (1 .. f[x])
<1>1. UnitsOf(S \cup {x}, f) = A \cup B
  BY Zenon DEF UnitsOf
<1>2. A \cap B = {}
  BY DEF UnitsOf
<1>3. IsFiniteSet(A) /\ Cardinality(A) \in Nat
  BY TotalFinite DEF Total
<1>4. IsFiniteSet(B) /\ Cardinality(B) = f[x]
  <2>1. IsFiniteSet({x}) /\ Cardinality({x}) = 1
    BY FS_Singleton
  <2>2. IsFiniteSet(1 .. f[x]) /\ Cardinality(1 .. f[x]) = f[x]
    BY FS_Interval
  <2>3. IsFiniteSet(B) /\ Cardinality(B) = Cardinality({x}) * Cardinality(1 .. f[x])
    BY <2>1, <2>2, FS_Product
  <2> QED
    BY <2>1, <2>2, <2>3
<1> HIDE DEF A, B
<1>5. Cardinality(A \cup B) = Cardinality(A) + Cardinality(B) - Cardinality(A \cap B)
  BY <1>3, <1>4, FS_Union
<1>6. Cardinality(A \cap B) = 0
  BY <1>2, FS_EmptySet
<1>7. Cardinality(A \cup B) = Cardinality(A) + f[x]
  BY <1>3, <1>4, <1>5, <1>6
<1> QED
  BY <1>1, <1>3, <1>7 DEF Total, A

(* The sum over one or two elements.                                        *)
LEMMA TotalOne ==
  ASSUME NEW x, NEW f, f[x] \in Nat
  PROVE  Total({x}, f) = f[x]
<1>1. IsFiniteSet({}) /\ x \notin {} /\ {} \cup {x} = {x} /\ \A y \in {} : f[y] \in Nat
  BY FS_EmptySet
<1>2. Total({}, f) = 0
  BY TotalZero
<1>3. Total({} \cup {x}, f) = Total({}, f) + f[x]
  BY <1>1, TotalGrown
<1> QED
  BY <1>1, <1>2, <1>3

LEMMA TotalTwo ==
  ASSUME NEW x, NEW y, x # y, NEW f, f[x] \in Nat, f[y] \in Nat
  PROVE  Total({x, y}, f) = f[x] + f[y]
<1>1. IsFiniteSet({x}) /\ y \notin {x} /\ {x} \cup {y} = {x, y} /\ \A z \in {x} : f[z] \in Nat
  BY FS_Singleton
<1>2. Total({x} \cup {y}, f) = Total({x}, f) + f[y]
  BY <1>1, TotalGrown
<1> QED
  BY <1>1, <1>2, TotalOne

(* Amounts c that are each added to one of the values of f raise the sum    *)
(* of f by theirs.                                                          *)
LEMMA TotalSpread ==
  ASSUME NEW P, IsFiniteSet(P), NEW A, NEW f \in [A -> Nat], IsFiniteSet(UnitsOf(A, f)),
         NEW key \in [P -> A], NEW c \in [P -> Nat],
         NEW g, g = [h \in A |-> f[h] + Total({i \in P : key[i] = h}, c)]
  PROVE  /\ g \in [A -> Nat] /\ IsFiniteSet(UnitsOf(A, g))
         /\ Total(A, g) = Total(A, f) + Total(P, c)
<1> DEFINE For(T, h) == {i \in T : key[i] = h}
           G(T) == [h \in A |-> f[h] + Total(For(T, h), c)]
           F == {T \in SUBSET P : /\ G(T) \in [A -> Nat] /\ IsFiniteSet(UnitsOf(A, G(T)))
                                  /\ Total(A, G(T)) = Total(A, f) + Total(T, c)}
<1>0. Total(A, f) \in Nat
  BY FS_CardinalityType DEF Total
<1>1. {} \in F
  <2>1. \A h \in A : Total(For({}, h), c) = 0
    BY TotalZero
  <2>2. G({}) = f
    BY <2>1
  <2>3. Total({}, c) = 0
    BY TotalZero
  <2> HIDE DEF G
  <2> QED
    BY <1>0, <2>2, <2>3
<1>2. ASSUME NEW T \in SUBSET P, NEW x \in P \ T, T \in F
      PROVE  T \cup {x} \in F
  <2> DEFINE U == T \cup {x}
  <2>1. IsFiniteSet(T) /\ \A h \in A : IsFiniteSet(For(T, h))
    BY FS_Subset
  <2>2. \A i \in P : c[i] \in Nat
    OBVIOUS
  <2>3. Total(U, c) = Total(T, c) + c[x] /\ Total(T, c) \in Nat
    BY <2>1, <2>2, TotalGrown
  <2>4. Total(For(U, key[x]), c) = Total(For(T, key[x]), c) + c[x]
    <3>1. For(U, key[x]) = For(T, key[x]) \cup {x} /\ x \notin For(T, key[x])
      OBVIOUS
    <3>2. IsFiniteSet(For(T, key[x])) /\ \A i \in For(T, key[x]) : c[i] \in Nat
      BY <2>1
    <3> HIDE DEF For
    <3>3. c[x] \in Nat
      OBVIOUS
    <3> QED
      BY ONLY <3>1, <3>2, <3>3, TotalGrown
  <2>5. \A h \in A \ {key[x]} : For(U, h) = For(T, h)
    OBVIOUS
  <2> HIDE DEF For
  <2>6. /\ G(T) \in [A -> Nat] /\ IsFiniteSet(UnitsOf(A, G(T)))
        /\ Total(A, G(T)) = Total(A, f) + Total(T, c)
    BY <1>2
  <2>7. G(T)[key[x]] \in Nat /\ f[key[x]] \in Nat /\ Total(For(T, key[x]), c) \in Nat
    <3>1. IsFiniteSet(For(T, key[x])) /\ \A i \in For(T, key[x]) : c[i] \in Nat
      BY <2>1 DEF For
    <3>2. Total(For(T, key[x]), c) \in Nat
      BY ONLY <3>1, TotalFinite
    <3> QED
      BY <3>2
  <2>8. /\ G(U) = [h \in A |-> G(U)[h]] /\ key[x] \in A /\ c[x] \in Nat
        /\ \A h \in A : /\ G(T)[h] = f[h] + Total(For(T, h), c)
                        /\ G(U)[h] = f[h] + Total(For(U, h), c)
    OBVIOUS
  <2> HIDE DEF G, U
  <2>9. /\ G(U)[key[x]] = G(T)[key[x]] + c[x]
        /\ \A h \in A \ {key[x]} : G(U)[h] = G(T)[h]
    BY ONLY <2>4, <2>5, <2>7, <2>8
  <2>10. G(U) \in [A -> Nat]
    <3>1. \A h \in A : G(U)[h] \in Nat
      BY ONLY <2>6, <2>7, <2>8, <2>9
    <3> QED
      BY ONLY <2>8, <3>1
  <2>11. IsFiniteSet(UnitsOf(A, G(U))) /\ Total(A, G(U)) = Total(A, G(T)) + c[x]
    BY ONLY <2>6, <2>8, <2>9, <2>10, TotalRaised
  <2>12. Total(A, G(U)) = Total(A, f) + Total(U, c)
    BY ONLY <1>0, <2>3, <2>6, <2>8, <2>11
  <2>13. U \in SUBSET P
    BY DEF U
  <2> QED
    BY <2>10, <2>11, <2>12, <2>13 DEF U
<1> HIDE DEF F
<1>3. P \in F
  BY <1>1, <1>2, BuildUp
<1>4. G(P) = g
  OBVIOUS
<1> HIDE DEF G
<1> QED
  BY <1>3, <1>4 DEF F

(* Where every value of f, k times, is at most m times that of g, so are    *)
(* their sums.                                                              *)
LEMMA TotalWeighed ==
  ASSUME NEW S, IsFiniteSet(S), NEW f \in [S -> Nat], NEW g \in [S -> Nat],
         NEW k \in Nat, NEW m \in Nat, \A x \in S : f[x] * k <= m * g[x]
  PROVE  Total(S, f) * k <= m * Total(S, g)
<1> DEFINE F == {T \in SUBSET S : Total(T, f) * k <= m * Total(T, g)}
<1>1. {} \in F
  <2>1. Total({}, f) = 0 /\ Total({}, g) = 0
    BY TotalZero
  <2> QED
    BY <2>1
<1>2. ASSUME NEW T \in SUBSET S, NEW x \in S \ T, T \in F
      PROVE  T \cup {x} \in F
  <2>1. IsFiniteSet(T)
    BY FS_Subset
  <2>2. \A y \in T : f[y] \in Nat /\ g[y] \in Nat
    OBVIOUS
  <2>3. f[x] \in Nat /\ g[x] \in Nat /\ f[x] * k <= m * g[x] /\ x \notin T
    OBVIOUS
  <2>4. /\ Total(T \cup {x}, f) = Total(T, f) + f[x] /\ Total(T, f) \in Nat
        /\ Total(T \cup {x}, g) = Total(T, g) + g[x] /\ Total(T, g) \in Nat
    BY ONLY <2>1, <2>2, <2>3, TotalGrown
  <2>5. Total(T, f) * k <= m * Total(T, g)
    BY <1>2
  <2>6. (Total(T, f) + f[x]) * k <= m * (Total(T, g) + g[x])
    BY ONLY <2>3, <2>4, <2>5, k \in Nat, m \in Nat
  <2> QED
    BY <2>4, <2>6
<1> HIDE DEF F
<1>3. S \in F
  BY <1>1, <1>2, BuildUp
<1> QED
  BY <1>3 DEF F

-----------------------------------------------------------------------------
(* Within an era the year and the day of the year are in range, and the day *)
(* lies before the next March 1st.                                          *)
LEMMA EraYear ==
  ASSUME NEW d \in Int, 0 <= d, d <= 146096
  PROVE  /\ YearOfEra(d) \in Int
         /\ 0 <= YearOfEra(d) /\ YearOfEra(d) <= 399
         /\ DayOfYear(d) \in Int
         /\ 0 <= DayOfYear(d)
         /\ d < 365 * (YearOfEra(d) + 1) + Leaps(YearOfEra(d) + 1)
  <1>1. YearOfEra(d) \in Int
    BY DEF YearOfEra
  <1>2. 0 <= YearOfEra(d) /\ YearOfEra(d) <= 399
    BY SMTT(60) DEF YearOfEra
  <1>3. 0 <= DayOfYear(d)
    BY SMTT(60) DEF YearOfEra, DayOfYear
  <1>4. d < 365 * (YearOfEra(d) + 1) + Leaps(YearOfEra(d) + 1)
    BY SMTT(60) DEF YearOfEra, Leaps
  <1>5. DayOfYear(d) \in Int
    BY <1>1 DEF DayOfYear
  <1> QED
    BY <1>1, <1>2, <1>3, <1>4, <1>5

(* January and February are the days from the 306th after March 1st on. *)
LEMMA MonthSplit ==
  ASSUME NEW d \in Int, 0 <= d, d <= 146096
  PROVE  Month(d) <= 2 <=> DayOfYear(d) >= 306
  <1>1. DayOfYear(d) \in Int /\ 0 <= DayOfYear(d)
    BY EraYear
  <1>2. DayOfYear(d) <= 365
    BY SMTT(60) DEF YearOfEra, DayOfYear
  <1> QED
    BY <1>1, <1>2, SMTT(60) DEF Month

(* year_from_timestamp returns the Gregorian year of every day: on New      *)
(* Year's Eve, on leap days and in century years too, without a bound on    *)
(* the day.                                                                 *)
THEOREM YearIsCalendarYear ==
  ASSUME NEW day \in Nat
  PROVE  InYear(day, year_from_timestamp(day))
  <1> DEFINE shifted == day + 719468
             era == shifted \div 146097
             doe == shifted % 146097
             y == YearOfEra(doe)
  <1>1. /\ era \in Int /\ doe \in Int /\ 0 <= doe /\ doe <= 146096
        /\ shifted = 146097 * era + doe
    BY SMT
  <1>2. /\ y \in Int /\ 0 <= y /\ y <= 399 /\ DayOfYear(doe) \in Int
        /\ 0 <= DayOfYear(doe) /\ doe < 365 * (y + 1) + Leaps(y + 1)
        /\ DayOfYear(doe) = doe - (365 * y + y \div 4 - y \div 100)
    BY <1>1, EraYear DEF DayOfYear
  <1>3. Month(doe) <= 2 <=> DayOfYear(doe) >= 306
    BY <1>1, MonthSplit
  <1>4. year_from_timestamp(day) =
          IF DayOfYear(doe) >= 306 THEN y + era * 400 + 1 ELSE y + era * 400
    BY <1>3 DEF year_from_timestamp
  <1> HIDE DEF era, doe, y
  <1>5. CASE DayOfYear(doe) >= 306
    BY <1>1, <1>2, <1>4, <1>5, SMTT(60) DEF InYear, JanuaryFirst, Leaps
  <1>6. CASE ~(DayOfYear(doe) >= 306)
    BY <1>1, <1>2, <1>4, <1>6, SMTT(60) DEF InYear, JanuaryFirst, Leaps
  <1> QED
    BY <1>5, <1>6
=============================================================================
