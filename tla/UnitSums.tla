------------------------------ MODULE UnitSums ------------------------------
(***************************************************************************)
(* The sum of a function f from a set S to the naturals, as the number of   *)
(* its units: f[x] pairs <<x, 1>> .. <<x, f[x]>> for every x.  In this form *)
(* the effect of changing one value on the sum follows from facts about     *)
(* finite sets, with no induction.                                          *)
(***************************************************************************)
EXTENDS Integers, FiniteSets

UnitsOf(S, f) == UNION {{x} \X (1 .. f[x]) : x \in S}

Total(S, f) == Cardinality(UnitsOf(S, f))
=============================================================================
