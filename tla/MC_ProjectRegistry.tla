------------------------- MODULE MC_ProjectRegistry -------------------------
(* Two accounts, the first of them admin, and an oracle consumer contract.    *)
EXTENDS ProjectRegistry

CONSTANTS alice, bob, oracle, h0, h1, h2

MCAddresses == {alice, bob, oracle}
MCCandidates == {alice, bob}
MCHashes == {h0, h1, h2}
=============================================================================
