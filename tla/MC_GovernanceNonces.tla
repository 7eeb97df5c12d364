------------------------ MODULE MC_GovernanceNonces ------------------------
(* A signer and the contract itself, each with or without a legacy nonce.    *)
EXTENDS GovernanceNonces

CONSTANTS signer, gov

MCAccounts == {signer, gov}
MCLegacyNonces == {-1, 1}
=============================================================================
