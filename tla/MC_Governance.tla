--------------------------- MODULE MC_Governance ---------------------------
(* Three signers of which two must agree, one outsider, two proposals.       *)
EXTENDS Governance, TLC

CONSTANTS s1, s2, s3, outsider, gov, registry

MCSigners == {s1, s2, s3}
MCCallers == MCSigners \cup {outsider}
Approve == [contract |-> registry, function |-> "approve_project"]
MCCalls ==
  {Approve, [contract |-> gov, function |-> "set_allowed_calls"],
   [contract |-> gov, function |-> "cancel"]}
Payload(caller, calls, nonce) == [caller |-> caller, calls |-> calls, nonce |-> nonce]
MCPayloads == {Payload(gov, <<>>, 0), Payload(outsider, <<Approve, Approve, Approve>>, 0)}
MCInitialAllowedCalls == {Approve}
SignerSymmetry == Permutations(MCSigners)
=============================================================================
