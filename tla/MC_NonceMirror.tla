--------------------------- MODULE MC_NonceMirror ---------------------------
(* Two requests for the nonce of one account, which may have used the        *)
(* contract before.                                                          *)
EXTENDS NonceMirror

CONSTANTS r1, r2

MCRequests == {r1, r2}
=============================================================================
