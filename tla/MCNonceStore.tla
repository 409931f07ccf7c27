--------------------------- MODULE MCNonceStore ---------------------------
(***************************************************************************)
(* An instance of NonceStore for TLC: two requests, and a clock that runs  *)
(* long enough for a timestamp to be ahead, good, stale and forgotten.     *)
(***************************************************************************)
EXTENDS NonceStore, TLC

CONSTANTS n1, n2

=============================================================================
