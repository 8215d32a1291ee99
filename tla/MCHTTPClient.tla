---------------------------- MODULE MCHTTPClient ----------------------------
(***************************************************************************)
(* Two calls sharing the token cache, over a clock long enough for a token *)
(* to be minted, stored late, overwritten by an older one and to expire.   *)
(* Symmetry is for the runs without liveness only.                         *)
(***************************************************************************)
EXTENDS HTTPClient, TLC

CallSymmetry == Permutations(Calls)
=============================================================================
