------------------------ MODULE MCUserTokenRefresher ------------------------
(***************************************************************************)
(* Three calls for one credential in one process: one that refreshes, one  *)
(* that waits for its mutex, and one that comes when the other is served.  *)
(* Nothing relates the credentials but the file, which FileTokenStore      *)
(* models, so one of them is enough here; the theorems are about any       *)
(* number.                                                                 *)
(***************************************************************************)
EXTENDS UserTokenRefresher
=============================================================================
