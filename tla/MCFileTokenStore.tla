-------------------------- MODULE MCFileTokenStore --------------------------
(***************************************************************************)
(* Two threads on one instance, the setting FileTokenStore is written for, *)
(* and two instances in processes of their own sharing the file.           *)
(***************************************************************************)
EXTENDS FileTokenStore, TLC

CONSTANTS i1, i2, t1, t2

OneInstance  == [t \in {t1, t2} |-> i1]
TwoInstances == (t1 :> i1) @@ (t2 :> i2)
=============================================================================
