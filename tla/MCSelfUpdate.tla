------------------------------ MODULE MCSelfUpdate ------------------------------
(***************************************************************************)
(* SelfUpdate with three commits of two releases.                          *)
(***************************************************************************)
EXTENDS SelfUpdate, TLC

MCVersionOf == 1 :> 1 @@ 2 :> 1 @@ 3 :> 2
================================================================================
