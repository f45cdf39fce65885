----------------------------- MODULE MCImageUpdates -----------------------------
(***************************************************************************)
(* ImageUpdates with few calls.                                            *)
(***************************************************************************)
EXTENDS ImageUpdates, TLC
================================================================================
