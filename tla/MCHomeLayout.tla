------------------------------ MODULE MCHomeLayout ------------------------------
(***************************************************************************)
(* HomeLayout with two pages.                                              *)
(***************************************************************************)
EXTENDS HomeLayout, TLC
================================================================================
