---------------------------- MODULE MCWriteLease ----------------------------
(***************************************************************************)
(* Small instances of WriteLease for TLC.                                  *)
(***************************************************************************)
EXTENDS WriteLease
=============================================================================
