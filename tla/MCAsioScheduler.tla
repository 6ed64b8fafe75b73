--------------------------- MODULE MCAsioScheduler ---------------------------
(***************************************************************************)
(* A small instance of AsioScheduler for TLC, given by MCAsioScheduler.cfg.*)
(***************************************************************************)
EXTENDS AsioScheduler
=============================================================================
