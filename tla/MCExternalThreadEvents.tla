----------------------- MODULE MCExternalThreadEvents -----------------------
(***************************************************************************)
(* Small instances of ExternalThreadEvents for TLC.                        *)
(***************************************************************************)
EXTENDS ExternalThreadEvents, TLC

\* Events are interchangeable.
Symmetry == Permutations(Events)
=============================================================================
