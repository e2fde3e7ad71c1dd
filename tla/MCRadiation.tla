----------------------------- MODULE MCRadiation -----------------------------
(***************************************************************************)
(* Radiation for TLC.                                                      *)
(***************************************************************************)
EXTENDS Radiation

MCDefined == Modules \X {1}
==============================================================================
