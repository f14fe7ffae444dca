-------------------------- MODULE MCSessionFiles --------------------------
(***************************************************************************)
(* Instances of SessionFiles for TLC.                                      *)
(***************************************************************************)
EXTENDS SessionFiles

=============================================================================
