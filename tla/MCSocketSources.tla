-------------------------- MODULE MCSocketSources --------------------------
(***************************************************************************)
(* Instances of SocketSources for TLC: one socket in a table of each       *)
(* family, besides those in TIME_WAIT, and sizes scaled down to units of   *)
(* half an alignment.                                                      *)
(***************************************************************************)
EXTENDS SocketSources

PairInodes == {1, 2}
PairTableOf == [i \in PairInodes |-> IF i = 1 THEN "tcp" ELSE "udp6"]

=============================================================================
