----------------------------- MODULE MCResolver -----------------------------
(* Model-checking instance of Resolver.                                     *)
EXTENDS Resolver, TLC

CONSTANTS i1, i2

\* Two TCP sockets.
PairInodes == {i1, i2}
PairTableOf == (i1 :> "tcp4") @@ (i2 :> "tcp4")

\* A connection to another host.
OneEnd == {<<"a", "b">>}
OneFamily == [e \in OneEnd |-> "v4"]

Symmetry == Permutations(Pids) \cup Permutations(Inodes)

=============================================================================
