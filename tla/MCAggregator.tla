---------------------------- MODULE MCAggregator ----------------------------
(* Model-checking instance of Aggregator.                                   *)
EXTENDS Aggregator, TLC

\* The threads are interchangeable, and so are the other hosts.
Symmetry == Permutations(Keys) \cup Permutations(Remote)

=============================================================================
