---------------------------- MODULE MCController ----------------------------
(* Model-checking instance of Controller.                                   *)
EXTENDS Controller, TLC

\* Processes are interchangeable when none of them is in RateNamed.
PidSymmetry == Permutations(Pids)

=============================================================================
