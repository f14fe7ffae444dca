-------------------------- MODULE MCCaptureSession --------------------------
(* Model-checking instance of CaptureSession.                               *)
EXTENDS CaptureSession, TLC

\* The filters are interchangeable.
FilterSymmetry == Permutations(Filters)

=============================================================================
