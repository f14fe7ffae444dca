------------------------------ MODULE Session ------------------------------
(***************************************************************************)
(* The life of capture threads as the user may rely on it: at most one of  *)
(* them captures, a thread that was dismissed never captures again and     *)
(* ends, and nothing is started once the window is closed.                 *)
(*                                                                         *)
(* CaptureSession implements it with flags, channels and joins that may    *)
(* time out; SessionFiles adds the files that the threads leave behind.    *)
(***************************************************************************)

CONSTANT Threads

VARIABLES
    life,   \* where each capture thread is in its life
    open    \* the window is open

vars == <<life, open>>

Lives == {"unborn", "capturing", "dismissed", "ended"}
Capturing == {t \in Threads : life[t] = "capturing"}

Init ==
    /\ life = [t \in Threads |-> "unborn"]
    /\ open = TRUE

Start(t) ==
    /\ open
    /\ Capturing = {}
    /\ life[t] = "unborn"
    /\ life' = [life EXCEPT ![t] = "capturing"]
    /\ UNCHANGED open

Dismiss(t) ==
    /\ life[t] = "capturing"
    /\ life' = [life EXCEPT ![t] = "dismissed"]
    /\ UNCHANGED open

\* A thread ends because it was dismissed, or by a failure of its own.
End(t) ==
    /\ life[t] \in {"capturing", "dismissed"}
    /\ life' = [life EXCEPT ![t] = "ended"]
    /\ UNCHANGED open

Close ==
    /\ open
    /\ open' = FALSE
    /\ life' = [t \in Threads |-> IF life[t] = "capturing" THEN "dismissed" ELSE life[t]]

Next ==
    \/ \E t \in Threads : Start(t) \/ Dismiss(t) \/ End(t)
    \/ Close

Spec == Init /\ [][Next]_vars

\* A dismissed thread does not go on for ever.
DismissedEnd == \A t \in Threads : life[t] = "dismissed" ~> life[t] = "ended"

FairSpec == Spec /\ DismissedEnd

=============================================================================
