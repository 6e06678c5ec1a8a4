--------------------------- MODULE UnlockContract ---------------------------
(***************************************************************************)
(* One call of Unlocker.Unlock as its caller may rely on it: at most one   *)
(* credential is submitted, then or before then the call reports, and what *)
(* it reports does not deny a submission.  MonitorEngine assumes this of   *)
(* its unlocker; SshClient implements it.                                  *)
(***************************************************************************)
EXTENDS Unlocker

VARIABLES
    phase,   \* "calling", "submitted" or "returned"
    report   \* "none" until the call returns

Init == phase = "calling" /\ report = "none"

Submit ==
    /\ phase = "calling"
    /\ phase' = "submitted"
    /\ UNCHANGED report

Report(o) ==
    /\ phase # "returned"
    /\ o \in AllowedReports(phase = "submitted")
    /\ phase' = "returned"
    /\ report' = o

Next == Submit \/ \E o \in UnlockOutcomes : Report(o)

Spec == Init /\ [][Next]_<<phase, report>>
=============================================================================
