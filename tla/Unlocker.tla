------------------------------ MODULE Unlocker ------------------------------
(***************************************************************************)
(* The interface between the monitor engine and the code that talks to a   *)
(* Mac (Unlocker and UnlockResult in internal/monitor/types.go).           *)
(***************************************************************************)

\* What Unlocker.Unlock reports: an explicit credential or host-key failure,
\* acceptance (with or without an ambiguous error), a failure known to
\* precede submission, or neither acceptance nor an error ("contract").
UnlockOutcomes ==
    {"credential", "host-key", "accepted", "unreachable", "transient", "contract"}

\* The failures that tell the engine that no credential was submitted, and so
\* earn the lock episode another attempt.
PreSubmissionKinds == {"unreachable", "transient"}

\* The contract: these may be reported only when nothing was sent.
AllowedReports(sent) == IF sent THEN UnlockOutcomes \ PreSubmissionKinds ELSE UnlockOutcomes
=============================================================================
