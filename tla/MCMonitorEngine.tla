--------------------------- MODULE MCMonitorEngine ---------------------------
(* Instances of MonitorEngine for TLC. *)
EXTENDS MonitorEngine, TLC

\* Callers are interchangeable.
CallerSymmetry == Permutations(Callers)

\* Several devices.  What a probe sees does not matter to who waits for whom,
\* only whether the poll goes on to a submission, which the policy decides.
FleetProbes == {o \in ProbeOutcomes : o.state = "locked"}

\* The results of the daemon's prober for a device it knows: without the
\* unclassified errors and invalid states of a broken prober, which would
\* hide a locked Mac for as long as they last.
SoundProbes == {o \in ProbeOutcomes : o.kind \notin {"transient", "invalid"}}
=============================================================================
