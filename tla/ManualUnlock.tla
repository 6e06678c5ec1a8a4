---------------------------- MODULE ManualUnlock ----------------------------
(***************************************************************************)
(* The unlock command: the loop over the selected devices and their        *)
(* credentials (cmd/fv-ssh-unlock/main.go), the retries of one device      *)
(* (unlockDeviceWithRetry), and fvcore's Unlock and VerifyUnlock           *)
(* (pkg/fvcore/fvcore.go), against Macs that boot at their own pace and a  *)
(* user who may interrupt the command at any moment.                       *)
(*                                                                         *)
(* AnalyzePrompt and ProbeStatus take the answers that SshClient allows.   *)
(***************************************************************************)
EXTENDS Naturals, Sequences, SequencesExt

CONSTANTS
    Configured,   \* the devices of devices.json, in order
    Requests,     \* the argument lists the command is tried with
    MaxAttempts   \* --retry-attempts

ASSUME CommandAssumption ==
    /\ MaxAttempts \in Nat \ {0}
    /\ Configured \in Seq(STRING) /\ IsInjective(Configured)
    /\ Requests \subseteq Seq(STRING)

Devices == ToSet(Configured)

\* --all stands for every configured device.
All == <<"--all">>

VARIABLES
    pc,         \* where the command is
    request,    \* its arguments
    verify,     \* verifyWindow > 0
    selected,   \* devicesToUnlock
    index,      \* the device of the loop
    attempts,   \* the attempts of unlockDeviceWithRetry
    answer,     \* what AnalyzePrompt returned
    windowOver, \* the verification window has passed
    cancelled,  \* the command's context has ended
    reported,   \* the outcome of each device: none, unlocked, incorrect, exhausted, skipped
    exit,       \* how the command ended: none, ok, failed, error, host-key, cancelled
    mac,        \* each Mac is locked, booting or booted
    right,      \* those whose stored or typed password is right
    (***********************************************************************)
    (* History variables.                                                  *)
    (***********************************************************************)
    sent,       \* the times a password was submitted to each device
    begun,      \* the current attempt began after the cancellation
    late,       \* the submissions after the cancellation
    fresh,      \* those of attempts that began after it
    heard       \* the final answers, each with the device that gave it

loopVars == <<selected, index, attempts, answer, windowOver, reported>>
inputs   == <<request, verify, right>>
history  == <<sent, begun, late, fresh>>
vars     == <<pc, loopVars, inputs, cancelled, exit, mac, history, heard>>

\* What AnalyzePrompt and ProbeStatus answer without the device's word.
Unheard == {"dial-error", "error"}

UnlockAnswers == Unheard \cup {"unlocked", "unlocked-recently", "auth-failed", "outcome-unknown",
                               "host-key-mismatch"}
ProbeAnswers  == Unheard \cup {"locked", "unlocked-recently", "indeterminate",
                               "host-key-mismatch"}

Init ==
    /\ pc = "select" /\ exit = "none" /\ cancelled = FALSE
    /\ request \in Requests /\ verify \in BOOLEAN /\ right \in SUBSET Devices
    /\ selected = <<>> /\ index = 0 /\ attempts = 0 /\ answer = "none" /\ windowOver = FALSE
    /\ reported = [d \in Devices |-> "none"]
    /\ mac \in [Devices -> {"locked", "booted"}]
    /\ sent = [d \in Devices |-> 0] /\ begun = FALSE /\ late = 0 /\ fresh = 0 /\ heard = {}

device == selected[index]

-----------------------------------------------------------------------------
(* How the command goes on *)

\* RunE returns.
Return(e) == pc' = "done" /\ exit' = e

\* Faulty variant: one success is enough.
FinishAny(outcome) ==
    Return(IF \E d \in ToSet(selected) : outcome[d] = "unlocked" THEN "ok" ELSE "failed")

\* After the loop: failedDevices is empty, or it is not.
Finish(outcome) ==
    Return(IF \A d \in ToSet(selected) : outcome[d] = "unlocked" THEN "ok" ELSE "failed")

\* The device has its outcome; an error ends the command when it is the only
\* one, and otherwise the loop goes on.
Report(o) ==
    /\ reported' = [reported EXCEPT ![device] = o]
    /\ answer' = "none" /\ windowOver' = FALSE /\ attempts' = 0
    /\ IF o # "unlocked" /\ Len(selected) = 1 THEN Return("error") /\ UNCHANGED index
       ELSE IF index < Len(selected)
            THEN pc' = "credential" /\ index' = index + 1 /\ UNCHANGED exit
            ELSE Finish(reported') /\ UNCHANGED index
    /\ UNCHANGED <<selected, inputs, cancelled, mac, history>>

Goes(to) ==
    /\ pc' = to
    /\ UNCHANGED <<loopVars, inputs, cancelled, exit, mac, history>>

Ends(e) ==
    /\ Return(e)
    /\ UNCHANGED <<loopVars, inputs, cancelled, mac, history>>

-----------------------------------------------------------------------------
(* The command *)

\* selectConfiguredDevices: every name is known and none is repeated.
Selects(names) == IsInjective(names) /\ ToSet(names) \subseteq Devices

\* The arguments; nothing is done when one of them is wrong.
Select ==
    /\ pc = "select"
    /\ IF request # All /\ (request = <<>> \/ ~Selects(request))
       THEN Return("error") /\ UNCHANGED <<selected, index>>
       ELSE /\ selected' = IF request = All THEN Configured ELSE request
            /\ IF selected' = <<>> THEN Return("ok") /\ UNCHANGED index
               ELSE pc' = "credential" /\ index' = 1 /\ UNCHANGED exit
    /\ UNCHANGED <<attempts, answer, windowOver, reported, inputs, cancelled, mac, history, heard>>

\* The store cannot be read, an option is wrong, or the SSH client cannot be
\* made; a credential provider is not there, or its storage is unsafe.
SetupFails ==
    /\ pc \in {"select", "credential"}
    /\ Ends("error")
    /\ UNCHANGED heard

\* credentialStoreForDevice and Get give a password.
CredentialFound ==
    /\ pc = "credential"
    /\ Goes("attempt")
    /\ UNCHANGED heard

\* There is none: skipped among others; alone, asked for, unless it is a file.
CredentialMissing ==
    /\ pc = "credential"
    /\ \/ Len(selected) > 1 /\ Report("skipped")
       \/ Len(selected) = 1 /\ Goes("prompt")
       \/ Len(selected) = 1 /\ Ends("error")
    /\ UNCHANGED heard

\* ReadPassword.
PasswordTyped(ok) ==
    /\ pc = "prompt"
    /\ IF ok THEN Goes("attempt") ELSE Ends("error")
    /\ UNCHANGED heard

-----------------------------------------------------------------------------
(* unlockDeviceWithRetry *)

\* Faulty variant: the client will look at the context.
AttemptUnchecked ==
    /\ pc = "attempt"
    /\ pc' = "unlocking" /\ attempts' = attempts + 1
    /\ begun' = cancelled
    /\ UNCHANGED <<selected, index, answer, windowOver, reported, inputs, cancelled, exit, mac,
                   sent, late, fresh, heard>>

\* Unlock looks at the context first; its error ends the command.
Attempt ==
    /\ pc = "attempt"
    /\ IF cancelled THEN Return("cancelled") /\ UNCHANGED attempts
       ELSE pc' = "unlocking" /\ attempts' = attempts + 1 /\ UNCHANGED exit
    /\ begun' = cancelled
    /\ UNCHANGED <<selected, index, answer, windowOver, reported, inputs, cancelled, mac, sent,
                   late, fresh, heard>>

\* What AnalyzePrompt returns when it did not send the password, and when it
\* did: the Mac takes a right one or never gets to see it, a booted Mac is no
\* longer asking for it, and either may go away before its answer.
Unsent(d) == Unheard \cup {"host-key-mismatch"} \cup
    (IF mac[d] = "booted" THEN {"unlocked-recently"} ELSE {})

Lost(d) == IF mac[d] = "booting" THEN {} ELSE {"outcome-unknown", "auth-failed", "host-key-mismatch"}

Taken(d) ==
    CASE mac[d] = "locked" /\ d \in right -> Lost(d) \cup {"unlocked"}
      [] mac[d] = "booted" /\ d \in right -> Lost(d) \cup {"unlocked-recently"}
      [] OTHER                            -> {}

\* Answers after which the device is not to get a password again.
Final == {"unlocked", "unlocked-recently", "auth-failed", "host-key-mismatch"}

Heard(a) == heard' = IF a \in Final THEN heard \cup {<<device, a>>} ELSE heard

Submitted ==
    /\ sent' = [sent EXCEPT ![device] = @ + 1]
    /\ late' = IF cancelled THEN late + 1 ELSE late
    /\ fresh' = IF begun THEN fresh + 1 ELSE fresh

AnalyzePrompt(a) ==
    /\ pc = "unlocking"
    /\ \/ a \in Unsent(device) /\ UNCHANGED <<mac, sent, late, fresh>>
       \/ a \in Lost(device) /\ Submitted /\ UNCHANGED mac
       \/ /\ a \in Taken(device) /\ Submitted
          /\ mac' = [mac EXCEPT ![device] = IF @ = "locked" THEN "booting" ELSE @]
    /\ Heard(a)
    /\ answer' = a
    /\ pc' = "answered"
    /\ UNCHANGED <<selected, index, attempts, windowOver, reported, inputs, cancelled, exit, begun>>

\* Another attempt after the delay, or none is left.
Retry == IF attempts < MaxAttempts THEN Goes("wait") ELSE Report("exhausted")

\* StatusUnknown.
Unknown == {"dial-error", "error", "outcome-unknown"}

\* Faulty variant: the next device may have another key.
AnsweredNext ==
    /\ pc = "answered"
    /\ CASE answer = "unlocked-recently"                      -> Report("unlocked")
         [] answer = "auth-failed"                            -> Report("incorrect")
         [] answer = "unlocked" /\ ~verify                    -> Report("unlocked")
         [] answer \in {"unlocked", "outcome-unknown"} /\ verify -> Goes("verify")
         [] OTHER                                             -> Retry
    /\ UNCHANGED heard

\* The switch on the status, after the look at the context.
Answered ==
    /\ pc = "answered"
    /\ IF answer \in Unknown /\ cancelled THEN Ends("cancelled")
       ELSE CASE answer = "host-key-mismatch"                  -> Ends("host-key")
              [] answer = "unlocked-recently"                  -> Report("unlocked")
              [] answer = "auth-failed"                        -> Report("incorrect")
              [] answer = "unlocked" /\ ~verify                -> Report("unlocked")
              [] answer \in {"unlocked", "outcome-unknown"} /\ verify -> Goes("verify")
              [] OTHER                                         -> Retry
    /\ UNCHANGED heard

\* The wait before the next attempt; with both ready, select takes either.
DelayPasses ==
    /\ pc = "wait"
    /\ Goes("attempt")
    /\ UNCHANGED heard

WaitCancelled ==
    /\ pc = "wait" /\ cancelled
    /\ Ends("cancelled")
    /\ UNCHANGED heard

-----------------------------------------------------------------------------
(* VerifyUnlock *)

\* Faulty variant: a window that passes without a word is a boot.
VerifiedSilently(v) ==
    CASE v = "host-key-mismatch"           -> Ends("host-key")
      [] v \in {"booted", "unconfirmed"}   -> Report("unlocked")
      [] v = "cancelled"                   -> Ends("cancelled")
      [] OTHER                             -> Retry

\* What the caller makes of it: after an acknowledged unlock only the host key
\* matters; after an unacknowledged one only a booted Mac counts.
Verified(v) ==
    IF v = "host-key-mismatch" THEN Ends("host-key")
    ELSE IF v = "booted" \/ answer = "unlocked" THEN Report("unlocked")
    ELSE IF v = "cancelled" THEN Ends("cancelled")
    ELSE Retry

VerifyBegins ==
    /\ pc = "verify"
    /\ IF cancelled THEN Verified("cancelled")
       ELSE /\ pc' = IF answer = "unlocked" THEN "grace" ELSE "probe"
            /\ windowOver' = FALSE
            /\ UNCHANGED <<selected, index, attempts, answer, reported, inputs, cancelled, exit,
                           mac, history>>
    /\ UNCHANGED heard

\* The waits end with their timer, with the window, or with the command's
\* context, which ends the window's context too: select takes either.
VerifyWaits ==
    /\ pc \in {"grace", "interval"}
    /\ \/ Goes("probe")
       \/ windowOver /\ Verified("unconfirmed")
       \/ cancelled /\ \E v \in {"cancelled", "unconfirmed"} : Verified(v)
    /\ UNCHANGED heard

\* Faulty variant: only the waits look at the window.
ProbeStatusPatient(a) ==
    /\ pc = "probe"
    /\ \/ a \in Unheard \cup {"host-key-mismatch"}
       \/ a = "locked" /\ mac[device] = "locked"
       \/ a = "indeterminate" /\ mac[device] # "booting"
       \/ a = "unlocked-recently" /\ mac[device] = "booted"
    /\ CASE a = "unlocked-recently"                     -> Verified("booted")
         [] a \in {"host-key-mismatch", "indeterminate"} -> Verified(a)
         [] a \in Unheard \cup {"locked"}               ->
                IF cancelled THEN Verified("cancelled")
                ELSE Goes("interval")
    /\ Heard(a)

\* A probe, and what follows from its answer.
ProbeStatus(a) ==
    /\ pc = "probe"
    /\ \/ a \in Unheard \cup {"host-key-mismatch"}
       \/ a = "locked" /\ mac[device] = "locked"
       \/ a = "indeterminate" /\ mac[device] # "booting"
       \/ a = "unlocked-recently" /\ mac[device] = "booted"
    /\ CASE a = "unlocked-recently"                     -> Verified("booted")
         [] a \in {"host-key-mismatch", "indeterminate"} -> Verified(a)
         [] a \in Unheard \cup {"locked"}               ->
                IF cancelled THEN Verified("cancelled")
                ELSE IF windowOver THEN Verified("unconfirmed")
                ELSE Goes("interval")
    /\ Heard(a)

WindowEnds ==
    /\ pc \in {"grace", "probe", "interval"} /\ ~windowOver
    /\ windowOver' = TRUE
    /\ UNCHANGED <<pc, selected, index, attempts, answer, reported, inputs, cancelled, exit, mac,
                   history, heard>>

-----------------------------------------------------------------------------
(* The surroundings *)

\* An interrupt ends the command's context.
Cancel ==
    /\ ~cancelled /\ pc # "done"
    /\ cancelled' = TRUE
    /\ UNCHANGED <<pc, loopVars, inputs, exit, mac, history, heard>>

MacBoots(d) ==
    /\ mac[d] = "booting"
    /\ mac' = [mac EXCEPT ![d] = "booted"]
    /\ UNCHANGED <<pc, loopVars, inputs, cancelled, exit, history, heard>>

-----------------------------------------------------------------------------
\* Everything the command does without the user; each call has a timeout.
Step ==
    \/ Select \/ SetupFails \/ CredentialFound \/ CredentialMissing
    \/ Attempt \/ \E a \in UnlockAnswers : AnalyzePrompt(a)
    \/ Answered \/ DelayPasses \/ WaitCancelled
    \/ VerifyBegins \/ VerifyWaits \/ \E a \in ProbeAnswers : ProbeStatus(a)

Next ==
    \/ Step \/ WindowEnds \/ Cancel
    \/ \E ok \in BOOLEAN : PasswordTyped(ok)
    \/ \E d \in Devices : MacBoots(d)

Spec == Init /\ [][Next]_vars

FairSpec == Spec /\ WF_vars(Step) /\ WF_vars(WindowEnds)

-----------------------------------------------------------------------------
(* Properties *)

\* A device is reported unlocked only when it took the password or was booted:
\* neither a lost answer nor a silent verification window counts.
UnlockedIsTrue == \A d \in Devices : reported[d] = "unlocked" => mac[d] # "locked"

\* The command succeeds only when every device asked for is unlocked, and it
\* reports failure only when one of them is not.
ExitIsHonest ==
    LET asked == IF request = All THEN Devices ELSE ToSet(request)
        unlocked == {d \in Devices : reported[d] = "unlocked"}
    IN  /\ exit = "ok" => asked \subseteq unlocked
        /\ exit = "failed" => /\ ~(asked \subseteq unlocked)
                              /\ \A d \in asked : reported[d] # "none"

\* A password is submitted only to a device that has given no final answer,
\* in no more than the configured attempts, and to no device at all once a
\* host key has not matched.
NoSecretAfterAnswer ==
    [][\A d \in Devices : sent'[d] # sent[d] =>
          /\ reported[d] = "none"
          /\ \A h \in heard : h[1] # d /\ h[2] # "host-key-mismatch"
          /\ sent'[d] <= MaxAttempts]_vars

\* An interruption at any moment, in the pause before a retry or during the
\* verification too, is final: the submission that is under way may still
\* happen, once, and no attempt that began later submits a password, be it a
\* retry or one for the next device.
NothingNewAfterCancel == late <= 1 /\ fresh = 0

\* The command ends unless it waits for the user to type a password.
CommandEnds == []<>(pc \in {"prompt", "done"})
=============================================================================
