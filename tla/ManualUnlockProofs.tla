-------------------------- MODULE ManualUnlockProofs --------------------------
(***************************************************************************)
(* The unlock command, for any number of configured devices, any arguments *)
(* and any number of attempts.                                             *)
(***************************************************************************)
EXTENDS ManualUnlock, TLAPS

-----------------------------------------------------------------------------
(* The inductive invariant *)

\* The loop over the devices has begun and not ended.
Active == pc \notin {"select", "done"}

\* AnalyzePrompt has answered for the current device.
Judging == pc \in {"answered", "verify", "grace", "probe", "interval"}

Steps == {"select", "credential", "prompt", "attempt", "unlocking", "answered", "wait", "verify",
          "grace", "probe", "interval", "done"}

TypeInv ==
    /\ pc \in Steps /\ exit \in {"none", "ok", "failed", "error", "host-key", "cancelled"}
    /\ selected \in Seq(Devices) /\ IsInjective(selected)
    /\ Active => index \in 1..Len(selected) /\ exit = "none"
    /\ pc = "select" => exit = "none"
    /\ reported \in [Devices -> {"none", "unlocked", "incorrect", "exhausted", "skipped"}]
    /\ mac \in [Devices -> {"locked", "booting", "booted"}]
    /\ sent \in [Devices -> Nat] /\ attempts \in 0..MaxAttempts

\* The devices before the current one have their outcome, those from it on
\* have none.
LoopInv ==
    /\ pc = "select" => \A d \in Devices : reported[d] = "none"
    /\ Active => \A i \in 1..Len(selected) : reported[selected[i]] = "none" <=> i >= index

\* A Mac that acknowledged, or that was booted, is not locked.
TruthInv ==
    /\ UnlockedIsTrue
    /\ Judging /\ answer \in {"unlocked", "unlocked-recently"} => mac[device] # "locked"

\* Only an unknown outcome or an acknowledged unlock is verified.
VerifyInv == pc \in {"verify", "grace", "probe", "interval"} => answer \in {"unlocked", "outcome-unknown"}

\* A final answer came from a device that has its outcome, or from the current
\* one, which is about to get it; after a mismatch the command ends.
HeardInv ==
    \A h \in heard :
        /\ pc # "select"
        /\ Active => /\ h[1] \in Devices
                     /\ reported[h[1]] # "none" \/ (h[1] = device /\ Judging /\ answer \in Final)
        /\ Active /\ h[2] = "host-key-mismatch" => pc = "answered" /\ answer = "host-key-mismatch"

\* An attempt submits one password at most; the devices to come have none.
SentInv ==
    /\ pc = "select" => attempts = 0 /\ \A d \in Devices : sent[d] = 0
    /\ Active => /\ \A d \in Devices : reported[d] = "none" /\ d # device => sent[d] = 0
                 /\ sent[device] <= attempts
                 /\ pc \in {"credential", "prompt"} => attempts = 0
                 /\ pc \in {"attempt", "wait"} => attempts < MaxAttempts
                 /\ pc = "unlocking" => sent[device] < attempts

\* The devices asked for are the ones of the loop, and the exit is honest.
ExitInv ==
    LET asked == IF request = All THEN Devices ELSE ToSet(request)
    IN  /\ Active \/ exit \in {"ok", "failed"} => ToSet(selected) = asked
        /\ ExitIsHonest

\* A submission after the cancellation was under way, and is the last: the
\* attempt that makes one had found the context alive.
LateInv ==
    /\ late \in {0, 1} /\ (late = 1 => cancelled /\ pc # "unlocking")
    /\ pc = "unlocking" => ~begun
    /\ fresh = 0

CommandInv ==
    /\ TypeInv /\ LoopInv /\ TruthInv /\ VerifyInv
    /\ HeardInv /\ SentInv /\ ExitInv /\ LateInv

\* The step hears at most the current device, and no mismatch.
HeardFromDevice ==
    \A h \in heard' : h \in heard \/ (h[1] = device /\ h[2] # "host-key-mismatch")

Outcomes == {"unlocked", "incorrect", "exhausted", "skipped"}

-----------------------------------------------------------------------------
(* The current device *)

\* The current device is one of the configured devices.
LEMMA DeviceKnown ==
  ASSUME TypeInv, Active
  PROVE  device \in Devices /\ index \in 1..Len(selected) /\ Len(selected) \in Nat
BY DEF TypeInv, device

\* No name is selected twice, so the loop never comes back to a device.
LEMMA OtherDevice ==
  ASSUME TypeInv, Active, NEW i \in 1..Len(selected), i # index
  PROVE  selected[i] \in Devices /\ selected[i] # device
<1>1. DOMAIN selected = 1..Len(selected)
  BY DEF TypeInv
<1> QED BY <1>1, DeviceKnown DEF TypeInv, device, IsInjective

\* The set of the selected devices, by their places.
LEMMA SelectedDevices ==
  ASSUME TypeInv
  PROVE  /\ \A i \in 1..Len(selected) : selected[i] \in ToSet(selected)
         /\ \A d \in ToSet(selected) : \E i \in 1..Len(selected) : d = selected[i]
         /\ ToSet(selected) \subseteq Devices
<1>1. selected \in Seq(Devices)
  BY DEF TypeInv
<1>2. DOMAIN selected = 1..Len(selected) /\ \A i \in 1..Len(selected) : selected[i] \in Devices
  BY <1>1
<1> QED BY <1>2 DEF ToSet

-----------------------------------------------------------------------------
(* The ways the command goes on *)

\* A step that hears nothing.
LEMMA NothingHeard ==
  ASSUME heard' = heard
  PROVE  HeardFromDevice
BY DEF HeardFromDevice

\* A return with an error leaves nothing to be wrong about.
LEMMA ReturnKeeps ==
  ASSUME CommandInv, NEW e \in {"error", "host-key", "cancelled"}, Return(e),
         UNCHANGED <<loopVars, inputs, cancelled, mac, sent, late, fresh>>
  PROVE  CommandInv'
<1> USE DEF CommandInv, Return, loopVars, inputs
<1>1. pc' = "done" /\ exit' = e /\ ~Active' /\ ~Judging'
  BY DEF Active, Judging
<1>2. TypeInv'
  BY <1>1 DEF TypeInv, Steps
<1>3. LoopInv' /\ VerifyInv' /\ SentInv'
  BY <1>1 DEF LoopInv, VerifyInv, SentInv
<1>4. TruthInv'
  BY <1>1 DEF TruthInv, UnlockedIsTrue
<1>5. HeardInv'
  BY <1>1 DEF HeardInv
<1>6. ExitInv'
  BY <1>1 DEF ExitInv, ExitIsHonest
<1>7. LateInv'
  BY <1>1 DEF LateInv
<1> QED BY <1>2, <1>3, <1>4, <1>5, <1>6, <1>7

LEMMA EndsKeeps ==
  ASSUME CommandInv, NEW e \in {"error", "host-key", "cancelled"}, Ends(e)
  PROVE  CommandInv'
BY ReturnKeeps DEF Ends, history

\* A device gets its outcome: the next one has none, and no password yet.
LEMMA ReportKeeps ==
  ASSUME CommandInv, Active, pc # "unlocking", NEW o \in Outcomes, Report(o),
         o = "unlocked" => mac[device] # "locked",
         ~(pc = "answered" /\ answer = "host-key-mismatch"), HeardFromDevice
  PROVE  CommandInv'
<1>1. /\ device \in Devices /\ TypeInv /\ LoopInv /\ TruthInv /\ HeardInv /\ SentInv /\ ExitInv
      /\ LateInv
  BY DeviceKnown DEF CommandInv
<1>2. index \in 1..Len(selected) /\ Len(selected) \in Nat
  BY <1>1, DeviceKnown
<1>3. /\ reported' = [reported EXCEPT ![device] = o]
      /\ attempts' = 0 /\ UNCHANGED <<selected, request, cancelled, mac, sent, late, fresh>>
  BY DEF Report, inputs, history
<1>4. \/ pc' = "done" /\ exit' = "error"
      \/ index < Len(selected) /\ pc' = "credential" /\ index' = index + 1 /\ exit' = exit
      \/ ~(index < Len(selected)) /\ Finish(reported')
  BY DEF Report, Return
<1>5. /\ pc' \in {"done", "credential"} /\ (Active' <=> pc' = "credential") /\ ~Judging'
      /\ exit' \in {"none", "ok", "failed", "error", "host-key", "cancelled"}
      /\ Active' => exit' = "none" /\ index < Len(selected) /\ index' = index + 1
  BY <1>1, <1>4 DEF Active, Judging, Finish, Return, TypeInv
<1>6. /\ reported'[device] = o /\ o # "none"
      /\ \A d \in Devices : d # device => reported'[d] = reported[d]
      /\ reported' \in [Devices -> {"none", "unlocked", "incorrect", "exhausted", "skipped"}]
  BY <1>1, <1>3 DEF TypeInv, Outcomes
<1>7. TypeInv'
  <2>1. Active' => index' \in 1..Len(selected')
    BY <1>2, <1>3, <1>5
  <2>2. attempts' \in 0..MaxAttempts
    BY <1>3, CommandAssumption
  <2> QED BY <1>1, <1>3, <1>5, <1>6, <2>1, <2>2 DEF TypeInv, Steps
<1>8. LoopInv'
  <2> SUFFICES ASSUME Active', NEW i \in 1..Len(selected)
               PROVE  reported'[selected[i]] = "none" <=> i >= index + 1
    BY <1>3, <1>5 DEF LoopInv
  <2>1. CASE i = index
    <3>1. selected[i] = device /\ ~(i >= index + 1)
      BY <1>2, <2>1 DEF device
    <3> QED BY <1>6, <3>1
  <2>2. CASE i # index
    <3>1. reported'[selected[i]] = reported[selected[i]]
      BY <1>1, <1>6, <2>2, OtherDevice
    <3>2. reported[selected[i]] = "none" <=> i >= index
      BY <1>1 DEF LoopInv
    <3>3. i >= index <=> i >= index + 1
      BY <1>2, <2>2
    <3> QED BY <3>1, <3>2, <3>3
  <2> QED BY <2>1, <2>2
<1>9. TruthInv' /\ VerifyInv'
  <2>1. UnlockedIsTrue'
    BY <1>1, <1>3, <1>6 DEF TruthInv, UnlockedIsTrue
  <2> QED BY <1>5, <2>1 DEF TruthInv, VerifyInv
<1>10. HeardInv'
  <2> SUFFICES ASSUME NEW h \in heard'
               PROVE  h[1] \in Devices /\ reported'[h[1]] # "none" /\ h[2] # "host-key-mismatch"
    BY <1>5 DEF HeardInv
  <2>1. CASE h \in heard
    <3>1. /\ h[1] \in Devices /\ h[2] # "host-key-mismatch"
          /\ h[1] # device => reported[h[1]] # "none"
      BY <1>1, <2>1 DEF HeardInv
    <3> QED BY <1>6, <3>1
  <2>2. CASE h \notin heard
    <3>1. h[1] = device /\ h[2] # "host-key-mismatch"
      BY <2>2 DEF HeardFromDevice
    <3> QED BY <1>1, <1>6, <3>1
  <2> QED BY <2>1, <2>2
<1>11. SentInv'
  <2>1. \A d \in Devices : reported'[d] = "none" => sent'[d] = 0
    BY <1>1, <1>3, <1>6 DEF SentInv
  <2>2. Active' => device' \in Devices /\ reported'[device'] = "none"
    <3> SUFFICES ASSUME Active' PROVE device' \in Devices /\ reported'[device'] = "none"
      OBVIOUS
    <3>1. index + 1 \in 1..Len(selected) /\ index + 1 >= index + 1
      BY <1>2, <1>5
    <3>2. device' = selected[index + 1]
      BY <1>3, <1>5 DEF device
    <3>3. selected[index + 1] \in Devices
      BY <1>1, <3>1 DEF TypeInv
    <3>4. \A i \in 1..Len(selected) : reported'[selected[i]] = "none" <=> i >= index + 1
      BY <1>3, <1>5, <1>8 DEF LoopInv
    <3> QED BY <3>1, <3>2, <3>3, <3>4
  <2>3. Active' => sent'[device'] = 0
    BY <2>1, <2>2
  <2>4. /\ Active' => sent'[device'] <= attempts'
        /\ pc' \notin {"select", "attempt", "wait", "unlocking"}
    BY <1>3, <1>5, <2>3
  <2> QED BY <1>3, <2>1, <2>4 DEF SentInv
<1>12. ExitInv'
  <2> DEFINE asked == IF request = All THEN Devices ELSE ToSet(request)
  <2>1. ToSet(selected) = asked
    BY <1>1 DEF ExitInv
  <2>2. ToSet(selected') = ToSet(selected) /\ request' = request
    BY <1>3
  <2>3. CASE exit' \notin {"ok", "failed"}
    BY <2>1, <2>2, <2>3 DEF ExitInv, ExitIsHonest
  <2>4. CASE exit' \in {"ok", "failed"}
    <3>1. ~(index < Len(selected)) /\ Finish(reported')
      BY <1>1, <1>4, <2>4 DEF TypeInv
    <3>2. index = Len(selected)
      BY <1>2, <3>1
    <3>3. \A d \in ToSet(selected) : reported'[d] # "none"
      <4> SUFFICES ASSUME NEW d \in ToSet(selected) PROVE reported'[d] # "none"
        OBVIOUS
      <4>1. PICK i \in 1..Len(selected) : d = selected[i]
        BY <1>1, SelectedDevices
      <4>2. CASE i = index
        BY <1>6, <4>1, <4>2 DEF device
      <4>3. CASE i # index
        <5>1. ~(i >= index)
          BY <1>2, <3>2, <4>3
        <5>2. reported[d] # "none" /\ reported'[d] = reported[d]
          BY <1>1, <1>6, <4>1, <4>3, <5>1, OtherDevice DEF LoopInv
        <5> QED BY <5>2
      <4> QED BY <4>2, <4>3
    <3>4. ToSet(selected) \subseteq Devices
      BY <1>1, SelectedDevices
    <3>5. asked = (IF request' = All THEN Devices ELSE ToSet(request'))
      BY <2>2
    <3>6. /\ exit' = "ok" => \A d \in asked : reported'[d] = "unlocked"
          /\ exit' = "failed" => \E d \in asked : reported'[d] # "unlocked"
      BY <2>1, <3>1 DEF Finish, Return
    <3>7. ExitIsHonest'
      BY <2>1, <3>3, <3>4, <3>5, <3>6 DEF ExitIsHonest
    <3> QED BY <2>1, <2>2, <3>5, <3>7 DEF ExitInv
  <2> QED BY <2>3, <2>4
<1>13. LateInv'
  BY <1>1, <1>3, <1>5 DEF LateInv
<1> QED BY <1>7, <1>8, <1>9, <1>10, <1>11, <1>12, <1>13 DEF CommandInv

\* A step inside the work on one device.
LEMMA GoesKeeps ==
  ASSUME CommandInv, Active, pc # "unlocking", UNCHANGED heard,
         NEW to \in Steps \ {"select", "done", "credential", "unlocking", "answered"}, Goes(to),
         to \in {"verify", "grace", "probe", "interval"} =>
             Judging /\ answer \in {"unlocked", "outcome-unknown"},
         to \in {"prompt", "attempt", "wait"} => ~(Judging /\ answer \in Final),
         to = "prompt" => attempts = 0,
         to \in {"attempt", "wait"} => attempts < MaxAttempts
  PROVE  CommandInv'
<1> USE DEF CommandInv, Goes, loopVars, inputs, history
<1>1. /\ pc' = to /\ Active' /\ device' = device
      /\ Judging' <=> to \in {"verify", "grace", "probe", "interval"}
  BY DEF Active, Judging, Steps, device
<1>2. TypeInv'
  BY <1>1 DEF TypeInv, Steps
<1>3. LoopInv'
  BY <1>1 DEF LoopInv
<1>4. TruthInv'
  BY <1>1 DEF TruthInv, UnlockedIsTrue
<1>5. VerifyInv'
  BY <1>1 DEF VerifyInv
<1>6. HeardInv'
  BY <1>1 DEF HeardInv, Final, Steps, Judging
<1>7. SentInv'
  BY <1>1 DEF SentInv
<1>8. ExitInv'
  BY <1>1 DEF ExitInv, ExitIsHonest
<1>9. LateInv'
  BY <1>1 DEF LateInv
<1> QED BY <1>2, <1>3, <1>4, <1>5, <1>6, <1>7, <1>8, <1>9

\* What follows a verification: only a booted Mac, or one that acknowledged
\* the password, counts as unlocked.
LEMMA VerifiedKeeps ==
  ASSUME CommandInv, pc \in {"verify", "grace", "probe", "interval"},
         NEW v, Verified(v),
         v = "booted" => mac[device] # "locked",
         v # "host-key-mismatch" => HeardFromDevice,
         v # "booted" /\ v # "host-key-mismatch" => heard' = heard
  PROVE  CommandInv'
<1>1. /\ Active /\ Judging /\ pc # "answered" /\ pc # "unlocking"
      /\ answer \in {"unlocked", "outcome-unknown"}
  BY DEF CommandInv, VerifyInv, Active, Judging
<1>2. CASE v = "host-key-mismatch"
  BY <1>2, EndsKeeps DEF Verified
<1>3. CASE v # "host-key-mismatch" /\ (v = "booted" \/ answer = "unlocked")
  <2>1. mac[device] # "locked"
    BY <1>1, <1>3 DEF CommandInv, TruthInv
  <2>2. Report("unlocked")
    BY <1>3 DEF Verified
  <2> QED BY <1>1, <1>3, <2>1, <2>2, NothingHeard, ReportKeeps DEF Outcomes
<1>4. CASE v \notin {"host-key-mismatch", "booted"} /\ answer # "unlocked"
  <2>1. heard' = heard /\ answer \notin Final
    BY <1>1, <1>4 DEF Final
  <2>2. Ends("cancelled") \/ (attempts < MaxAttempts /\ Goes("wait")) \/ Report("exhausted")
    BY <1>4 DEF Verified, Retry
  <2>3. CASE Ends("cancelled")
    BY <2>3, EndsKeeps
  <2>4. CASE attempts < MaxAttempts /\ Goes("wait")
    BY <1>1, <2>1, <2>4, GoesKeeps DEF Steps
  <2>5. CASE Report("exhausted")
    BY <1>1, <2>1, <2>5, NothingHeard, ReportKeeps DEF Outcomes
  <2> QED BY <2>2, <2>3, <2>4, <2>5
<1> QED BY <1>2, <1>3, <1>4

-----------------------------------------------------------------------------
(* The actions *)

\* The arguments become the devices of the loop, each once.
LEMMA SelectKeeps ==
  ASSUME CommandInv, request \in Requests, Select
  PROVE  CommandInv'
<1>1. /\ pc = "select" /\ exit = "none" /\ TypeInv /\ LoopInv /\ TruthInv /\ HeardInv /\ SentInv
      /\ LateInv
      /\ UNCHANGED <<attempts, answer, reported, request, cancelled, mac, sent, late, fresh, heard>>
  BY DEF CommandInv, TypeInv, Select, inputs, history
<1>2. CASE request # All /\ (request = <<>> \/ ~Selects(request))
  <2>1. Ends("error")
    BY <1>2 DEF Select, Ends, Return, loopVars
  <2> QED BY <2>1, EndsKeeps
<1>3. CASE ~(request # All /\ (request = <<>> \/ ~Selects(request)))
  <2> DEFINE asked == IF request = All THEN Devices ELSE ToSet(request)
  <2>1. /\ selected' = IF request = All THEN Configured ELSE request
        /\ IF selected' = <<>> THEN pc' = "done" /\ exit' = "ok"
           ELSE pc' = "credential" /\ index' = 1 /\ exit' = exit
    BY <1>3 DEF Select, Return
  <2>2. /\ selected' \in Seq(STRING) /\ IsInjective(selected') /\ ToSet(selected') \subseteq Devices
        /\ ToSet(selected') = asked
    BY <1>3, <2>1, CommandAssumption DEF Selects, Devices
  <2>3. selected' \in Seq(Devices)
    <3>1. DOMAIN selected' = 1..Len(selected') /\ Len(selected') \in Nat
      BY <2>2
    <3>2. \A i \in 1..Len(selected') : selected'[i] \in Devices
      BY <2>2, <3>1 DEF ToSet
    <3> QED BY <2>2, <3>1, <3>2
  <2>4. selected' # <<>> => 1 \in 1..Len(selected')
    BY <2>3
  <2>5. TypeInv'
    BY <1>1, <2>1, <2>2, <2>3, <2>4 DEF TypeInv, Active, Steps
  <2>6. \A i \in 1..Len(selected') : selected'[i] \in Devices
    BY <2>3
  <2>7. LoopInv'
    BY <1>1, <2>1, <2>6 DEF LoopInv, Active
  <2>8. TruthInv' /\ VerifyInv'
    BY <1>1, <2>1 DEF TruthInv, UnlockedIsTrue, VerifyInv, Judging
  <2>9. HeardInv'
    BY <1>1 DEF HeardInv
  <2>10. SentInv'
    <3>1. pc' = "credential" => device' \in Devices
      BY <2>1, <2>4, <2>6 DEF device
    <3> QED BY <1>1, <2>1, <3>1, CommandAssumption DEF SentInv, Active
  <2>11. ExitInv'
    <3>1. exit' = "ok" => asked = {}
      BY <1>1, <2>1, <2>2 DEF ToSet
    <3>2. asked = (IF request' = All THEN Devices ELSE ToSet(request'))
      BY <1>1
    <3>3. exit' # "failed"
      BY <1>1, <2>1
    <3>4. ExitIsHonest'
      BY <3>1, <3>2, <3>3 DEF ExitIsHonest
    <3> QED BY <2>2, <3>2, <3>4 DEF ExitInv
  <2>12. LateInv'
    BY <1>1, <2>1 DEF LateInv
  <2> QED BY <2>5, <2>7, <2>8, <2>9, <2>10, <2>11, <2>12 DEF CommandInv
<1> QED BY <1>2, <1>3

\* Unlock goes on only with a context that has not ended.
LEMMA AttemptKeeps ==
  ASSUME CommandInv, Attempt
  PROVE  CommandInv'
<1> USE DEF CommandInv, inputs, history
<1>1. CASE cancelled
  <2>1. Return("cancelled") /\ UNCHANGED <<loopVars, inputs, cancelled, mac, sent, late, fresh>>
    BY <1>1 DEF Attempt, loopVars
  <2> QED BY <2>1, ReturnKeeps
<1>2. CASE ~cancelled
  <2>1. /\ pc = "attempt" /\ pc' = "unlocking" /\ attempts' = attempts + 1
        /\ UNCHANGED <<selected, index, answer, windowOver, reported, request, cancelled, exit, mac,
                       sent, late, fresh, heard>>
        /\ ~begun'
    BY <1>2 DEF Attempt
  <2>2. /\ Active /\ Active' /\ ~Judging /\ ~Judging' /\ device' = device
    BY <2>1 DEF Active, Judging, device
  <2>3. attempts \in Nat /\ attempts < MaxAttempts /\ sent[device] \in Nat /\ sent[device] <= attempts
    BY <2>1, <2>2, DeviceKnown DEF SentInv, TypeInv
  <2>4. TypeInv'
    BY <2>1, <2>2, <2>3, CommandAssumption DEF TypeInv, Steps
  <2>5. LoopInv' /\ VerifyInv'
    BY <2>1, <2>2 DEF LoopInv, VerifyInv
  <2>6. TruthInv'
    BY <2>1, <2>2 DEF TruthInv, UnlockedIsTrue
  <2>7. HeardInv'
    BY <2>1, <2>2 DEF HeardInv
  <2>8. SentInv'
    BY <2>1, <2>2, <2>3 DEF SentInv
  <2>9. ExitInv'
    BY <2>1, <2>2 DEF ExitInv, ExitIsHonest
  <2>10. LateInv'
    BY <1>2, <2>1 DEF LateInv
  <2> QED BY <2>4, <2>5, <2>6, <2>7, <2>8, <2>9, <2>10
<1> QED BY <1>1, <1>2

\* What AnalyzePrompt may do to the counters and to the Mac.
LEMMA PromptEffects ==
  ASSUME TypeInv, Active, LateInv, SentInv, pc = "unlocking", NEW a \in UnlockAnswers,
         AnalyzePrompt(a)
  PROVE  /\ \/ sent' = sent /\ late' = late
            \/ /\ sent' = [sent EXCEPT ![device] = @ + 1]
               /\ late' = IF cancelled THEN late + 1 ELSE late
         /\ fresh' = fresh
         /\ mac' \in [Devices -> {"locked", "booting", "booted"}]
         /\ \A d \in Devices : mac[d] # "locked" => mac'[d] # "locked"
         /\ a \in {"unlocked", "unlocked-recently"} => mac'[device] # "locked"
<1>1. device \in Devices
  BY DeviceKnown
<1>2. CASE a \in Unsent(device) /\ UNCHANGED <<mac, sent, late, fresh>>
  <2>1. a \in {"unlocked", "unlocked-recently"} => mac[device] = "booted"
    BY <1>2 DEF Unsent, Unheard
  <2> QED BY <1>2, <2>1 DEF TypeInv
<1>3. CASE a \in Lost(device) /\ Submitted /\ UNCHANGED mac
  <2>1. a \notin {"unlocked", "unlocked-recently"}
    BY <1>3 DEF Lost
  <2> QED BY <1>3, <2>1 DEF TypeInv, Submitted, LateInv
<1>4. CASE /\ a \in Taken(device) /\ Submitted
           /\ mac' = [mac EXCEPT ![device] = IF @ = "locked" THEN "booting" ELSE @]
  BY <1>1, <1>4 DEF TypeInv, Submitted, LateInv
<1> QED BY <1>2, <1>3, <1>4 DEF AnalyzePrompt

\* An attempt submits at most one password; after a cancellation it is the
\* only one, and an acknowledgement comes from a Mac that is unlocked.
LEMMA PromptKeeps ==
  ASSUME CommandInv, NEW a \in UnlockAnswers, AnalyzePrompt(a)
  PROVE  CommandInv'
<1> USE DEF CommandInv
<1>1. /\ pc = "unlocking" /\ pc' = "answered" /\ answer' = a /\ Heard(a)
      /\ UNCHANGED <<selected, index, attempts, reported, request, cancelled, exit>>
  BY DEF AnalyzePrompt, inputs
<1>2. Active /\ Active' /\ ~Judging /\ Judging' /\ device' = device
  BY <1>1 DEF Active, Judging, device
<1>3. device \in Devices /\ reported[device] = "none"
  BY <1>2, DeviceKnown DEF LoopInv, device
<1>4. /\ \/ sent' = sent /\ late' = late
         \/ /\ sent' = [sent EXCEPT ![device] = @ + 1]
            /\ late' = IF cancelled THEN late + 1 ELSE late
      /\ fresh' = fresh
      /\ mac' \in [Devices -> {"locked", "booting", "booted"}]
      /\ \A d \in Devices : mac[d] # "locked" => mac'[d] # "locked"
      /\ a \in {"unlocked", "unlocked-recently"} => mac'[device] # "locked"
  BY <1>1, <1>2, PromptEffects
<1>5. /\ sent' \in [Devices -> Nat] /\ sent'[device] <= sent[device] + 1
      /\ \A d \in Devices : d # device => sent'[d] = sent[d]
  <2>1. sent \in [Devices -> Nat] /\ sent[device] \in Nat
    BY <1>3 DEF TypeInv
  <2>2. sent' = sent \/ sent' = [sent EXCEPT ![device] = @ + 1]
    BY <1>4
  <2> QED BY <1>3, <2>1, <2>2
<1>6. TypeInv'
  BY <1>1, <1>2, <1>4, <1>5 DEF TypeInv, Steps
<1>7. LoopInv' /\ VerifyInv'
  BY <1>1, <1>2 DEF LoopInv, VerifyInv
<1>8. TruthInv'
  BY <1>1, <1>2, <1>4 DEF TruthInv, UnlockedIsTrue
<1>9. HeardInv'
  <2> SUFFICES ASSUME NEW h \in heard'
               PROVE  /\ h[1] \in Devices
                      /\ reported'[h[1]] # "none" \/ (h[1] = device' /\ answer' \in Final)
                      /\ h[2] = "host-key-mismatch" => answer' = "host-key-mismatch"
    BY <1>1, <1>2 DEF HeardInv
  <2>1. h \in heard \/ (a \in Final /\ h = <<device, a>>)
    BY <1>1 DEF Heard
  <2>2. CASE h \in heard
    BY <1>1, <1>2, <2>2 DEF HeardInv
  <2>3. CASE a \in Final /\ h = <<device, a>>
    BY <1>1, <1>2, <1>3, <2>3
  <2> QED BY <2>1, <2>2, <2>3
<1>10. SentInv'
  <2>1. sent[device] < attempts /\ sent[device] \in Nat /\ attempts \in Nat
    BY <1>1, <1>2, <1>3 DEF SentInv, TypeInv
  <2>2. sent'[device] <= attempts /\ sent'[device] \in Nat
    BY <1>3, <1>5, <2>1
  <2>3. \A d \in Devices : reported[d] = "none" /\ d # device => sent'[d] = 0
    BY <1>2, <1>5 DEF SentInv
  <2> QED BY <1>1, <1>2, <2>2, <2>3 DEF SentInv
<1>11. ExitInv'
  BY <1>1, <1>2 DEF ExitInv, ExitIsHonest
<1>12. LateInv'
  <2>1. late = 0
    BY <1>1 DEF LateInv
  <2>2. late' = late \/ (cancelled /\ late' = late + 1)
    BY <1>4
  <2>3. late' \in {0, 1} /\ (late' = 1 => cancelled)
    BY <2>1, <2>2
  <2> QED BY <1>1, <1>4, <2>3 DEF LateInv
<1> QED BY <1>6, <1>7, <1>8, <1>9, <1>10, <1>11, <1>12

\* The switch on the answer.
LEMMA AnsweredKeeps ==
  ASSUME CommandInv, Answered
  PROVE  CommandInv'
<1>1. pc = "answered" /\ heard' = heard /\ Active /\ Judging
  BY DEF Answered, Active, Judging
<1>2. CASE answer \in Unknown /\ cancelled
  BY <1>2, EndsKeeps DEF Answered
<1>3. CASE ~(answer \in Unknown /\ cancelled)
  <2>1. CASE answer = "host-key-mismatch"
    <3>1. Ends("host-key")
      BY <1>3, <2>1 DEF Answered
    <3> QED BY <3>1, EndsKeeps
  <2>2. CASE answer = "unlocked-recently" \/ (answer = "unlocked" /\ ~verify)
    <3>1. Report("unlocked")
      BY <1>3, <2>2 DEF Answered
    <3>2. mac[device] # "locked"
      BY <1>1, <2>2 DEF CommandInv, TruthInv
    <3> QED BY <1>1, <2>2, <3>1, <3>2, NothingHeard, ReportKeeps DEF Outcomes
  <2>3. CASE answer = "auth-failed"
    <3>1. Report("incorrect")
      BY <1>3, <2>3 DEF Answered
    <3> QED BY <1>1, <2>3, <3>1, NothingHeard, ReportKeeps DEF Outcomes
  <2>4. CASE answer \in {"unlocked", "outcome-unknown"} /\ verify
    <3>1. Goes("verify")
      BY <1>3, <2>4 DEF Answered
    <3> QED BY <1>1, <2>4, <3>1, GoesKeeps DEF Steps
  <2>5. CASE /\ answer \notin {"host-key-mismatch", "unlocked-recently", "auth-failed", "unlocked"}
             /\ ~(answer = "outcome-unknown" /\ verify)
    <3>1. Retry
      BY <1>3, <2>5 DEF Answered
    <3>2. answer \notin Final
      BY <2>5 DEF Final
    <3>3. CASE attempts < MaxAttempts /\ Goes("wait")
      BY <1>1, <3>2, <3>3, GoesKeeps DEF Steps
    <3>4. CASE Report("exhausted")
      BY <1>1, <2>5, <3>4, NothingHeard, ReportKeeps DEF Outcomes
    <3> QED BY <3>1, <3>3, <3>4 DEF Retry
  <2> QED BY <2>1, <2>2, <2>3, <2>4, <2>5
<1> QED BY <1>2, <1>3

\* A probe of the verification, and what follows from it.
LEMMA ProbeKeeps ==
  ASSUME CommandInv, NEW a \in ProbeAnswers, ProbeStatus(a)
  PROVE  CommandInv'
<1>1. pc = "probe" /\ Heard(a) /\ Active /\ Judging
  BY DEF ProbeStatus, Active, Judging
<1>2. CASE a = "unlocked-recently"
  <2>1. Verified("booted")
    BY <1>2 DEF ProbeStatus, Unheard
  <2>2. mac[device] = "booted"
    BY <1>2 DEF ProbeStatus, Unheard
  <2>3. heard' = heard \cup {<<device, a>>}
    BY <1>1, <1>2 DEF Heard, Final
  <2>4. HeardFromDevice
    BY <1>2, <2>3 DEF HeardFromDevice
  <2> QED BY <1>1, <2>1, <2>2, <2>4, VerifiedKeeps
<1>3. CASE a = "host-key-mismatch"
  <2>1. Verified("host-key-mismatch")
    BY <1>3 DEF ProbeStatus, Unheard
  <2> QED BY <1>1, <2>1, VerifiedKeeps
<1>4. CASE a \notin {"unlocked-recently", "host-key-mismatch"}
  <2>1. heard' = heard
    BY <1>1, <1>4 DEF Heard, Final, ProbeAnswers, Unheard
  <2>2. CASE a = "indeterminate"
    <3>1. Verified("indeterminate")
      BY <2>2 DEF ProbeStatus, Unheard
    <3> QED BY <1>1, <2>1, <3>1, NothingHeard, VerifiedKeeps
  <2>3. CASE a # "indeterminate"
    <3>1. Verified("cancelled") \/ Verified("unconfirmed") \/ Goes("interval")
      BY <1>4, <2>3 DEF ProbeStatus, ProbeAnswers, Unheard
    <3>2. CASE Goes("interval")
      BY <1>1, <2>1, <3>2, GoesKeeps DEF Steps, CommandInv, VerifyInv
    <3> QED BY <1>1, <2>1, <3>1, <3>2, NothingHeard, VerifiedKeeps
  <2> QED BY <2>2, <2>3
<1> QED BY <1>2, <1>3, <1>4

\* The request stays the one the command was given.
LEMMA RequestKept == Spec => [](request \in Requests)
<1>1. Init => request \in Requests
  BY DEF Init
<1>2. request \in Requests /\ [Next]_vars => (request \in Requests)'
  BY DEF Next, Step, vars, loopVars, inputs, Select, SetupFails, CredentialFound,
         CredentialMissing, PasswordTyped, Attempt, AnalyzePrompt, Answered, DelayPasses,
         WaitCancelled, VerifyBegins, VerifyWaits, ProbeStatus, WindowEnds, Cancel, MacBoots,
         Report, Goes, Ends, Retry, Verified
<1> QED BY <1>1, <1>2, PTL DEF Spec

\* Every step of the command, of the user and of the Macs keeps the invariant.
LEMMA CommandInvariant == Spec => []CommandInv
<1>1. Init => CommandInv
  <2> SUFFICES ASSUME Init PROVE CommandInv
    OBVIOUS
  <2> USE DEF Init
  <2>1. ~Active /\ ~Judging /\ pc = "select"
    BY DEF Active, Judging
  <2>2. TypeInv
    <3>1. selected \in Seq(Devices) /\ IsInjective(selected)
      BY DEF IsInjective
    <3> QED BY <2>1, <3>1, CommandAssumption DEF TypeInv, Steps
  <2>3. LoopInv /\ TruthInv /\ VerifyInv /\ HeardInv /\ SentInv /\ LateInv
    BY <2>1 DEF LoopInv, TruthInv, UnlockedIsTrue, VerifyInv, HeardInv, SentInv, LateInv
  <2>4. ExitInv
    BY <2>1 DEF ExitInv, ExitIsHonest
  <2> QED BY <2>2, <2>3, <2>4 DEF CommandInv
<1>2. CommandInv /\ request \in Requests /\ [Next]_vars => CommandInv'
  <2> SUFFICES ASSUME CommandInv, request \in Requests, [Next]_vars PROVE CommandInv'
    OBVIOUS
  <2>1. CASE Select
    BY <2>1, SelectKeeps
  <2>2. CASE SetupFails
    BY <2>2, EndsKeeps DEF SetupFails
  <2>3. CASE CredentialFound
    <3>1. Active /\ ~Judging /\ pc # "unlocking"
      BY <2>3 DEF CredentialFound, Active, Judging
    <3>2. attempts < MaxAttempts
      BY <2>3, <3>1, CommandAssumption DEF CredentialFound, CommandInv, SentInv
    <3> QED BY <2>3, <3>1, <3>2, GoesKeeps DEF CredentialFound, Steps
  <2>4. CASE CredentialMissing
    <3>1. Active /\ ~Judging /\ pc = "credential" /\ attempts = 0 /\ heard' = heard
      BY <2>4 DEF CredentialMissing, Active, Judging, CommandInv, SentInv
    <3>2. CASE Report("skipped")
      BY <3>1, <3>2, NothingHeard, ReportKeeps DEF Outcomes
    <3>3. CASE Goes("prompt")
      BY <3>1, <3>3, GoesKeeps DEF Steps
    <3>4. CASE Ends("error")
      BY <3>4, EndsKeeps
    <3> QED BY <2>4, <3>2, <3>3, <3>4 DEF CredentialMissing
  <2>5. ASSUME NEW ok \in BOOLEAN, PasswordTyped(ok) PROVE CommandInv'
    <3>1. Active /\ ~Judging /\ pc = "prompt" /\ heard' = heard
      BY <2>5 DEF PasswordTyped, Active, Judging
    <3>2. attempts < MaxAttempts
      BY <3>1, CommandAssumption DEF CommandInv, SentInv
    <3>3. CASE Goes("attempt")
      BY <3>1, <3>2, <3>3, GoesKeeps DEF Steps
    <3>4. CASE Ends("error")
      BY <3>4, EndsKeeps
    <3> QED BY <2>5, <3>3, <3>4 DEF PasswordTyped
  <2>6. CASE Attempt
    BY <2>6, AttemptKeeps
  <2>7. ASSUME NEW a \in UnlockAnswers, AnalyzePrompt(a) PROVE CommandInv'
    BY <2>7, PromptKeeps
  <2>8. CASE Answered
    BY <2>8, AnsweredKeeps
  <2>9. CASE DelayPasses
    <3>1. Active /\ ~Judging /\ pc # "unlocking"
      BY <2>9 DEF DelayPasses, Active, Judging
    <3>2. attempts < MaxAttempts
      BY <2>9, <3>1 DEF DelayPasses, CommandInv, SentInv
    <3> QED BY <2>9, <3>1, <3>2, GoesKeeps DEF DelayPasses, Steps
  <2>10. CASE WaitCancelled
    BY <2>10, EndsKeeps DEF WaitCancelled
  <2>11. CASE VerifyBegins
    <3>1. CASE cancelled
      BY <2>11, <3>1, NothingHeard, VerifiedKeeps DEF VerifyBegins
    <3>2. CASE ~cancelled
      <4>1. /\ pc = "verify" /\ pc' \in {"grace", "probe"}
            /\ UNCHANGED <<selected, index, attempts, answer, reported, request, cancelled, exit,
                           mac, sent, late, fresh, heard>>
        BY <2>11, <3>2 DEF VerifyBegins, inputs, history
      <4> QED BY <4>1 DEF CommandInv, TypeInv, LoopInv, TruthInv, UnlockedIsTrue, VerifyInv, HeardInv,
                          SentInv, ExitInv, ExitIsHonest, LateInv, Active, Judging, Steps, device
    <3> QED BY <3>1, <3>2
  <2>12. CASE VerifyWaits
    <3>1. pc \in {"grace", "interval"} /\ heard' = heard /\ Active /\ Judging
      BY <2>12 DEF VerifyWaits, Active, Judging
    <3>2. CASE Goes("probe")
      BY <3>1, <3>2, GoesKeeps DEF Steps, CommandInv, VerifyInv
    <3>3. CASE \E v \in {"cancelled", "unconfirmed"} : Verified(v)
      BY <3>1, <3>3, NothingHeard, VerifiedKeeps
    <3> QED BY <2>12, <3>2, <3>3 DEF VerifyWaits
  <2>13. ASSUME NEW a \in ProbeAnswers, ProbeStatus(a) PROVE CommandInv'
    BY <2>13, ProbeKeeps
  <2>14. CASE WindowEnds \/ UNCHANGED vars
    <3>1. UNCHANGED <<pc, selected, index, attempts, answer, reported, request, cancelled, exit, mac,
                      sent, begun, late, fresh, heard>>
      BY <2>14 DEF WindowEnds, vars, loopVars, inputs, history
    <3> QED BY <3>1 DEF CommandInv, TypeInv, LoopInv, TruthInv, UnlockedIsTrue, VerifyInv, HeardInv,
                        SentInv, ExitInv, ExitIsHonest, LateInv, Active, Judging, device
  <2>15. CASE Cancel
    <3>1. UNCHANGED <<pc, selected, index, attempts, answer, reported, request, exit, mac, sent,
                      begun, late, fresh, heard>> /\ cancelled'
      BY <2>15 DEF Cancel, loopVars, inputs, history
    <3> QED BY <3>1 DEF CommandInv, TypeInv, LoopInv, TruthInv, UnlockedIsTrue, VerifyInv, HeardInv,
                        SentInv, ExitInv, ExitIsHonest, LateInv, Active, Judging, device
  <2>16. ASSUME NEW d \in Devices, MacBoots(d) PROVE CommandInv'
    <3>1. UNCHANGED <<pc, selected, index, attempts, answer, reported, request, cancelled, exit, sent,
                      begun, late, fresh, heard>>
      BY <2>16 DEF MacBoots, loopVars, inputs, history
    <3>2. /\ mac' \in [Devices -> {"locked", "booting", "booted"}]
          /\ \A e \in Devices : mac[e] # "locked" => mac'[e] # "locked"
      BY <2>16 DEF MacBoots, CommandInv, TypeInv
    <3>3. TruthInv'
      <4>1. Judging => device \in Devices
        BY DeviceKnown DEF CommandInv, Judging, Active
      <4> QED BY <3>1, <3>2, <4>1 DEF CommandInv, TruthInv, UnlockedIsTrue, Judging, device
    <3>4. TypeInv'
      BY <3>1, <3>2 DEF CommandInv, TypeInv, Active
    <3> QED BY <3>1, <3>3, <3>4
            DEF CommandInv, LoopInv, VerifyInv, HeardInv, SentInv, ExitInv, ExitIsHonest, LateInv,
                Active, Judging, device
  <2> QED BY <2>1, <2>2, <2>3, <2>4, <2>5, <2>6, <2>7, <2>8, <2>9, <2>10, <2>11, <2>12, <2>13,
             <2>14, <2>15, <2>16
          DEF Next, Step
<1> QED BY <1>1, <1>2, RequestKept, PTL DEF Spec

-----------------------------------------------------------------------------
(* What the command promises *)

\* A device is reported unlocked only when its Mac took the password or was
\* booted, whatever is lost, late or interrupted.
THEOREM UnlockedReportsAreTrue == Spec => []UnlockedIsTrue
<1>1. CommandInv => UnlockedIsTrue
  BY DEF CommandInv, TruthInv
<1> QED BY <1>1, CommandInvariant, PTL

\* The exit status says whether every device asked for is unlocked.
THEOREM ExitStatusIsHonest == Spec => []ExitIsHonest
<1>1. CommandInv => ExitIsHonest
  BY DEF CommandInv, ExitInv
<1> QED BY <1>1, CommandInvariant, PTL

\* After an interruption only the submission of the attempt that was under way
\* still happens; none happens in an attempt that began later.
THEOREM CancelIsFinal == Spec => []NothingNewAfterCancel
<1>1. CommandInv => NothingNewAfterCancel
  BY DEF CommandInv, LateInv, NothingNewAfterCancel
<1> QED BY <1>1, CommandInvariant, PTL

\* Only AnalyzePrompt submits, and only to the current device.
LEMMA SubmissionStep ==
  ASSUME CommandInv, [Next]_vars, NEW d \in Devices, sent'[d] # sent[d]
  PROVE  /\ pc = "unlocking" /\ d = device
         /\ sent'[d] = sent[d] + 1
<1>1. PICK a \in UnlockAnswers : AnalyzePrompt(a)
  BY DEF Next, Step, vars, history, Select, SetupFails, CredentialFound,
         CredentialMissing, PasswordTyped, Attempt, Answered, DelayPasses,
         WaitCancelled, VerifyBegins, VerifyWaits, ProbeStatus, WindowEnds, Cancel, MacBoots,
         Report, Goes, Ends, Retry, Verified
<1>2. pc = "unlocking" /\ Active
  BY <1>1 DEF AnalyzePrompt, Active
<1>3. sent' = [sent EXCEPT ![device] = @ + 1]
  BY <1>1 DEF AnalyzePrompt, Submitted
<1> QED BY <1>2, <1>3 DEF CommandInv, TypeInv

\* No device gets a password again after a final answer, none gets more than
\* the configured attempts, and none gets any after a host key mismatch.
THEOREM NoSecretIsRepeated == Spec => NoSecretAfterAnswer
<1>1. CommandInv /\ [Next]_vars =>
        \A d \in Devices : sent'[d] # sent[d] =>
          /\ reported[d] = "none"
          /\ \A h \in heard : h[1] # d /\ h[2] # "host-key-mismatch"
          /\ sent'[d] <= MaxAttempts
  <2> SUFFICES ASSUME CommandInv, [Next]_vars, NEW d \in Devices, sent'[d] # sent[d]
               PROVE  /\ reported[d] = "none"
                      /\ \A h \in heard : h[1] # d /\ h[2] # "host-key-mismatch"
                      /\ sent'[d] <= MaxAttempts
    OBVIOUS
  <2>1. pc = "unlocking" /\ d = device /\ sent'[d] = sent[d] + 1 /\ Active /\ ~Judging
    BY SubmissionStep DEF Active, Judging
  <2>2. reported[d] = "none"
    BY <2>1, DeviceKnown DEF CommandInv, LoopInv, device
  <2>3. \A h \in heard : h[1] # d /\ h[2] # "host-key-mismatch"
    BY <2>1, <2>2 DEF CommandInv, HeardInv
  <2>4. sent[d] \in Nat /\ sent[d] < attempts /\ attempts \in Nat /\ attempts <= MaxAttempts
    BY <2>1 DEF CommandInv, SentInv, TypeInv
  <2>5. sent'[d] <= MaxAttempts
    BY <2>1, <2>4, CommandAssumption
  <2> QED BY <2>2, <2>3, <2>5
<1> QED BY <1>1, CommandInvariant, PTL DEF Spec, NoSecretAfterAnswer
=============================================================================
