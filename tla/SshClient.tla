------------------------------ MODULE SshClient ------------------------------
(***************************************************************************)
(* One SSH operation against a Mac: ProbeStatus, or AnalyzePrompt with the *)
(* FileVault password (pkg/fvcore/ssh_analyzer.go), and the report that    *)
(* the daemon's adapter makes of it (cmd/fv-ssh-unlock/daemon.go).         *)
(*                                                                         *)
(* Three goroutines take part: the handshake with its callbacks, the one   *)
(* that closes the connection when the context ends, and, while a password *)
(* is at stake, watchSSHServiceTransition.  The server is not trusted: it  *)
(* may send any message in any order, fall silent, or vanish.              *)
(*                                                                         *)
(* Texts the server sends are cut into the fragments that the matching of  *)
(* banners distinguishes; out and postAuth are sequences of them.  A       *)
(* caller-supplied success message is matched like the built-in one and    *)
(* left out.                                                               *)
(***************************************************************************)
EXTENDS Naturals, Sequences, Unlocker

CONSTANT MaxTexts  \* bound on the texts the server sends

ASSUME ClientAssumption == MaxTexts \in Nat

VARIABLES
    op,          \* the operation: "unlock" is AnalyzePrompt, "probe" ProbeStatus
    pc,          \* where the operation is
    err,         \* the error the handshake ends with
    out,         \* authTrace.banner
    postAuth,    \* authTrace.postAuth
    prompted,    \* authTrace.passwordPrompted
    answered,    \* authTrace.passwordAnswered
    success,     \* authTrace.successAfterAuth
    transition,  \* authTrace.transportTransitionObserved
    ctxDone,     \* the context of the operation has ended
    watch,       \* where watchSSHServiceTransition is
    baseline,    \* its baselineReachable
    failures,    \* its failures
    result,      \* what AnalyzePrompt or ProbeStatus returns
    report,      \* what daemonAdapter.Unlock or Probe makes of it
    (***********************************************************************)
    (* History variables.                                                  *)
    (***********************************************************************)
    hostKey,     \* the verdict on the last host key presented
    secrets,     \* how many times the password was handed to the server
    responses,   \* the texts received outside questions
    answeredAt   \* how many of them there were when the password was answered

traceVars   == <<out, postAuth, prompted, answered, success>>
watchVars   == <<watch, baseline, failures>>
historyVars == <<hostKey, secrets, responses, answeredAt>>
vars        == <<op, pc, err, traceVars, transition, ctxDone, watchVars,
                 result, report, historyVars>>

-----------------------------------------------------------------------------
\* clientConfig's answerPassword: AnalyzePrompt sets it, ProbeStatus does not.
AnswerPassword == op = "unlock"

(* Texts *)

\* The explanation of a locked Mac is known by "system is locked"; the success
\* banner is "system" and "successfully unlocked", which may arrive in two
\* messages.
Texts == {"system-is-locked", "success-head", "success-tail", "other"}

successSeen(s) == \E i \in 1..(Len(s) - 1) : s[i] = "success-head" /\ s[i + 1] = "success-tail"

lockedSeen(s) == \E i \in 1..Len(s) : s[i] = "system-is-locked"

transitionProbeFailures == 2

-----------------------------------------------------------------------------
Errors == {"none", "refused", "timeout", "ctx", "host-key", "auth", "closed"}

\* What the two operations return: a status, or the error that decides.
Results == {"unlocked", "unlocked-recently", "locked", "outcome-unknown",
            "auth-failed", "host-key-mismatch", "indeterminate", "dial-error", "error"}

ProbeReports == {"locked", "booted", "indeterminate", "host-key", "unreachable", "transient"}

TypeOK ==
    /\ op \in {"unlock", "probe"}
    /\ pc \in {"start", "dial", "key-exchange", "auth", "failed", "returned", "done"}
    /\ err \in Errors
    /\ out \in Seq(Texts) /\ Len(out) <= MaxTexts
    /\ postAuth \in Seq(Texts) /\ Len(postAuth) <= Len(out)
    /\ prompted \in BOOLEAN /\ answered \in BOOLEAN /\ success \in BOOLEAN
    /\ transition \in BOOLEAN /\ ctxDone \in BOOLEAN
    /\ watch \in {"off", "baseline", "waiting", "ticking", "probing", "stopped"}
    /\ baseline \in BOOLEAN /\ failures \in 0..transitionProbeFailures
    /\ result \in Results \cup {"none"}
    /\ report \in UnlockOutcomes \cup ProbeReports \cup {"none"}
    /\ hostKey \in {"unseen", "trusted", "untrusted"}
    /\ secrets \in Nat /\ responses \in Seq(Texts) /\ answeredAt \in 0..MaxTexts

Init ==
    /\ op \in {"unlock", "probe"}
    /\ pc = "start" /\ err = "none"
    /\ out = <<>> /\ postAuth = <<>>
    /\ prompted = FALSE /\ answered = FALSE /\ success = FALSE
    /\ transition = FALSE /\ ctxDone = FALSE
    /\ watch = "off" /\ baseline = FALSE /\ failures = 0
    /\ result = "none" /\ report = "none"
    /\ hostKey = "unseen" /\ secrets = 0 /\ responses = <<>> /\ answeredAt = 0

-----------------------------------------------------------------------------
(* The adapter before the operation *)

\* The device is not configured.  daemonAdapter.Unlock also gives up when the
\* credential cannot be had, and fvcore.Unlock when the context has ended;
\* daemonAdapter.Probe when the endpoint was down before and still is.
GiveUp(o) ==
    /\ pc = "start"
    /\ \/ o = "transient"
       \/ AnswerPassword /\ o = "credential"
       \/ o = "unreachable" /\ (AnswerPassword => ctxDone)
    /\ pc' = "done"
    /\ report' = o
    /\ UNCHANGED <<op, err, traceVars, transition, ctxDone, watchVars, result, historyVars>>

Begin ==
    /\ pc = "start"
    /\ AnswerPassword => ~ctxDone
    /\ pc' = "dial"
    /\ UNCHANGED <<op, err, traceVars, transition, ctxDone, watchVars, result, report,
                   historyVars>>

-----------------------------------------------------------------------------
(* The handshake *)

\* NewClientConn returns an error.
Fail(e) == pc' = "failed" /\ err' = e

\* DialContext fails; handshake returns its error without looking at the
\* context again.
DialFails(e) ==
    /\ pc = "dial"
    /\ e \in {"refused", "timeout", "closed"} \/ (e = "ctx" /\ ctxDone)
    /\ pc' = "returned" /\ err' = e
    /\ UNCHANGED <<op, traceVars, transition, ctxDone, watchVars, result, report,
                   historyVars>>

Dial ==
    /\ pc = "dial"
    /\ pc' = "key-exchange"
    /\ watch' = IF AnswerPassword THEN "baseline" ELSE "off"
    /\ UNCHANGED <<op, err, traceVars, transition, ctxDone, baseline, failures, result, report,
                   historyVars>>

\* The server presents its key and HostKeyCallback decides, in the first key
\* exchange and in any later one.
KeyExchange(key) ==
    /\ pc \in {"key-exchange", "auth"}
    /\ hostKey' = key
    /\ IF key = "trusted" THEN pc' = "auth" /\ UNCHANGED err ELSE Fail("host-key")
    /\ UNCHANGED <<op, traceVars, transition, ctxDone, watchVars, result, report,
                   secrets, responses, answeredAt>>

Hearing == pc = "auth" /\ Len(out) < MaxTexts

\* Faulty variant: a text before the password counts as a response.
ServerTextEager(t) ==
    LET after == Append(postAuth, t)
        won   == answered /\ successSeen(after)
    IN  /\ Hearing
        /\ out' = Append(out, t)
        /\ postAuth' = after
        /\ success' = won
        /\ IF won THEN Fail("auth") ELSE UNCHANGED <<pc, err>>
        /\ responses' = Append(responses, t)
        /\ UNCHANGED <<op, prompted, answered, transition, ctxDone, watchVars, result,
                       report, hostKey, secrets, answeredAt>>

\* A banner, or a keyboard-interactive request without a question:
\* recordResponseText, and authentication stops at the success banner.
ServerText(t) ==
    LET after == IF answered THEN Append(postAuth, t) ELSE postAuth
        won   == success \/ (answered /\ successSeen(after))
    IN  /\ Hearing
        /\ out' = Append(out, t)
        /\ postAuth' = after
        /\ success' = won
        /\ IF won THEN Fail("auth") ELSE UNCHANGED <<pc, err>>
        /\ responses' = Append(responses, t)
        /\ UNCHANGED <<op, prompted, answered, transition, ctxDone, watchVars, result,
                       report, hostKey, secrets, answeredAt>>

\* Faulty variant: every password question is answered, in a probe too.
ServerAskAnswered(question, t) ==
    LET fits == question = "password"
    IN  /\ Hearing
        /\ out' = Append(out, t)
        /\ prompted' = (prompted \/ fits)
        /\ answered' = (answered \/ fits)
        /\ secrets' = IF fits THEN secrets + 1 ELSE secrets
        /\ answeredAt' = IF fits THEN Len(responses) ELSE answeredAt
        /\ IF fits THEN UNCHANGED <<pc, err>> ELSE Fail("auth")
        /\ UNCHANGED <<op, postAuth, success, transition, ctxDone, watchVars, result,
                       report, hostKey, responses>>

\* A request with a question.  Only one hidden "Password:" question is ever
\* answered, and only once; the text beside a question is never a response.
ServerAsk(question, t) ==
    LET fits == question = "password" /\ ~prompted
    IN  /\ Hearing
        /\ out' = Append(out, t)
        /\ prompted' = (prompted \/ fits)
        /\ answered' = (answered \/ (fits /\ AnswerPassword))
        /\ secrets' = IF fits /\ AnswerPassword THEN secrets + 1 ELSE secrets
        /\ answeredAt' = IF fits THEN Len(responses) ELSE answeredAt
        /\ IF fits /\ AnswerPassword THEN UNCHANGED <<pc, err>> ELSE Fail("auth")
        /\ UNCHANGED <<op, postAuth, success, transition, ctxDone, watchVars, result,
                       report, hostKey, responses>>

\* The server refuses authentication.
ServerRefuses ==
    /\ pc = "auth"
    /\ Fail("auth")
    /\ UNCHANGED <<op, traceVars, transition, ctxDone, watchVars, result, report,
                   historyVars>>

\* The handshake completes: AnalyzePrompt and ProbeStatus return.
ServerAccepts ==
    /\ pc = "auth"
    /\ pc' = "done"
    /\ result' = IF success THEN "unlocked" ELSE "unlocked-recently"
    /\ report' = IF AnswerPassword THEN "accepted" ELSE "booted"
    /\ UNCHANGED <<op, err, traceVars, transition, ctxDone, watchVars, historyVars>>

\* Faulty variant: the deadline is set after the key exchange.
ConnectionEndsLate(e) ==
    /\ pc = "auth"
    /\ e \in {"closed", "timeout"}
    /\ Fail(e)
    /\ UNCHANGED <<op, traceVars, transition, ctxDone, watchVars, result, report, historyVars>>

\* The server ends the connection, one of the other goroutines has closed it
\* (packets read before that may still be handled first), or its deadline
\* passes.
ConnectionEnds(e) ==
    /\ pc \in {"key-exchange", "auth"}
    /\ e \in {"closed", "timeout"}
    /\ Fail(e)
    /\ UNCHANGED <<op, traceVars, transition, ctxDone, watchVars, result, report,
                   historyVars>>

\* handshake returns: an ended context replaces every error, and the deferred
\* calls cancel the watcher.
HandshakeReturns ==
    /\ pc = "failed"
    /\ pc' = "returned"
    /\ err' = IF ctxDone THEN "ctx" ELSE err
    /\ UNCHANGED <<op, traceVars, transition, ctxDone, watchVars, result, report, historyVars>>

-----------------------------------------------------------------------------
(* Classification: the first condition that holds decides *)

dialError(e) == e \in {"refused", "timeout", "ctx"}

\* Faulty variant: a transport error is one, submitted or not.
classifyTransportFirst ==
    IF err = "host-key" THEN "host-key-mismatch"
    ELSE IF success THEN "unlocked"
    ELSE IF answered /\ transition THEN "outcome-unknown"
    ELSE IF dialError(err) THEN "dial-error"
    ELSE IF prompted THEN "auth-failed"
    ELSE "error"

classifyHandshakeErr ==
    IF err = "host-key" THEN "host-key-mismatch"
    ELSE IF success THEN "unlocked"
    ELSE IF answered /\ (transition \/ dialError(err)) THEN "outcome-unknown"
    ELSE IF dialError(err) THEN "dial-error"
    ELSE IF prompted THEN "auth-failed"
    ELSE "error"

classifyProbeErr ==
    IF err = "host-key" THEN "host-key-mismatch"
    ELSE IF lockedSeen(out) THEN "locked"
    ELSE IF dialError(err) THEN "dial-error"
    ELSE IF prompted THEN "indeterminate"
    ELSE "error"

\* The switch of daemonAdapter.Unlock.
UnlockReport(r) ==
    CASE r \in {"unlocked", "unlocked-recently", "outcome-unknown"} -> "accepted"
      [] r \in {"locked", "auth-failed"}                            -> "credential"
      [] r = "host-key-mismatch"                                    -> "host-key"
      [] OTHER                                                      -> "unreachable"

\* The switch of daemonAdapter.Probe.
ProbeReport(r) ==
    CASE r = "locked"            -> "locked"
      [] r = "unlocked-recently" -> "booted"
      [] r = "indeterminate"     -> "indeterminate"
      [] r = "host-key-mismatch" -> "host-key"
      [] OTHER                   -> "unreachable"

Classify ==
    /\ pc = "returned"
    /\ pc' = "done"
    /\ result' = IF AnswerPassword THEN classifyHandshakeErr ELSE classifyProbeErr
    /\ report' = IF AnswerPassword THEN UnlockReport(result') ELSE ProbeReport(result')
    /\ UNCHANGED <<op, err, traceVars, transition, ctxDone, watchVars, historyVars>>

-----------------------------------------------------------------------------
(* The other goroutines *)

ContextEnds ==
    /\ ~ctxDone /\ pc # "done"
    /\ ctxDone' = TRUE
    /\ UNCHANGED <<op, pc, err, traceVars, transition, watchVars, result, report,
                   historyVars>>

\* transitionCtx has ended: with the context, or when handshake returned.
WatchCancelled == ctxDone \/ pc \in {"returned", "done"}

WatchStep(from, to) ==
    /\ watch = from
    /\ watch' = to
    /\ UNCHANGED <<op, pc, err, traceVars, ctxDone, result, report, historyVars>>

\* The connection that establishes the baseline; it fails when cancelled.
WatchBaseline(up) ==
    /\ WatchStep("baseline", "waiting")
    /\ up => ~WatchCancelled
    /\ baseline' = up
    /\ UNCHANGED <<failures, transition>>

WatchAnswered ==
    /\ answered
    /\ WatchStep("waiting", "ticking")
    /\ UNCHANGED <<baseline, failures, transition>>

WatchStops ==
    /\ WatchCancelled
    /\ WatchStep("waiting", "stopped") \/ WatchStep("ticking", "stopped")
    /\ UNCHANGED <<baseline, failures, transition>>

WatchTicks ==
    /\ WatchStep("ticking", "probing")
    /\ UNCHANGED <<baseline, failures, transition>>

\* A fresh connection ends: it fails when cancelled.  The second failure in
\* a row marks the transition and closes the connection of the handshake.
WatchProbed(up) ==
    LET count == IF up THEN 0 ELSE IF baseline THEN failures + 1 ELSE failures
        down  == count >= transitionProbeFailures
    IN  /\ WatchStep("probing", IF down THEN "stopped" ELSE "ticking")
        /\ up => ~WatchCancelled
        /\ failures' = count
        /\ baseline' = (baseline \/ up)
        /\ transition' = (transition \/ down)

-----------------------------------------------------------------------------
MainStep ==
    \/ \E o \in UnlockOutcomes : GiveUp(o)
    \/ Begin
    \/ \E e \in Errors : DialFails(e) \/ ConnectionEnds(e)
    \/ Dial
    \/ \E key \in {"trusted", "untrusted"} : KeyExchange(key)
    \/ \E t \in Texts : ServerText(t) \/ \E q \in {"password", "other"} : ServerAsk(q, t)
    \/ ServerRefuses
    \/ ServerAccepts
    \/ HandshakeReturns
    \/ Classify

WatcherStep ==
    \/ \E up \in BOOLEAN : WatchBaseline(up) \/ WatchProbed(up)
    \/ WatchAnswered
    \/ WatchStops
    \/ WatchTicks

Next == MainStep \/ ContextEnds \/ WatcherStep

Spec == Init /\ [][Next]_vars

\* The dial has a timeout and the connection a deadline, which cover every
\* wait of the main goroutine; the server owes nothing.
Fairness ==
    /\ WF_vars(Begin \/ \E o \in UnlockOutcomes : GiveUp(o))
    /\ WF_vars(\E e \in Errors : DialFails(e))
    /\ WF_vars(ConnectionEnds("timeout"))
    /\ WF_vars(HandshakeReturns)
    /\ WF_vars(Classify)

FairSpec == Spec /\ Fairness

-----------------------------------------------------------------------------
(* Properties *)

\* The adapter keeps the contract the engine relies on: the call submits at
\* most one credential, and a call that submitted one never reports a
\* failure that would earn the lock episode another attempt, whatever the
\* server, the timeouts and the watcher do; a probe submits nothing.
Contract == INSTANCE UnlockContract
    WITH phase  <- IF AnswerPassword /\ pc = "done" THEN "returned"
                   ELSE IF answered THEN "submitted" ELSE "calling",
         report <- IF AnswerPassword THEN report ELSE "none"

KeepsContract == Contract!Spec

\* The password leaves once at most, never in a probe, and only while the
\* last host key presented on this connection was a trusted one.
PasswordReleasedOnce ==
    [][secrets' # secrets =>
          AnswerPassword /\ secrets = 0 /\ secrets' = 1 /\ hostKey = "trusted"]_vars

\* The whole success banner was received after the password was answered.
SuccessHeard ==
    answered /\ \E i \in (answeredAt + 1)..(Len(responses) - 1) :
                   responses[i] = "success-head" /\ responses[i + 1] = "success-tail"

\* AnalyzePrompt returns StatusUnlocked exactly when the success banner came
\* after the password: no text before it, or beside a question, forges it,
\* and no timeout, cancellation or lost connection after it hides it.
UnlockedIffSuccessHeard ==
    (AnswerPassword /\ pc = "done") => (result = "unlocked" <=> SuccessHeard)

\* Every operation returns, however silent the server is.
OperationReturns == <>(pc = "done")

\* "a changed host key is fatal (possible MITM) and must never be retried
\* past" (isHostKeyError in ssh_analyzer.go): the engine must be told.
HostKeyFailureReported == (pc = "done" /\ hostKey = "untrusted") => report = "host-key"
=============================================================================
