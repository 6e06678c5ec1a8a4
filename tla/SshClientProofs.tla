--------------------------- MODULE SshClientProofs ---------------------------
(***************************************************************************)
(* The daemon's unlocker implements the contract the monitor engine relies *)
(* on, for any server and any number of texts it sends.                    *)
(***************************************************************************)
EXTENDS SshClient, TLAPS

\* A password is answered only where it was asked for, after the dial, and
\* nothing is reported before the operation is over.
TraceInv ==
    /\ answered \in BOOLEAN
    /\ answered => prompted /\ AnswerPassword
    /\ pc \in {"start", "dial"} => ~answered
    /\ pc # "done" => report = "none"

\* Init establishes it and every step preserves it.
LEMMA TraceInvariant == Spec => []TraceInv
<1>1. Init => TraceInv
  BY DEF Init, TraceInv
<1>2. TraceInv /\ [Next]_vars => TraceInv'
  <2> SUFFICES ASSUME TraceInv, [Next]_vars PROVE TraceInv'
    OBVIOUS
  <2> USE ClientAssumption DEF TraceInv, AnswerPassword, traceVars, watchVars, historyVars
  <2>1. ASSUME NEW o \in UnlockOutcomes, GiveUp(o) PROVE TraceInv'
    BY <2>1 DEF GiveUp
  <2>2. CASE Begin
    BY <2>2 DEF Begin
  <2>3. ASSUME NEW e \in Errors, DialFails(e) \/ ConnectionEnds(e) PROVE TraceInv'
    <3>1. CASE DialFails(e)
      BY <3>1 DEF DialFails
    <3>2. CASE ConnectionEnds(e)
      BY <3>2 DEF ConnectionEnds, Fail
    <3> QED BY <2>3, <3>1, <3>2
  <2>4. CASE Dial
    BY <2>4 DEF Dial
  <2>5. ASSUME NEW key \in {"trusted", "untrusted"}, KeyExchange(key) PROVE TraceInv'
    BY <2>5 DEF KeyExchange, Fail
  <2>6. ASSUME NEW t \in Texts, ServerText(t) PROVE TraceInv'
    BY <2>6 DEF ServerText, Hearing, Fail
  <2>7. ASSUME NEW t \in Texts, NEW q \in {"password", "other"}, ServerAsk(q, t)
        PROVE  TraceInv'
    BY <2>7 DEF ServerAsk, Hearing, Fail
  <2>8. CASE ServerRefuses \/ ServerAccepts
    <3>1. CASE ServerRefuses
      BY <3>1 DEF ServerRefuses, Fail
    <3>2. CASE ServerAccepts
      BY <3>2 DEF ServerAccepts
    <3> QED BY <2>8, <3>1, <3>2
  <2>9. CASE HandshakeReturns \/ Classify
    <3>1. CASE HandshakeReturns
      BY <3>1 DEF HandshakeReturns
    <3>2. CASE Classify
      BY <3>2 DEF Classify
    <3> QED BY <2>9, <3>1, <3>2
  <2>10. CASE ContextEnds
    BY <2>10 DEF ContextEnds
  <2>11. CASE WatcherStep
    BY <2>11 DEF WatcherStep, WatchBaseline, WatchProbed, WatchAnswered, WatchStops,
                 WatchTicks, WatchStep
  <2>12. CASE UNCHANGED vars
    BY <2>12 DEF vars
  <2> QED BY <2>1, <2>2, <2>3, <2>4, <2>5, <2>6, <2>7, <2>8, <2>9, <2>10, <2>11, <2>12
          DEF Next, MainStep
<1> QED BY <1>1, <1>2, PTL DEF Spec

\* What AnalyzePrompt returns once the password is out is never one of the
\* errors that the adapter reports as unreachable.
LEMMA AnsweredReport ==
  ASSUME answered, prompted
  PROVE  UnlockReport(classifyHandshakeErr) \in {"accepted", "credential", "host-key"}
<1>1. classifyHandshakeErr \in
        {"host-key-mismatch", "unlocked", "outcome-unknown", "auth-failed"}
  BY DEF classifyHandshakeErr
<1> QED BY <1>1 DEF UnlockReport

\* daemonAdapter.Unlock over AnalyzePrompt keeps the contract of
\* monitor.UnlockResult: at most one submission, and afterwards no report
\* that would earn the lock episode another attempt.
THEOREM UnlockerKeepsContract == Spec => KeepsContract
<1> DEFINE Phase  == IF AnswerPassword /\ pc = "done" THEN "returned"
                     ELSE IF answered THEN "submitted" ELSE "calling"
           Report == IF AnswerPassword THEN report ELSE "none"
<1> USE DEF Contract!UnlockOutcomes, Contract!PreSubmissionKinds
<1>1. Init => Contract!Init
  BY DEF Init, Contract!Init
<1>2. TraceInv /\ [Next]_vars => [Contract!Next]_<<Phase, Report>>
  <2> SUFFICES ASSUME TraceInv, [Next]_vars
               PROVE  Contract!Next \/ UNCHANGED <<Phase, Report>>
    BY DEF Contract!Next
  <2> USE ClientAssumption DEF TraceInv, AnswerPassword, traceVars, watchVars, historyVars
  <2>1. ASSUME NEW o \in UnlockOutcomes, GiveUp(o)
        PROVE  Contract!Report(o) \/ UNCHANGED <<Phase, Report>>
    BY <2>1 DEF GiveUp, Contract!Report, Contract!AllowedReports, UnlockOutcomes
  <2>2. CASE Begin \/ Dial
    <3>1. CASE Begin
      BY <3>1 DEF Begin
    <3>2. CASE Dial
      BY <3>2 DEF Dial
    <3> QED BY <2>2, <3>1, <3>2
  <2>3. ASSUME NEW e \in Errors, DialFails(e) \/ ConnectionEnds(e)
        PROVE  UNCHANGED <<Phase, Report>>
    <3>1. CASE DialFails(e)
      BY <3>1 DEF DialFails
    <3>2. CASE ConnectionEnds(e)
      BY <3>2 DEF ConnectionEnds, Fail
    <3> QED BY <2>3, <3>1, <3>2
  <2>4. ASSUME NEW key \in {"trusted", "untrusted"}, KeyExchange(key)
        PROVE  UNCHANGED <<Phase, Report>>
    BY <2>4 DEF KeyExchange, Fail
  <2>5. ASSUME NEW t \in Texts, ServerText(t)
        PROVE  UNCHANGED <<Phase, Report>>
    BY <2>5 DEF ServerText, Hearing, Fail
  <2>6. ASSUME NEW t \in Texts, NEW q \in {"password", "other"}, ServerAsk(q, t)
        PROVE  Contract!Submit \/ UNCHANGED <<Phase, Report>>
    BY <2>6 DEF ServerAsk, Hearing, Fail, Contract!Submit
  <2>7. CASE ServerRefuses
    BY <2>7 DEF ServerRefuses, Fail
  <2>8. CASE ServerAccepts
    <3>1. Contract!Report("accepted") \/ UNCHANGED <<Phase, Report>>
      BY <2>8 DEF ServerAccepts, Contract!Report, Contract!AllowedReports
    <3> QED BY <3>1 DEF Contract!Next
  <2>9. CASE HandshakeReturns
    BY <2>9 DEF HandshakeReturns
  <2>10. CASE Classify
    <3> SUFFICES ASSUME AnswerPassword PROVE Contract!Next
      BY <2>10 DEF Classify
    <3>1. report' = UnlockReport(classifyHandshakeErr) /\ pc = "returned" /\ pc' = "done"
         /\ op' = op
      BY <2>10 DEF Classify
    <3>2. report' \in {"accepted", "credential", "host-key", "unreachable"}
      BY <3>1 DEF UnlockReport
    <3>3. answered => report' \in {"accepted", "credential", "host-key"}
      BY <3>1, AnsweredReport
    <3>4. Contract!Report(report')
      BY <3>1, <3>2, <3>3 DEF Contract!Report, Contract!AllowedReports
    <3>5. report' \in Contract!UnlockOutcomes
      BY <3>2
    <3> QED BY <3>4, <3>5 DEF Contract!Next
  <2>11. CASE ContextEnds
    BY <2>11 DEF ContextEnds
  <2>12. CASE WatcherStep
    BY <2>12 DEF WatcherStep, WatchBaseline, WatchProbed, WatchAnswered, WatchStops,
                 WatchTicks, WatchStep
  <2>13. CASE UNCHANGED vars
    BY <2>13 DEF vars
  <2> QED BY <2>1, <2>2, <2>3, <2>4, <2>5, <2>6, <2>7, <2>8, <2>9, <2>10, <2>11, <2>12,
             <2>13 DEF Next, MainStep, Contract!Next, UnlockOutcomes
<1> QED BY <1>1, <1>2, TraceInvariant, PTL DEF Spec, KeepsContract, Contract!Spec

\* A password is out exactly when it was answered, and authentication goes on
\* only under a trusted key.
SecretInv ==
    /\ TraceInv
    /\ secrets = IF answered THEN 1 ELSE 0
    /\ pc = "auth" => hostKey = "trusted"

\* Whatever the server asks, and however often, the password is handed over
\* once at most, never in a probe, and only under the key that was trusted
\* last.
THEOREM PasswordIsReleasedOnce == Spec => PasswordReleasedOnce
<1>1. Init => SecretInv
  BY DEF Init, SecretInv, TraceInv
<1>2. SecretInv /\ TraceInv' /\ [Next]_vars => SecretInv'
  <2> SUFFICES ASSUME SecretInv, TraceInv', [Next]_vars PROVE SecretInv'
    OBVIOUS
  <2> USE ClientAssumption DEF SecretInv, TraceInv, AnswerPassword, traceVars, watchVars, historyVars
  <2>1. ASSUME NEW o \in UnlockOutcomes, GiveUp(o) PROVE SecretInv'
    BY <2>1 DEF GiveUp
  <2>2. CASE Begin
    BY <2>2 DEF Begin
  <2>3. ASSUME NEW e \in Errors, DialFails(e) PROVE SecretInv'
    BY <2>3 DEF DialFails
  <2>4. ASSUME NEW e \in Errors, ConnectionEnds(e) PROVE SecretInv'
    BY <2>4 DEF ConnectionEnds, Fail
  <2>5. CASE Dial
    BY <2>5 DEF Dial
  <2>6. ASSUME NEW key \in {"trusted", "untrusted"}, KeyExchange(key) PROVE SecretInv'
    BY <2>6 DEF KeyExchange, Fail
  <2>7. ASSUME NEW t \in Texts, ServerText(t) PROVE SecretInv'
    BY <2>7 DEF ServerText, Hearing, Fail
  <2>8. ASSUME NEW t \in Texts, NEW q \in {"password", "other"}, ServerAsk(q, t)
        PROVE  SecretInv'
    <3>1. pc = "auth" /\ hostKey' = hostKey /\ pc' \in {"auth", "failed"}
      BY <2>8 DEF ServerAsk, Hearing, Fail
    <3>2. CASE q = "password" /\ ~prompted /\ op = "unlock"
      <4>1. ~answered
        BY <3>2
      <4>2. answered' /\ secrets' = secrets + 1
        BY <2>8, <3>2 DEF ServerAsk
      <4> QED BY <3>1, <4>1, <4>2
    <3>3. CASE ~(q = "password" /\ ~prompted /\ op = "unlock")
      <4>1. secrets' = secrets
        BY <2>8, <3>3 DEF ServerAsk
      <4>2. answered' <=> answered
        BY <2>8, <3>3 DEF ServerAsk
      <4> QED BY <3>1, <4>1, <4>2
    <3> QED BY <3>2, <3>3
  <2>9. CASE ServerRefuses
    BY <2>9 DEF ServerRefuses, Fail
  <2>10. CASE ServerAccepts
    BY <2>10 DEF ServerAccepts
  <2>11. CASE HandshakeReturns
    BY <2>11 DEF HandshakeReturns
  <2>12. CASE Classify
    BY <2>12 DEF Classify
  <2>13. CASE ContextEnds
    BY <2>13 DEF ContextEnds
  <2>14. CASE WatcherStep
    BY <2>14 DEF WatcherStep, WatchBaseline, WatchProbed, WatchAnswered, WatchStops,
                 WatchTicks, WatchStep
  <2>15. CASE UNCHANGED vars
    BY <2>15 DEF vars
  <2> QED BY <2>1, <2>2, <2>3, <2>4, <2>5, <2>6, <2>7, <2>8, <2>9, <2>10, <2>11, <2>12,
             <2>13, <2>14, <2>15 DEF Next, MainStep
<1>3. SecretInv /\ [Next]_vars =>
        (secrets' # secrets => AnswerPassword /\ secrets = 0 /\ secrets' = 1 /\ hostKey = "trusted")
  <2> SUFFICES ASSUME SecretInv, [Next]_vars, secrets' # secrets
               PROVE  AnswerPassword /\ secrets = 0 /\ secrets' = 1 /\ hostKey = "trusted"
    OBVIOUS
  <2>1. PICK t \in Texts, q \in {"password", "other"} : ServerAsk(q, t)
    BY DEF Next, MainStep, WatcherStep, vars, historyVars, GiveUp, Begin, DialFails,
           ConnectionEnds, Dial, KeyExchange, ServerText, ServerRefuses, ServerAccepts,
           HandshakeReturns, Classify, ContextEnds, WatchBaseline, WatchProbed, WatchAnswered,
           WatchStops, WatchTicks, WatchStep
  <2> QED BY <2>1 DEF ServerAsk, Hearing, SecretInv, TraceInv, AnswerPassword
<1> QED BY <1>1, <1>2, <1>3, TraceInvariant, PTL DEF Spec, PasswordReleasedOnce

-----------------------------------------------------------------------------
(* Types *)

OperationType ==
    /\ op \in {"unlock", "probe"}
    /\ pc \in {"start", "dial", "key-exchange", "auth", "failed", "returned", "done"}
    /\ err \in Errors
    /\ result \in Results \cup {"none"}
    /\ report \in UnlockOutcomes \cup ProbeReports \cup {"none"}
    /\ hostKey \in {"unseen", "trusted", "untrusted"}

\* Steps of the other goroutines.
LEMMA OperationUntouched ==
  ASSUME OperationType, UNCHANGED <<op, pc, err, result, report, hostKey>>
  PROVE  OperationType'
BY DEF OperationType

\* The operation ends with a known result, and its adapter with a known report.
LEMMA OperationTyped == Spec => []OperationType
<1> USE ClientAssumption DEF OperationType, Errors, Results, ProbeReports, UnlockOutcomes, traceVars, watchVars, historyVars
<1>1. Init => OperationType
  BY DEF Init
<1>2. OperationType /\ [Next]_vars => OperationType'
  <2> SUFFICES ASSUME OperationType, [Next]_vars PROVE OperationType'
    OBVIOUS
  <2>1. ASSUME NEW o \in UnlockOutcomes, GiveUp(o) PROVE OperationType'
    BY <2>1 DEF GiveUp
  <2>2. CASE Begin
    BY <2>2 DEF Begin
  <2>3. ASSUME NEW e \in Errors, DialFails(e) PROVE OperationType'
    BY <2>3 DEF DialFails
  <2>4. ASSUME NEW e \in Errors, ConnectionEnds(e) PROVE OperationType'
    BY <2>4 DEF ConnectionEnds, Fail
  <2>5. CASE Dial
    BY <2>5 DEF Dial
  <2>6. ASSUME NEW key \in {"trusted", "untrusted"}, KeyExchange(key) PROVE OperationType'
    BY <2>6 DEF KeyExchange, Fail
  <2>7. ASSUME NEW t \in Texts, ServerText(t) PROVE OperationType'
    BY <2>7 DEF ServerText, Hearing, Fail
  <2>8. ASSUME NEW t \in Texts, NEW q \in {"password", "other"}, ServerAsk(q, t) PROVE OperationType'
    BY <2>8 DEF ServerAsk, Hearing, Fail
  <2>9. CASE ServerRefuses
    BY <2>9 DEF ServerRefuses, Fail
  <2>10. CASE ServerAccepts
    BY <2>10 DEF ServerAccepts
  <2>11. CASE HandshakeReturns
    BY <2>11 DEF HandshakeReturns
  <2>12. CASE Classify
    BY <2>12 DEF Classify, classifyHandshakeErr, classifyProbeErr, UnlockReport, ProbeReport
  <2>13. CASE ContextEnds
    BY <2>13, OperationUntouched DEF ContextEnds
  <2>14. ASSUME NEW up \in BOOLEAN, WatchBaseline(up) PROVE OperationType'
    BY <2>14, OperationUntouched DEF WatchBaseline, WatchStep
  <2>15. ASSUME NEW up \in BOOLEAN, WatchProbed(up) PROVE OperationType'
    BY <2>15, OperationUntouched DEF WatchProbed, WatchStep
  <2>16. CASE WatchAnswered \/ WatchStops \/ WatchTicks
    BY <2>16, OperationUntouched DEF WatchAnswered, WatchStops, WatchTicks, WatchStep
  <2>17. CASE UNCHANGED vars
    BY <2>17, OperationUntouched DEF vars
  <2> QED BY <2>1, <2>2, <2>3, <2>4, <2>5, <2>6, <2>7, <2>8, <2>9,
             <2>10, <2>11, <2>12, <2>13, <2>14, <2>15, <2>16, <2>17
          DEF Next, MainStep, WatcherStep
<1> QED BY <1>1, <1>2, PTL DEF Spec

TextType ==
    /\ out \in Seq(Texts) /\ Len(out) <= MaxTexts
    /\ postAuth \in Seq(Texts) /\ Len(postAuth) <= Len(out)
    /\ responses \in Seq(Texts) /\ Len(responses) <= Len(out)
    /\ answeredAt \in 0..MaxTexts
    /\ secrets \in Nat

\* What was heard after the password is part of what was heard.
LEMMA TextTyped == Spec => []TextType
<1> USE ClientAssumption DEF TextType, traceVars, watchVars, historyVars
<1>1. Init => TextType
  BY DEF Init
<1>2. TextType /\ [Next]_vars => TextType'
  <2> SUFFICES ASSUME TextType, [Next]_vars PROVE TextType'
    OBVIOUS
  <2>1. ASSUME NEW o \in UnlockOutcomes, GiveUp(o) PROVE TextType'
    BY <2>1 DEF GiveUp
  <2>2. CASE Begin
    BY <2>2 DEF Begin
  <2>3. ASSUME NEW e \in Errors, DialFails(e) PROVE TextType'
    BY <2>3 DEF DialFails
  <2>4. ASSUME NEW e \in Errors, ConnectionEnds(e) PROVE TextType'
    BY <2>4 DEF ConnectionEnds, Fail
  <2>5. CASE Dial
    BY <2>5 DEF Dial
  <2>6. ASSUME NEW key \in {"trusted", "untrusted"}, KeyExchange(key) PROVE TextType'
    BY <2>6 DEF KeyExchange, Fail
  <2>7. ASSUME NEW t \in Texts, ServerText(t) PROVE TextType'
    BY <2>7 DEF ServerText, Hearing, Fail
  <2>8. ASSUME NEW t \in Texts, NEW q \in {"password", "other"}, ServerAsk(q, t) PROVE TextType'
    BY <2>8 DEF ServerAsk, Hearing, Fail
  <2>9. CASE ServerRefuses
    BY <2>9 DEF ServerRefuses, Fail
  <2>10. CASE ServerAccepts
    BY <2>10 DEF ServerAccepts
  <2>11. CASE HandshakeReturns
    BY <2>11 DEF HandshakeReturns
  <2>12. CASE Classify
    BY <2>12 DEF Classify, classifyHandshakeErr, classifyProbeErr, UnlockReport, ProbeReport
  <2>13. CASE ContextEnds
    BY <2>13 DEF ContextEnds
  <2>14. ASSUME NEW up \in BOOLEAN, WatchBaseline(up) PROVE TextType'
    BY <2>14 DEF WatchBaseline, WatchStep
  <2>15. ASSUME NEW up \in BOOLEAN, WatchProbed(up) PROVE TextType'
    BY <2>15 DEF WatchProbed, WatchStep
  <2>16. CASE WatchAnswered \/ WatchStops \/ WatchTicks
    BY <2>16 DEF WatchAnswered, WatchStops, WatchTicks, WatchStep
  <2>17. CASE UNCHANGED vars
    BY <2>17 DEF vars
  <2> QED BY <2>1, <2>2, <2>3, <2>4, <2>5, <2>6, <2>7, <2>8, <2>9,
             <2>10, <2>11, <2>12, <2>13, <2>14, <2>15, <2>16, <2>17
          DEF Next, MainStep, WatcherStep
<1> QED BY <1>1, <1>2, PTL DEF Spec

FlagType ==
    /\ prompted \in BOOLEAN /\ answered \in BOOLEAN /\ success \in BOOLEAN
    /\ transition \in BOOLEAN /\ ctxDone \in BOOLEAN

\* The flags of the trace stay Booleans.
LEMMA FlagTyped == Spec => []FlagType
<1> USE ClientAssumption DEF FlagType, traceVars, watchVars, historyVars
<1>1. Init => FlagType
  BY DEF Init
<1>2. FlagType /\ [Next]_vars => FlagType'
  <2> SUFFICES ASSUME FlagType, [Next]_vars PROVE FlagType'
    OBVIOUS
  <2>1. ASSUME NEW o \in UnlockOutcomes, GiveUp(o) PROVE FlagType'
    BY <2>1 DEF GiveUp
  <2>2. CASE Begin
    BY <2>2 DEF Begin
  <2>3. ASSUME NEW e \in Errors, DialFails(e) PROVE FlagType'
    BY <2>3 DEF DialFails
  <2>4. ASSUME NEW e \in Errors, ConnectionEnds(e) PROVE FlagType'
    BY <2>4 DEF ConnectionEnds, Fail
  <2>5. CASE Dial
    BY <2>5 DEF Dial
  <2>6. ASSUME NEW key \in {"trusted", "untrusted"}, KeyExchange(key) PROVE FlagType'
    BY <2>6 DEF KeyExchange, Fail
  <2>7. ASSUME NEW t \in Texts, ServerText(t) PROVE FlagType'
    BY <2>7 DEF ServerText, Hearing, Fail
  <2>8. ASSUME NEW t \in Texts, NEW q \in {"password", "other"}, ServerAsk(q, t) PROVE FlagType'
    BY <2>8 DEF ServerAsk, Hearing, Fail
  <2>9. CASE ServerRefuses
    BY <2>9 DEF ServerRefuses, Fail
  <2>10. CASE ServerAccepts
    BY <2>10 DEF ServerAccepts
  <2>11. CASE HandshakeReturns
    BY <2>11 DEF HandshakeReturns
  <2>12. CASE Classify
    BY <2>12 DEF Classify, classifyHandshakeErr, classifyProbeErr, UnlockReport, ProbeReport
  <2>13. CASE ContextEnds
    BY <2>13 DEF ContextEnds
  <2>14. ASSUME NEW up \in BOOLEAN, WatchBaseline(up) PROVE FlagType'
    BY <2>14 DEF WatchBaseline, WatchStep
  <2>15. ASSUME NEW up \in BOOLEAN, WatchProbed(up) PROVE FlagType'
    BY <2>15 DEF WatchProbed, WatchStep
  <2>16. CASE WatchAnswered \/ WatchStops \/ WatchTicks
    BY <2>16 DEF WatchAnswered, WatchStops, WatchTicks, WatchStep
  <2>17. CASE UNCHANGED vars
    BY <2>17 DEF vars
  <2> QED BY <2>1, <2>2, <2>3, <2>4, <2>5, <2>6, <2>7, <2>8, <2>9,
             <2>10, <2>11, <2>12, <2>13, <2>14, <2>15, <2>16, <2>17
          DEF Next, MainStep, WatcherStep
<1> QED BY <1>1, <1>2, PTL DEF Spec

WatchType ==
    /\ watch \in {"off", "baseline", "waiting", "ticking", "probing", "stopped"}
    /\ baseline \in BOOLEAN /\ failures \in 0..transitionProbeFailures
    /\ failures = transitionProbeFailures => watch = "stopped"
    /\ pc \in {"start", "dial"} => watch = "off"

\* The watcher stops at the second failed probe in a row.
LEMMA WatchTyped == Spec => []WatchType
<1> USE ClientAssumption DEF WatchType, transitionProbeFailures, traceVars, watchVars, historyVars
<1>1. Init => WatchType
  <2>1. Init => watch = "off" /\ failures = 0
    BY DEF Init
  <2>2. Init => baseline \in BOOLEAN
    BY DEF Init
  <2> QED BY <2>1, <2>2
<1>2. WatchType /\ [Next]_vars => WatchType'
  <2> SUFFICES ASSUME WatchType, [Next]_vars PROVE WatchType'
    OBVIOUS
  <2>1. ASSUME NEW o \in UnlockOutcomes, GiveUp(o) PROVE WatchType'
    BY <2>1 DEF GiveUp
  <2>2. CASE Begin
    BY <2>2 DEF Begin
  <2>3. ASSUME NEW e \in Errors, DialFails(e) PROVE WatchType'
    BY <2>3 DEF DialFails
  <2>4. ASSUME NEW e \in Errors, ConnectionEnds(e) PROVE WatchType'
    BY <2>4 DEF ConnectionEnds, Fail
  <2>5. CASE Dial
    BY <2>5 DEF Dial
  <2>6. ASSUME NEW key \in {"trusted", "untrusted"}, KeyExchange(key) PROVE WatchType'
    BY <2>6 DEF KeyExchange, Fail
  <2>7. ASSUME NEW t \in Texts, ServerText(t) PROVE WatchType'
    BY <2>7 DEF ServerText, Hearing, Fail
  <2>8. ASSUME NEW t \in Texts, NEW q \in {"password", "other"}, ServerAsk(q, t) PROVE WatchType'
    BY <2>8 DEF ServerAsk, Hearing, Fail
  <2>9. CASE ServerRefuses
    BY <2>9 DEF ServerRefuses, Fail
  <2>10. CASE ServerAccepts
    BY <2>10 DEF ServerAccepts
  <2>11. CASE HandshakeReturns
    BY <2>11 DEF HandshakeReturns
  <2>12. CASE Classify
    BY <2>12 DEF Classify, classifyHandshakeErr, classifyProbeErr, UnlockReport, ProbeReport
  <2>13. CASE ContextEnds
    BY <2>13 DEF ContextEnds
  <2>14. ASSUME NEW up \in BOOLEAN, WatchBaseline(up) PROVE WatchType'
    BY <2>14 DEF WatchBaseline, WatchStep
  <2>15. ASSUME NEW up \in BOOLEAN, WatchProbed(up) PROVE WatchType'
    BY <2>15 DEF WatchProbed, WatchStep
  <2>16. CASE WatchAnswered \/ WatchStops \/ WatchTicks
    BY <2>16 DEF WatchAnswered, WatchStops, WatchTicks, WatchStep
  <2>17. CASE UNCHANGED vars
    BY <2>17 DEF vars
  <2> QED BY <2>1, <2>2, <2>3, <2>4, <2>5, <2>6, <2>7, <2>8, <2>9,
             <2>10, <2>11, <2>12, <2>13, <2>14, <2>15, <2>16, <2>17
          DEF Next, MainStep, WatcherStep
<1> QED BY <1>1, <1>2, PTL DEF Spec

\* Every reachable state of an operation is well typed; in particular the
\* adapter reports nothing that the engine does not know.
THEOREM ClientTypeCorrect == Spec => []TypeOK
<1>1. OperationType /\ TextType /\ FlagType /\ WatchType => TypeOK
  BY DEF OperationType, TextType, FlagType, WatchType, TypeOK
<1> QED BY <1>1, OperationTyped, TextTyped, FlagTyped, WatchTyped, PTL

-----------------------------------------------------------------------------
(* The success banner *)

\* postAuth is what was received since the password was answered; the success
\* banner in it ends authentication at once, with an error that no later one
\* but the context's replaces.
SuccessInv ==
    /\ ~answered => postAuth = <<>>
    /\ answered => /\ answeredAt + Len(postAuth) = Len(responses)
                   /\ \A i \in 1..Len(postAuth) : postAuth[i] = responses[answeredAt + i]
    /\ success <=> successSeen(postAuth)
    /\ success => pc \in {"failed", "returned", "done"} /\ err \in {"auth", "ctx"}
    /\ pc # "done" => result = "none"
    /\ AnswerPassword /\ pc = "done" => (result = "unlocked" <=> success)

\* Steps that hear nothing and do not return: the error may change while
\* authentication is not over.
LEMMA SuccessUntouched ==
  ASSUME SuccessInv, UNCHANGED <<op, postAuth, answered, success, responses, answeredAt, result>>,
         pc # "done", pc' # "done",
         ~success \/ (UNCHANGED <<pc, err>>)
  PROVE  SuccessInv'
BY DEF SuccessInv, AnswerPassword, successSeen

\* A text after the password is added to both records, and the banner is
\* complete when postAuth says so.
LEMMA TextHeard ==
  ASSUME TextType, SuccessInv, NEW t \in Texts, ServerText(t)
  PROVE  SuccessInv'
<1>1. pc = "auth" /\ ~success
  BY DEF ServerText, Hearing, SuccessInv
<1>2. responses' = Append(responses, t) /\ UNCHANGED <<op, answered, answeredAt, result>>
  BY DEF ServerText
<1>3. CASE ~answered
  <2>1. postAuth' = <<>> /\ success' = FALSE /\ pc' = "auth" /\ postAuth = <<>>
    BY <1>1, <1>3 DEF ServerText, SuccessInv
  <2>2. ~successSeen(postAuth')
    BY <2>1 DEF successSeen
  <2> QED BY <1>1, <1>2, <1>3, <2>1, <2>2 DEF SuccessInv, AnswerPassword
<1>4. CASE answered
  <2> DEFINE won == success \/ (answered /\ successSeen(postAuth'))
  <2>0. /\ postAuth' = Append(postAuth, t) /\ success' = won
        /\ IF won THEN Fail("auth") ELSE UNCHANGED <<pc, err>>
    BY <1>4 DEF ServerText
  <2>1. /\ postAuth' = Append(postAuth, t) /\ (success' <=> successSeen(postAuth'))
        /\ success' => pc' = "failed" /\ err' = "auth"
        /\ ~success' => pc' = "auth"
    BY <1>1, <1>4, <2>0 DEF Fail
  <2>2. /\ Len(postAuth) \in Nat /\ Len(responses) \in Nat /\ answeredAt \in Nat
        /\ answeredAt + Len(postAuth) = Len(responses)
    BY <1>4 DEF SuccessInv, TextType
  <2>3. /\ Len(postAuth') = Len(postAuth) + 1 /\ Len(responses') = Len(responses) + 1
        /\ postAuth'[Len(postAuth) + 1] = t /\ responses'[Len(responses) + 1] = t
        /\ \A i \in 1..Len(postAuth) : postAuth'[i] = postAuth[i]
        /\ \A i \in 1..Len(responses) : responses'[i] = responses[i]
    BY <1>2, <2>1 DEF TextType
  <2>4. \A i \in 1..Len(postAuth') : postAuth'[i] = responses'[answeredAt + i]
    <3> SUFFICES ASSUME NEW i \in 1..Len(postAuth')
                 PROVE  postAuth'[i] = responses'[answeredAt + i]
      OBVIOUS
    <3>1. CASE i = Len(postAuth) + 1
      <4>1. answeredAt + i = Len(responses) + 1
        BY <2>2, <3>1
      <4> QED BY <2>3, <3>1, <4>1
    <3>2. CASE i # Len(postAuth) + 1
      <4>1. i \in 1..Len(postAuth) /\ answeredAt + i \in 1..Len(responses)
        BY <2>2, <2>3, <3>2
      <4>2. postAuth[i] = responses[answeredAt + i]
        BY <1>4, <4>1 DEF SuccessInv
      <4> QED BY <2>3, <4>1, <4>2
    <3> QED BY <3>1, <3>2
  <2>5. answeredAt + Len(postAuth') = Len(responses')
    BY <2>2, <2>3
  <2>6. success' => pc' \in {"failed", "returned", "done"} /\ err' \in {"auth", "ctx"}
    BY <2>1
  <2>7. pc' # "done" /\ result' = "none"
    BY <1>1, <1>2, <2>1 DEF SuccessInv
  <2> QED BY <1>2, <1>4, <2>1, <2>4, <2>5, <2>6, <2>7 DEF SuccessInv
<1> QED BY <1>3, <1>4

\* The answer to the password question starts an empty record.
LEMMA QuestionHeard ==
  ASSUME TraceInv, TextType, SuccessInv, NEW t \in Texts, NEW q \in {"password", "other"},
         ServerAsk(q, t)
  PROVE  SuccessInv'
<1>1. /\ pc = "auth" /\ ~success /\ result = "none" /\ pc' \in {"auth", "failed"}
      /\ UNCHANGED <<op, postAuth, success, responses, result>>
  BY DEF ServerAsk, Hearing, Fail, SuccessInv
<1>2. successSeen(postAuth') <=> successSeen(postAuth)
  BY <1>1
<1>3. CASE q = "password" /\ ~prompted /\ AnswerPassword
  <2>1. postAuth' = <<>> /\ answeredAt' = Len(responses)
    BY <1>1, <1>3 DEF ServerAsk, TraceInv, SuccessInv
  <2>2. Len(postAuth') = 0 /\ Len(responses) \in Nat
    BY <2>1 DEF TextType
  <2> QED BY <1>1, <1>2, <2>1, <2>2 DEF SuccessInv
<1>4. CASE ~(q = "password" /\ ~prompted /\ AnswerPassword)
  <2>1. answered' = answered /\ (answered => answeredAt' = answeredAt)
    BY <1>4 DEF ServerAsk, TraceInv
  <2> QED BY <1>1, <1>2, <2>1 DEF SuccessInv
<1> QED BY <1>3, <1>4

\* The record, the flag and the result agree.
LEMMA SuccessInvariant == Spec => []SuccessInv
<1> USE DEF traceVars, watchVars, historyVars
<1>1. Init => SuccessInv
  BY DEF Init, SuccessInv, successSeen
<1>2. TraceInv /\ TextType /\ SuccessInv /\ [Next]_vars => SuccessInv'
  <2> SUFFICES ASSUME TraceInv, TextType, SuccessInv, [Next]_vars PROVE SuccessInv'
    OBVIOUS
  <2>1. ASSUME NEW o \in UnlockOutcomes, GiveUp(o) PROVE SuccessInv'
    BY <2>1 DEF GiveUp, SuccessInv, AnswerPassword
  <2>2. CASE Begin
    BY <2>2, SuccessUntouched DEF Begin, SuccessInv
  <2>3. ASSUME NEW e \in Errors, DialFails(e) \/ ConnectionEnds(e) PROVE SuccessInv'
    BY <2>3, SuccessUntouched DEF DialFails, ConnectionEnds, Fail, SuccessInv
  <2>4. CASE Dial
    BY <2>4, SuccessUntouched DEF Dial, SuccessInv
  <2>5. ASSUME NEW key \in {"trusted", "untrusted"}, KeyExchange(key) PROVE SuccessInv'
    BY <2>5, SuccessUntouched DEF KeyExchange, Fail, SuccessInv
  <2>6. ASSUME NEW t \in Texts, ServerText(t) PROVE SuccessInv'
    BY <2>6, TextHeard
  <2>7. ASSUME NEW t \in Texts, NEW q \in {"password", "other"}, ServerAsk(q, t) PROVE SuccessInv'
    BY <2>7, QuestionHeard
  <2>8. CASE ServerRefuses
    BY <2>8, SuccessUntouched DEF ServerRefuses, Fail, SuccessInv
  <2>9. CASE ServerAccepts
    <3>1. /\ ~success /\ result' = "unlocked-recently" /\ pc' = "done"
          /\ UNCHANGED <<op, postAuth, answered, success, responses, answeredAt>>
      BY <2>9 DEF ServerAccepts, SuccessInv
    <3> QED BY <3>1 DEF SuccessInv
  <2>10. CASE HandshakeReturns
    BY <2>10 DEF HandshakeReturns, SuccessInv
  <2>11. CASE Classify
    <3>1. /\ pc' = "done" /\ result' = IF AnswerPassword THEN classifyHandshakeErr ELSE classifyProbeErr
          /\ UNCHANGED <<op, err, postAuth, answered, success, responses, answeredAt>>
      BY <2>11 DEF Classify
    <3>2. classifyHandshakeErr = "unlocked" <=> success
      BY DEF classifyHandshakeErr, SuccessInv
    <3> QED BY <3>1, <3>2 DEF SuccessInv, AnswerPassword
  <2>12. CASE ContextEnds
    BY <2>12, SuccessUntouched DEF ContextEnds
  <2>13. CASE WatcherStep
    <3>1. UNCHANGED <<op, pc, err, postAuth, answered, success, responses, answeredAt, result>>
      BY <2>13 DEF WatcherStep, WatchBaseline, WatchProbed, WatchAnswered, WatchStops, WatchTicks,
                   WatchStep
    <3> QED BY <3>1 DEF SuccessInv, AnswerPassword
  <2>14. CASE UNCHANGED vars
    BY <2>14 DEF vars, SuccessInv, AnswerPassword
  <2> QED BY <2>1, <2>2, <2>3, <2>4, <2>5, <2>6, <2>7, <2>8, <2>9, <2>10, <2>11, <2>12, <2>13,
             <2>14
          DEF Next, MainStep
<1> QED BY <1>1, <1>2, TraceInvariant, TextTyped, PTL DEF Spec

\* AnalyzePrompt answers "unlocked" exactly when the whole success banner came
\* after the password, in one text or several, for any number of texts before,
\* between and after.
THEOREM UnlockedMeansSuccess == Spec => []UnlockedIffSuccessHeard
<1>1. TextType /\ SuccessInv => UnlockedIffSuccessHeard
  <2> SUFFICES ASSUME TextType, SuccessInv PROVE success <=> SuccessHeard
    BY DEF SuccessInv, UnlockedIffSuccessHeard
  <2>1. CASE ~answered
    <3>1. Len(postAuth) = 0
      BY <2>1 DEF SuccessInv
    <3>2. ~successSeen(postAuth)
      BY <3>1 DEF successSeen
    <3> QED BY <2>1, <3>2 DEF SuccessInv, SuccessHeard
  <2>2. CASE answered
    <3>1. /\ Len(postAuth) \in Nat /\ answeredAt \in Nat /\ Len(responses) \in Nat
          /\ answeredAt + Len(postAuth) = Len(responses)
      BY <2>2 DEF SuccessInv, TextType
    <3>2. ASSUME success PROVE SuccessHeard
      <4>1. PICK i \in 1..(Len(postAuth) - 1) : postAuth[i] = "success-head" /\ postAuth[i + 1] = "success-tail"
        BY <3>2 DEF SuccessInv, successSeen
      <4> DEFINE m == Len(postAuth)
                 n == Len(responses)
      <4> HIDE DEF m, n
      <4>2. /\ i \in 1..m /\ i + 1 \in 1..m /\ answeredAt + i \in (answeredAt + 1)..(n - 1)
            /\ answeredAt + (i + 1) = (answeredAt + i) + 1
        <5>1. m \in Nat /\ n \in Nat /\ answeredAt \in Nat /\ answeredAt + m = n
          BY <3>1 DEF m, n
        <5>2. i \in 1..(m - 1)
          BY <4>1 DEF m
        <5> QED BY <5>1, <5>2
      <4> USE DEF m, n
      <4>3. postAuth[i] = responses[answeredAt + i] /\ postAuth[i + 1] = responses[answeredAt + (i + 1)]
        BY <2>2, <4>2 DEF SuccessInv
      <4> QED BY <2>2, <4>1, <4>2, <4>3 DEF SuccessHeard
    <3>3. ASSUME SuccessHeard PROVE success
      <4>1. PICK j \in (answeredAt + 1)..(Len(responses) - 1) :
                   responses[j] = "success-head" /\ responses[j + 1] = "success-tail"
        BY <3>3 DEF SuccessHeard
      <4> DEFINE i == j - answeredAt
                 m == Len(postAuth)
                 n == Len(responses)
      <4> HIDE DEF m, n
      <4>2. /\ i \in 1..(m - 1) /\ i \in 1..m /\ i + 1 \in 1..m
            /\ answeredAt + i = j /\ answeredAt + (i + 1) = j + 1
        <5>1. m \in Nat /\ n \in Nat /\ answeredAt \in Nat /\ answeredAt + m = n
          BY <3>1 DEF m, n
        <5>2. j \in (answeredAt + 1)..(n - 1)
          BY <4>1 DEF n
        <5> QED BY <5>1, <5>2
      <4> USE DEF m, n
      <4>3. postAuth[i] = responses[j] /\ postAuth[i + 1] = responses[j + 1]
        BY <2>2, <4>2 DEF SuccessInv
      <4>4. successSeen(postAuth)
        BY <4>1, <4>2, <4>3 DEF successSeen
      <4> QED BY <4>4 DEF SuccessInv
    <3> QED BY <3>2, <3>3
  <2> QED BY <2>1, <2>2
<1> QED BY <1>1, TextTyped, SuccessInvariant, PTL
=============================================================================
