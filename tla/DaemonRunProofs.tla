--------------------------- MODULE DaemonRunProofs ---------------------------
(***************************************************************************)
(* The life of the daemon, for any number of devices and requests, any     *)
(* size of the event queue and any number of restarts.                     *)
(***************************************************************************)
EXTENDS DaemonRun, SequenceTheorems, TLAPS

-----------------------------------------------------------------------------
(* The lock and the socket *)

\* runDaemon holds the lock.
Alive == {"locked", "once", "running", "shutdown", "handlers", "components", "draining",
          "closing", "releasing"}

OwnerInv ==
    /\ lock = "ours" <=> main \in Alive
    /\ lock = "theirs" <=> other # "off"
    /\ server = "serving" => main = "running"
    /\ SocketKept

\* Who holds the lock is alive or the other daemon, and only a daemon that
\* holds it serves, removes or replaces the socket.
LEMMA OwnerInvariant == Spec => []OwnerInv
<1> USE DEF OwnerInv, SocketKept, Alive, mainVars, httpVars, engineVars, eventVars, outerVars
<1>1. Init => OwnerInv
  BY DEF Init
<1>2. OwnerInv /\ [Next]_vars => OwnerInv'
  <2> SUFFICES ASSUME OwnerInv, [Next]_vars PROVE OwnerInv'
    OBVIOUS
  <2>1. CASE AcquireLock \/ Exit \/ Killed
    BY <2>1 DEF AcquireLock, Exit, Killed, Fresh
  <2>2. CASE StartFails \/ OnceReturns \/ ShutdownReturns \/ HandlersJoined
    BY <2>2 DEF StartFails, OnceReturns, ShutdownReturns, HandlersJoined, Goes
  <2>3. CASE RunOnce \/ StartComponents
    BY <2>3 DEF RunOnce, StartComponents
  <2>4. CASE ContextEnded \/ ComponentEnded
    BY <2>4 DEF ContextEnded, ComponentEnded, BeginShutdown, CloseServer
  <2>5. CASE ComponentJoined \/ StopEvents \/ JoinTimesOut \/ LogStopped
    BY <2>5 DEF ComponentJoined, StopEvents, JoinTimesOut, LogStopped
  <2>6. CASE DeferredClose \/ ReleaseLock \/ Terminate
    BY <2>6 DEF DeferredClose, ReleaseLock, Terminate
  <2>7. CASE OtherStarts \/ OtherListens \/ OtherStops
    BY <2>7 DEF OtherStarts, OtherListens, OtherStops
  <2>8. CASE ServeFails \/ ServeReturns
    BY <2>8 DEF ServeFails, ServeReturns
  <2>9. ASSUME NEW h \in Handlers, ServeHTTP(h) \/ HandlerReturns(h) PROVE OwnerInv'
    BY <2>9 DEF ServeHTTP, HandlerReturns
  <2>10. CASE DiscoveryRound \/ RoundEnds \/ DiscoveryEnds \/ RunStarts \/ RunStops \/ RunReturns
    BY <2>10 DEF DiscoveryRound, RoundEnds, DiscoveryEnds, RunStarts, RunStops, RunReturns
  <2>11. CASE Emit \/ EmitEvicts \/ EmitPuts \/ LogEvent \/ LoggerEnds
    BY <2>11 DEF Emit, EmitEvicts, EmitPuts, LogEvent, LoggerEnds
  <2>12. ASSUME NEW d \in Devices, AddDevice(d) \/ PollReturns(d) \/ TimerFires(d) \/ ScheduleEnds(d)
         PROVE  OwnerInv'
    BY <2>12 DEF AddDevice, PollReturns, TimerFires, ScheduleEnds
  <2>13. CASE UNCHANGED vars
    BY <2>13 DEF vars
  <2> QED BY <2>1, <2>2, <2>3, <2>4, <2>5, <2>6, <2>7, <2>8, <2>9, <2>10, <2>11, <2>12, <2>13
          DEF Next, MainStep, ComponentStep
<1> QED BY <1>1, <1>2, PTL DEF Spec

\* The control socket of a daemon that listens is never removed by another
\* one that is still stopping: whoever removes or replaces it holds the lock.
THEOREM SocketIsKept == Spec => []SocketKept
<1>1. OwnerInv => SocketKept
  BY DEF OwnerInv
<1> QED BY <1>1, OwnerInvariant, PTL

-----------------------------------------------------------------------------
(* The schedules *)

\* Only Run and RunOnce start schedules, and RunOnce never meets Run.
ScheduleInv ==
    /\ schedule \in [Devices -> {"none", "polling", "sleeping"}]
    /\ main \in {"exited", "locked", "once"} => run = "off"
    /\ NoScheduleAfterRun

\* Steps that start no schedule and leave Run where it is.
LEMMA ScheduleUntouched ==
  ASSUME ScheduleInv, UNCHANGED <<run, schedule>>,
         main' \in {"exited", "locked", "once"} => main \in {"exited", "locked", "once"}
  PROVE  ScheduleInv'
BY DEF ScheduleInv, NoScheduleAfterRun, Counted

\* Run returns only when no schedule is left, and none is started after that.
LEMMA ScheduleInvariant == Spec => []ScheduleInv
<1> USE DEF mainVars, httpVars, engineVars, eventVars, outerVars
<1>1. Init => ScheduleInv
  BY DEF Init, ScheduleInv, NoScheduleAfterRun, Counted
<1>2. ScheduleInv /\ [Next]_vars => ScheduleInv'
  <2> SUFFICES ASSUME ScheduleInv, [Next]_vars PROVE ScheduleInv'
    OBVIOUS
  <2>1. CASE AcquireLock \/ Exit \/ Killed
    BY <2>1 DEF AcquireLock, Exit, Killed, Fresh, ScheduleInv, NoScheduleAfterRun, Counted
  <2>2. CASE StartFails \/ OnceReturns \/ ShutdownReturns \/ HandlersJoined
    BY <2>2, ScheduleUntouched DEF StartFails, OnceReturns, ShutdownReturns, HandlersJoined, Goes
  <2>3. CASE RunOnce \/ StartComponents
    BY <2>3 DEF RunOnce, StartComponents, ScheduleInv, NoScheduleAfterRun, Counted
  <2>4. CASE ContextEnded \/ ComponentEnded \/ Terminate
    BY <2>4, ScheduleUntouched DEF ContextEnded, ComponentEnded, BeginShutdown, Terminate
  <2>5. CASE ComponentJoined \/ StopEvents \/ JoinTimesOut \/ LogStopped
    BY <2>5, ScheduleUntouched DEF ComponentJoined, StopEvents, JoinTimesOut, LogStopped
  <2>6. CASE DeferredClose \/ ReleaseLock
    BY <2>6, ScheduleUntouched DEF DeferredClose, ReleaseLock
  <2>7. CASE OtherStarts \/ OtherListens \/ OtherStops
    BY <2>7, ScheduleUntouched DEF OtherStarts, OtherListens, OtherStops
  <2>8. CASE ServeFails \/ ServeReturns
    BY <2>8, ScheduleUntouched DEF ServeFails, ServeReturns
  <2>9. ASSUME NEW h \in Handlers, ServeHTTP(h) \/ HandlerReturns(h) PROVE ScheduleInv'
    BY <2>9, ScheduleUntouched DEF ServeHTTP, HandlerReturns
  <2>10. CASE DiscoveryRound \/ RoundEnds \/ DiscoveryEnds
    BY <2>10, ScheduleUntouched DEF DiscoveryRound, RoundEnds, DiscoveryEnds
  <2>11. CASE RunStarts \/ RunStops \/ RunReturns
    BY <2>11 DEF RunStarts, RunStops, RunReturns, ScheduleInv, NoScheduleAfterRun, Counted
  <2>12. CASE Emit \/ EmitEvicts \/ EmitPuts \/ LogEvent \/ LoggerEnds
    BY <2>12, ScheduleUntouched DEF Emit, EmitEvicts, EmitPuts, LogEvent, LoggerEnds
  <2>13. ASSUME NEW d \in Devices, AddDevice(d) PROVE ScheduleInv'
    BY <2>13 DEF AddDevice, ScheduleInv, NoScheduleAfterRun, Counted
  <2>14. ASSUME NEW d \in Devices, PollReturns(d) \/ TimerFires(d) \/ ScheduleEnds(d)
         PROVE  ScheduleInv'
    BY <2>14 DEF PollReturns, TimerFires, ScheduleEnds, ScheduleInv, NoScheduleAfterRun, Counted
  <2>15. CASE UNCHANGED vars
    BY <2>15, ScheduleUntouched DEF vars
  <2> QED BY <2>1, <2>2, <2>3, <2>4, <2>5, <2>6, <2>7, <2>8, <2>9, <2>10, <2>11, <2>12, <2>13,
             <2>14, <2>15
          DEF Next, MainStep, ComponentStep
<1> QED BY <1>1, <1>2, PTL DEF Spec

\* Run never returns while a schedule is running, whatever enrollments arrive
\* while the daemon is stopping: the gate that AddDevice reads is closed before
\* Run waits.
THEOREM RunJoinsSchedules == Spec => []NoScheduleAfterRun
<1>1. ScheduleInv => NoScheduleAfterRun
  BY DEF ScheduleInv
<1> QED BY <1>1, ScheduleInvariant, PTL

-----------------------------------------------------------------------------
(* The event stream *)

\* A process that has only the lock has published nothing and can publish
\* nothing: there is no request and no schedule.
StartInv ==
    main = "locked" => /\ server = "off" /\ run = "off" /\ Working = {} /\ Counted = {}
                       /\ sequence = 0 /\ logged = 0 /\ queue = <<>> /\ emit = "idle"

\* The last event that was put into the queue, or is about to find room.
Offered == IF emit = "idle" THEN sequence ELSE sequence - 1

\* The queue holds the newest of the offered events, behind the last logged
\* one.  Between two emissions the newest is among them or was logged; during
\* one it is still to come, and there will be room for it.
QueueInv ==
    /\ sequence \in Nat /\ logged \in Nat
    /\ queue \in Seq(Nat) /\ Len(queue) <= Buffer
    /\ emit \in {"idle", "evict", "put"}
    /\ emit # "idle" => subscribed
    /\ subscribed =>
         /\ \A i \in 1..Len(queue) : queue[i] = (Offered - Len(queue)) + i
         /\ logged <= Offered - Len(queue)
         /\ emit = "idle" /\ queue = <<>> => logged = sequence
         /\ emit = "put" => Len(queue) < Buffer

\* Steps that neither emit, log nor open the subscription.
LEMMA QueueUntouched ==
  ASSUME QueueInv, UNCHANGED <<sequence, logged, queue, emit>>, UNCHANGED subscribed
  PROVE  QueueInv'
BY DEF QueueInv, Offered

\* Closing the subscription leaves the queue to be drained.
LEMMA QueueClosed ==
  ASSUME QueueInv, UNCHANGED <<sequence, logged, queue, emit>>, EngineUnlocked, subscribed' = FALSE
  PROVE  QueueInv'
BY DEF QueueInv, EngineUnlocked

\* emitLocked puts the event at the end, or finds the queue full.
LEMMA EmissionBegins ==
  ASSUME QueueInv, BeginEmit, UNCHANGED <<logged, subscribed>>
  PROVE  QueueInv'
<1> USE DaemonAssumption
<1>1. CASE ~subscribed
  BY <1>1 DEF QueueInv, BeginEmit, EngineUnlocked
<1>2. CASE subscribed /\ Len(queue) < Buffer
  <2>1. /\ sequence' = sequence + 1 /\ emit = "idle" /\ emit' = "idle"
        /\ queue' = Append(queue, sequence + 1)
    BY <1>2 DEF BeginEmit, EngineUnlocked
  <2>2. /\ Len(queue') = Len(queue) + 1 /\ queue'[Len(queue')] = sequence + 1
        /\ \A i \in 1..Len(queue) : queue'[i] = queue[i]
        /\ queue' \in Seq(Nat) /\ queue' # <<>> /\ Len(queue) \in Nat
    BY <2>1 DEF QueueInv
  <2>3. /\ Offered = sequence /\ Offered' = sequence + 1
    BY <2>1 DEF Offered
  <2>4. \A i \in 1..Len(queue') : queue'[i] = (Offered' - Len(queue')) + i
    <3> SUFFICES ASSUME NEW i \in 1..Len(queue') PROVE queue'[i] = (Offered' - Len(queue')) + i
      OBVIOUS
    <3>1. CASE i = Len(queue')
      BY <2>2, <2>3, <3>1 DEF QueueInv
    <3>2. CASE i # Len(queue')
      <4>1. i \in 1..Len(queue) /\ queue'[i] = queue[i]
        BY <2>2, <3>2
      <4>2. queue[i] = (sequence - Len(queue)) + i
        BY <1>2, <2>3, <4>1 DEF QueueInv
      <4>3. sequence \in Nat /\ i \in Int
        BY <4>1 DEF QueueInv
      <4>4. (Offered' - Len(queue')) + i = (sequence - Len(queue)) + i
        BY <2>2, <2>3, <4>3
      <4> QED BY <4>1, <4>2, <4>4
    <3> QED BY <3>1, <3>2
  <2>5. logged' <= Offered' - Len(queue')
    BY <1>2, <2>1, <2>2, <2>3 DEF QueueInv
  <2>6. Len(queue') <= Buffer
    BY <1>2, <2>2 DEF QueueInv
  <2>7. sequence' \in Nat /\ logged' \in Nat
    BY <2>1 DEF QueueInv
  <2> QED BY <2>1, <2>2, <2>4, <2>5, <2>6, <2>7 DEF QueueInv
<1>3. CASE subscribed /\ ~(Len(queue) < Buffer)
  <2>1. sequence' = sequence + 1 /\ emit = "idle" /\ emit' = "evict" /\ queue' = queue
    BY <1>3 DEF BeginEmit, EngineUnlocked
  <2>2. Offered = sequence /\ Offered' = sequence
    BY <2>1 DEF Offered, QueueInv
  <2> QED BY <1>3, <2>1, <2>2 DEF QueueInv
<1> QED BY <1>1, <1>2, <1>3

\* Taking the oldest element, by the logger or by an eviction.
LEMMA OldestTaken ==
  ASSUME QueueInv, subscribed, queue # <<>>,
         UNCHANGED <<sequence, subscribed>>, queue' = Tail(queue),
         \/ UNCHANGED emit /\ logged' = Head(queue)
         \/ emit = "evict" /\ emit' = "put" /\ logged' = logged
  PROVE  QueueInv'
<1> USE DaemonAssumption
<1>1. /\ queue' \in Seq(Nat) /\ Len(queue') = Len(queue) - 1 /\ Len(queue) \in Nat \ {0}
      /\ \A i \in 1..Len(queue') : queue'[i] = queue[i + 1]
      /\ Head(queue) = queue[1] /\ queue[1] \in Nat
  BY DEF QueueInv
<1>2. queue' = <<>> <=> Len(queue') = 0
  BY <1>1, EmptySeq
<1>3. Offered' = Offered /\ Offered \in Int /\ (emit = "idle" => Offered = sequence)
  BY DEF Offered, QueueInv
<1>4. queue[1] = (Offered - Len(queue)) + 1
  BY <1>1 DEF QueueInv
<1>5. \A i \in 1..Len(queue') : queue'[i] = (Offered' - Len(queue')) + i
  <2> SUFFICES ASSUME NEW i \in 1..Len(queue') PROVE queue'[i] = (Offered - Len(queue')) + i
    BY <1>3
  <2>1. i + 1 \in 1..Len(queue) /\ queue'[i] = queue[i + 1]
    BY <1>1
  <2>2. queue[i + 1] = (Offered - Len(queue)) + (i + 1)
    BY <2>1 DEF QueueInv
  <2> QED BY <1>1, <1>3, <2>1, <2>2
<1>6. logged' \in Nat /\ logged' <= Offered' - Len(queue')
  BY <1>1, <1>3, <1>4 DEF QueueInv
<1>7. emit' = "idle" /\ queue' = <<>> => logged' = sequence
  BY <1>1, <1>2, <1>3, <1>4 DEF QueueInv
<1>8. /\ Len(queue') <= Buffer /\ emit' \in {"idle", "evict", "put"}
      /\ emit' = "put" => Len(queue') < Buffer
  BY <1>1 DEF QueueInv
<1> QED BY <1>1, <1>5, <1>6, <1>7, <1>8 DEF QueueInv

\* An emission that found the queue full ends with the newest event in it: an
\* eviction, or a logger that was faster, has made room.
LEMMA EmissionEnds ==
  ASSUME QueueInv, EmitPuts
  PROVE  QueueInv'
<1> USE DaemonAssumption
<1>1. /\ emit = "put" /\ subscribed /\ emit' = "idle"
      /\ queue' = Append(queue, sequence) /\ UNCHANGED <<sequence, logged, subscribed>>
  BY DEF QueueInv, EmitPuts
<1>2. /\ Len(queue') = Len(queue) + 1 /\ queue'[Len(queue')] = sequence
      /\ \A i \in 1..Len(queue) : queue'[i] = queue[i]
      /\ queue' \in Seq(Nat) /\ queue' # <<>> /\ Len(queue) \in Nat
  BY <1>1 DEF QueueInv
<1>3. Offered = sequence - 1 /\ Offered' = sequence /\ sequence \in Nat
  BY <1>1 DEF Offered, QueueInv
<1>4. \A i \in 1..Len(queue') : queue'[i] = (Offered' - Len(queue')) + i
  <2> SUFFICES ASSUME NEW i \in 1..Len(queue') PROVE queue'[i] = (Offered' - Len(queue')) + i
    OBVIOUS
  <2>1. CASE i = Len(queue')
    BY <1>2, <1>3, <2>1
  <2>2. CASE i # Len(queue')
    <3>1. i \in 1..Len(queue) /\ queue'[i] = queue[i]
      BY <1>2, <2>2
    <3>2. queue[i] = (Offered - Len(queue)) + i
      BY <1>1, <3>1 DEF QueueInv
    <3> QED BY <1>2, <1>3, <3>1, <3>2
  <2> QED BY <2>1, <2>2
<1> QED BY <1>1, <1>2, <1>3, <1>4 DEF QueueInv

\* Once the subscription is closed, the queue only shrinks.
LEMMA QueueDrained ==
  ASSUME QueueInv, LogEvent, ~subscribed
  PROVE  QueueInv'
<1>1. /\ queue' \in Seq(Nat) /\ Len(queue') = Len(queue) - 1 /\ Len(queue) \in Nat
      /\ Head(queue) \in Nat
  BY DEF QueueInv, LogEvent
<1> QED BY <1>1, DaemonAssumption DEF QueueInv, LogEvent

\* The queue, the subscription and the counters agree in every state.
LEMMA EventInvariant == Spec => [](StartInv /\ QueueInv)
<1> USE DaemonAssumption DEF mainVars, httpVars, engineVars, eventVars, outerVars
<1>1. Init => StartInv /\ QueueInv
  BY DEF Init, StartInv, QueueInv, Offered
<1>2. StartInv /\ QueueInv /\ [Next]_vars => StartInv' /\ QueueInv'
  <2> SUFFICES ASSUME StartInv, QueueInv, [Next]_vars PROVE StartInv' /\ QueueInv'
    OBVIOUS
  <2>1. CASE AcquireLock \/ Exit \/ Killed
    <3>1. /\ server' = "off" /\ run' = "off" /\ sequence' = 0 /\ logged' = 0 /\ queue' = <<>>
          /\ emit' = "idle" /\ subscribed' = FALSE
          /\ handler' = [h \in Handlers |-> "idle"] /\ schedule' = [d \in Devices |-> "none"]
      BY <2>1 DEF AcquireLock, Exit, Killed, Fresh
    <3>2. Working' = {} /\ Counted' = {}
      BY <3>1 DEF Working, Counted
    <3>3. StartInv'
      BY <3>1, <3>2 DEF StartInv
    <3>4. QueueInv'
      BY <3>1 DEF QueueInv
    <3> QED BY <3>3, <3>4
  <2>2. CASE StartFails \/ OnceReturns \/ ShutdownReturns \/ HandlersJoined
    BY <2>2, QueueUntouched
       DEF StartFails, OnceReturns, ShutdownReturns, HandlersJoined, Goes, StartInv
  <2>3. CASE RunOnce
    BY <2>3, QueueUntouched DEF RunOnce, StartInv
  <2>4. CASE StartComponents
    BY <2>4 DEF StartComponents, StartInv, QueueInv, Offered
  <2>5. CASE ContextEnded \/ ComponentEnded \/ Terminate
    BY <2>5, QueueUntouched DEF ContextEnded, ComponentEnded, BeginShutdown, Terminate, StartInv
  <2>6. CASE ComponentJoined \/ JoinTimesOut \/ LogStopped \/ ReleaseLock
    BY <2>6, QueueUntouched DEF ComponentJoined, JoinTimesOut, LogStopped, ReleaseLock, StartInv
  <2>7. CASE StopEvents \/ DeferredClose
    BY <2>7, QueueClosed DEF StopEvents, DeferredClose, StartInv
  <2>8. CASE OtherStarts \/ OtherListens \/ OtherStops
    BY <2>8, QueueUntouched DEF OtherStarts, OtherListens, OtherStops, StartInv, Working, Counted
  <2>9. CASE ServeFails \/ ServeReturns
    BY <2>9, QueueUntouched DEF ServeFails, ServeReturns, StartInv
  <2>10. ASSUME NEW h \in Handlers, ServeHTTP(h) \/ HandlerReturns(h)
         PROVE  StartInv' /\ QueueInv'
    <3>1. main # "locked"
      BY <2>10 DEF ServeHTTP, HandlerReturns, StartInv, Working
    <3> QED BY <2>10, <3>1, QueueUntouched DEF ServeHTTP, HandlerReturns, StartInv
  <2>11. CASE DiscoveryRound \/ RoundEnds \/ DiscoveryEnds
    BY <2>11, QueueUntouched DEF DiscoveryRound, RoundEnds, DiscoveryEnds, StartInv, Working, Counted
  <2>12. CASE RunStarts \/ RunStops \/ RunReturns
    BY <2>12, QueueUntouched DEF RunStarts, RunStops, RunReturns, StartInv
  <2>13. ASSUME Emit \/ \E d \in Devices : AddDevice(d)
         PROVE  StartInv' /\ QueueInv'
    <3>1. main # "locked" /\ main' = main
      BY <2>13 DEF Emit, AddDevice, StartInv, Working, Polling, Counted
    <3> QED BY <2>13, <3>1, EmissionBegins DEF Emit, AddDevice, StartInv
  <2>14. CASE EmitEvicts
    <3>1. main # "locked" /\ main' = main
      BY <2>14 DEF EmitEvicts, StartInv
    <3>2. CASE queue = <<>>
      BY <2>14, <3>1, <3>2 DEF EmitEvicts, StartInv, QueueInv, Offered
    <3>3. CASE queue # <<>>
      BY <2>14, <3>1, <3>3, OldestTaken DEF EmitEvicts, StartInv, QueueInv
    <3> QED BY <3>2, <3>3
  <2>15. CASE EmitPuts
    BY <2>15, EmissionEnds DEF EmitPuts, StartInv
  <2>16. CASE LogEvent
    <3>1. main # "locked" /\ main' = main
      BY <2>16 DEF LogEvent, StartInv
    <3>2. CASE subscribed
      BY <2>16, <3>1, <3>2, OldestTaken DEF LogEvent, StartInv
    <3>3. CASE ~subscribed
      BY <2>16, <3>1, <3>3, QueueDrained DEF StartInv
    <3> QED BY <3>2, <3>3
  <2>17. CASE LoggerEnds
    BY <2>17, QueueUntouched DEF LoggerEnds, StartInv, Working, Counted
  <2>18. ASSUME NEW d \in Devices, PollReturns(d) \/ TimerFires(d) \/ ScheduleEnds(d)
         PROVE  StartInv' /\ QueueInv'
    <3>1. main # "locked" /\ main' = main
      BY <2>18 DEF PollReturns, TimerFires, ScheduleEnds, StartInv, Counted
    <3> QED BY <2>18, <3>1, QueueUntouched DEF PollReturns, TimerFires, ScheduleEnds, StartInv
  <2>19. CASE UNCHANGED vars
    BY <2>19, QueueUntouched DEF vars, StartInv, Working, Counted
  <2> QED BY <2>1, <2>2, <2>3, <2>4, <2>5, <2>6, <2>7, <2>8, <2>9, <2>10, <2>11, <2>12, <2>13,
             <2>14, <2>15, <2>16, <2>17, <2>18, <2>19
          DEF Next, MainStep, ComponentStep
<1> QED BY <1>1, <1>2, PTL DEF Spec

\* A queue of any size loses only its oldest events: between two emissions it
\* holds the newest ones without a gap, behind the last that was logged.
THEOREM NewestEventIsKept == Spec => []NewestEventKept
<1>1. QueueInv => NewestEventKept
  BY DEF QueueInv, NewestEventKept, Offered
<1> QED BY <1>1, EventInvariant, PTL

-----------------------------------------------------------------------------
(* The room in errCh *)

\* The components that have yet to answer.
Unanswered ==
    (IF server \in {"serving", "closing"} THEN 1 ELSE 0) +
    (IF discovery # "off" THEN 1 ELSE 0) +
    (IF run \in {"launched", "running", "stopping"} THEN 1 ELSE 0)

\* Of the three places of errCh one is left for each of them.
AnswerInv ==
    /\ server \in {"off", "serving", "closing", "closed", "failed"}
    /\ discovery \in {"off", "working", "waiting"}
    /\ run \in {"off", "launched", "running", "stopping", "returned"}
    /\ errCh \in Seq({"nil", "error"}) /\ completed \in 0..3
    /\ Len(errCh) + completed + Unanswered <= 3
    /\ main = "locked" => errCh = <<>> /\ completed = 0 /\ Unanswered = 0

\* A component answers once, and runDaemon takes an answer before it counts it.
LEMMA AnswerInvariant == Spec => []AnswerInv
<1> USE DaemonAssumption
    DEF AnswerInv, Unanswered, mainVars, httpVars, engineVars, eventVars, outerVars
<1>1. Init => AnswerInv
  BY DEF Init
<1>2. AnswerInv /\ [Next]_vars => AnswerInv'
  <2> SUFFICES ASSUME AnswerInv, [Next]_vars PROVE AnswerInv'
    OBVIOUS
  <2>1. CASE AcquireLock \/ Exit \/ Killed
    <3>1. CASE AcquireLock
      BY <3>1 DEF AcquireLock, Fresh
    <3>2. CASE Exit
      BY <3>2 DEF Exit, Fresh
    <3>3. CASE Killed
      BY <3>3 DEF Killed, Fresh
    <3> QED BY <2>1, <3>1, <3>2, <3>3
  <2>2. CASE StartFails \/ OnceReturns \/ ShutdownReturns \/ HandlersJoined
    BY <2>2 DEF StartFails, OnceReturns, ShutdownReturns, HandlersJoined, Goes
  <2>3. CASE RunOnce \/ StartComponents
    BY <2>3 DEF RunOnce, StartComponents
  <2>4. CASE ContextEnded \/ Terminate
    BY <2>4 DEF ContextEnded, BeginShutdown, CloseServer, Terminate
  <2>5. CASE ComponentEnded \/ ComponentJoined
    BY SMTT(30), <2>5 DEF ComponentEnded, ComponentJoined, TakeAnswer, BeginShutdown,
                     CloseServer
  <2>6. CASE StopEvents \/ JoinTimesOut \/ LogStopped \/ DeferredClose \/ ReleaseLock
    BY <2>6 DEF StopEvents, JoinTimesOut, LogStopped, DeferredClose, ReleaseLock
  <2>7. CASE OtherStarts \/ OtherListens \/ OtherStops
    BY <2>7 DEF OtherStarts, OtherListens, OtherStops
  <2>8. CASE ServeFails \/ ServeReturns
    BY <2>8 DEF ServeFails, ServeReturns
  <2>9. ASSUME NEW h \in Handlers, ServeHTTP(h) \/ HandlerReturns(h) PROVE AnswerInv'
    BY <2>9 DEF ServeHTTP, HandlerReturns
  <2>10. CASE DiscoveryRound \/ RoundEnds \/ DiscoveryEnds
    BY SMTT(30), <2>10 DEF DiscoveryRound, RoundEnds, DiscoveryEnds
  <2>11. CASE RunStarts \/ RunStops \/ RunReturns
    <3>1. CASE RunStarts \/ RunStops
      BY <3>1 DEF RunStarts, RunStops
    <3>2. CASE RunReturns
      <4>1. errCh' = Append(errCh, "nil") /\ run = "stopping" /\ run' = "returned"
            /\ UNCHANGED <<server, discovery, completed, main>>
        BY <3>2 DEF RunReturns
      <4>2. errCh' \in Seq({"nil", "error"}) /\ Len(errCh') = Len(errCh) + 1
        BY <4>1
      <4> QED BY <4>1, <4>2
    <3> QED BY <2>11, <3>1, <3>2
  <2>12. CASE Emit \/ EmitEvicts \/ EmitPuts
    BY <2>12 DEF Emit, BeginEmit, EmitEvicts, EmitPuts
  <2>13. CASE LogEvent \/ LoggerEnds
    BY <2>13 DEF LogEvent, LoggerEnds
  <2>14. ASSUME NEW d \in Devices, AddDevice(d) PROVE AnswerInv'
    BY <2>14 DEF AddDevice, BeginEmit
  <2>15. ASSUME NEW d \in Devices, PollReturns(d) \/ TimerFires(d) \/ ScheduleEnds(d)
         PROVE  AnswerInv'
    BY <2>15 DEF PollReturns, TimerFires, ScheduleEnds
  <2>16. CASE UNCHANGED vars
    BY <2>16 DEF vars
  <2> QED BY <2>1, <2>2, <2>3, <2>4, <2>5, <2>6, <2>7, <2>8, <2>9, <2>10,
             <2>11, <2>12, <2>13, <2>14, <2>15, <2>16
          DEF Next, MainStep, ComponentStep
<1> QED BY <1>1, <1>2, PTL DEF Spec

-----------------------------------------------------------------------------
(* Types *)

ProcessType ==
    /\ main \in {"exited", "locked", "once", "running", "shutdown", "handlers", "components",
                 "draining", "closing", "releasing", "returned"}
    /\ starts \in 0..MaxStarts
    /\ failure \in {"none", "component", "timeout"}
    /\ lock \in {"free", "ours", "theirs"}
    /\ socket \in {"absent", "stale", "ours", "theirs"}
    /\ other \in {"off", "locked", "listening"}

\* runDaemon, the lock, the socket and the other daemon.
LEMMA ProcessTyped == Spec => []ProcessType
<1> USE DaemonAssumption
    DEF ProcessType, mainVars, httpVars, engineVars, eventVars, outerVars
<1>1. Init => ProcessType
  BY DEF Init
<1>2. ProcessType /\ [Next]_vars => ProcessType'
  <2> SUFFICES ASSUME ProcessType, [Next]_vars PROVE ProcessType'
    OBVIOUS
  <2>1. CASE AcquireLock \/ Exit \/ Killed
    BY <2>1 DEF AcquireLock, Exit, Killed, Fresh
  <2>2. CASE StartFails \/ OnceReturns \/ ShutdownReturns \/ HandlersJoined
    BY <2>2 DEF StartFails, OnceReturns, ShutdownReturns, HandlersJoined, Goes
  <2>3. CASE RunOnce \/ StartComponents
    BY <2>3 DEF RunOnce, StartComponents
  <2>4. CASE ContextEnded \/ Terminate
    BY <2>4 DEF ContextEnded, BeginShutdown, CloseServer, Terminate
  <2>5. CASE ComponentEnded \/ ComponentJoined
    BY <2>5 DEF ComponentEnded, ComponentJoined, TakeAnswer, BeginShutdown,
                     CloseServer
  <2>6. CASE StopEvents \/ JoinTimesOut \/ LogStopped \/ DeferredClose \/ ReleaseLock
    BY <2>6 DEF StopEvents, JoinTimesOut, LogStopped, DeferredClose, ReleaseLock
  <2>7. CASE OtherStarts \/ OtherListens \/ OtherStops
    BY <2>7 DEF OtherStarts, OtherListens, OtherStops
  <2>8. CASE ServeFails \/ ServeReturns
    BY <2>8 DEF ServeFails, ServeReturns
  <2>9. ASSUME NEW h \in Handlers, ServeHTTP(h) \/ HandlerReturns(h) PROVE ProcessType'
    BY <2>9 DEF ServeHTTP, HandlerReturns
  <2>10. CASE DiscoveryRound \/ RoundEnds \/ DiscoveryEnds
    BY <2>10 DEF DiscoveryRound, RoundEnds, DiscoveryEnds
  <2>11. CASE RunStarts \/ RunStops \/ RunReturns
    BY <2>11 DEF RunStarts, RunStops, RunReturns
  <2>12. CASE Emit \/ EmitEvicts \/ EmitPuts
    BY <2>12 DEF Emit, BeginEmit, EmitEvicts, EmitPuts
  <2>13. CASE LogEvent \/ LoggerEnds
    BY <2>13 DEF LogEvent, LoggerEnds
  <2>14. ASSUME NEW d \in Devices, AddDevice(d) PROVE ProcessType'
    BY <2>14 DEF AddDevice, BeginEmit
  <2>15. ASSUME NEW d \in Devices, PollReturns(d) \/ TimerFires(d) \/ ScheduleEnds(d)
         PROVE  ProcessType'
    BY <2>15 DEF PollReturns, TimerFires, ScheduleEnds
  <2>16. CASE UNCHANGED vars
    BY <2>16 DEF vars
  <2> QED BY <2>1, <2>2, <2>3, <2>4, <2>5, <2>6, <2>7, <2>8, <2>9, <2>10,
             <2>11, <2>12, <2>13, <2>14, <2>15, <2>16
          DEF Next, MainStep, ComponentStep
<1> QED BY <1>1, <1>2, PTL DEF Spec

WorkType ==
    /\ handler \in [Handlers -> {"idle", "working"}]
    /\ devices \subseteq Devices
    /\ schedule \in [Devices -> {"none", "polling", "sleeping"}]
    /\ logger \in {"off", "reading", "ended"}

\* Requests, devices, schedules and the logger.
LEMMA WorkTyped == Spec => []WorkType
<1> USE DaemonAssumption
    DEF WorkType, mainVars, httpVars, engineVars, eventVars, outerVars
<1>1. Init => WorkType
  BY DEF Init
<1>2. WorkType /\ [Next]_vars => WorkType'
  <2> SUFFICES ASSUME WorkType, [Next]_vars PROVE WorkType'
    OBVIOUS
  <2>1. CASE AcquireLock \/ Exit \/ Killed
    BY <2>1 DEF AcquireLock, Exit, Killed, Fresh
  <2>2. CASE StartFails \/ OnceReturns \/ ShutdownReturns \/ HandlersJoined
    BY <2>2 DEF StartFails, OnceReturns, ShutdownReturns, HandlersJoined, Goes
  <2>3. CASE RunOnce \/ StartComponents
    BY <2>3 DEF RunOnce, StartComponents
  <2>4. CASE ContextEnded \/ Terminate
    BY <2>4 DEF ContextEnded, BeginShutdown, CloseServer, Terminate
  <2>5. CASE ComponentEnded \/ ComponentJoined
    BY <2>5 DEF ComponentEnded, ComponentJoined, TakeAnswer, BeginShutdown,
                     CloseServer
  <2>6. CASE StopEvents \/ JoinTimesOut \/ LogStopped \/ DeferredClose \/ ReleaseLock
    BY <2>6 DEF StopEvents, JoinTimesOut, LogStopped, DeferredClose, ReleaseLock
  <2>7. CASE OtherStarts \/ OtherListens \/ OtherStops
    BY <2>7 DEF OtherStarts, OtherListens, OtherStops
  <2>8. CASE ServeFails \/ ServeReturns
    BY <2>8 DEF ServeFails, ServeReturns
  <2>9. ASSUME NEW h \in Handlers, ServeHTTP(h) \/ HandlerReturns(h) PROVE WorkType'
    BY <2>9 DEF ServeHTTP, HandlerReturns
  <2>10. CASE DiscoveryRound \/ RoundEnds \/ DiscoveryEnds
    BY <2>10 DEF DiscoveryRound, RoundEnds, DiscoveryEnds
  <2>11. CASE RunStarts \/ RunStops \/ RunReturns
    BY <2>11 DEF RunStarts, RunStops, RunReturns
  <2>12. CASE Emit \/ EmitEvicts \/ EmitPuts
    BY <2>12 DEF Emit, BeginEmit, EmitEvicts, EmitPuts
  <2>13. CASE LogEvent \/ LoggerEnds
    BY <2>13 DEF LogEvent, LoggerEnds
  <2>14. ASSUME NEW d \in Devices, AddDevice(d) PROVE WorkType'
    BY <2>14 DEF AddDevice, BeginEmit
  <2>15. ASSUME NEW d \in Devices, PollReturns(d) \/ TimerFires(d) \/ ScheduleEnds(d)
         PROVE  WorkType'
    BY <2>15 DEF PollReturns, TimerFires, ScheduleEnds
  <2>16. CASE UNCHANGED vars
    BY <2>16 DEF vars
  <2> QED BY <2>1, <2>2, <2>3, <2>4, <2>5, <2>6, <2>7, <2>8, <2>9, <2>10,
             <2>11, <2>12, <2>13, <2>14, <2>15, <2>16
          DEF Next, MainStep, ComponentStep
<1> QED BY <1>1, <1>2, PTL DEF Spec

FlagType == stopRun \in BOOLEAN /\ accepting \in BOOLEAN /\ subscribed \in BOOLEAN /\ stoppedLog \in BOOLEAN

\* The flags stay Booleans.
LEMMA FlagTyped == Spec => []FlagType
<1> USE DaemonAssumption
    DEF FlagType, mainVars, httpVars, engineVars, eventVars, outerVars
<1>1. Init => FlagType
  BY DEF Init
<1>2. FlagType /\ [Next]_vars => FlagType'
  <2> SUFFICES ASSUME FlagType, [Next]_vars PROVE FlagType'
    OBVIOUS
  <2>1. CASE AcquireLock \/ Exit \/ Killed
    BY <2>1 DEF AcquireLock, Exit, Killed, Fresh
  <2>2. CASE StartFails \/ OnceReturns \/ ShutdownReturns \/ HandlersJoined
    BY <2>2 DEF StartFails, OnceReturns, ShutdownReturns, HandlersJoined, Goes
  <2>3. CASE RunOnce \/ StartComponents
    BY <2>3 DEF RunOnce, StartComponents
  <2>4. CASE ContextEnded \/ Terminate
    BY <2>4 DEF ContextEnded, BeginShutdown, CloseServer, Terminate
  <2>5. CASE ComponentEnded \/ ComponentJoined
    BY <2>5 DEF ComponentEnded, ComponentJoined, TakeAnswer, BeginShutdown,
                     CloseServer
  <2>6. CASE StopEvents \/ JoinTimesOut \/ LogStopped \/ DeferredClose \/ ReleaseLock
    BY <2>6 DEF StopEvents, JoinTimesOut, LogStopped, DeferredClose, ReleaseLock
  <2>7. CASE OtherStarts \/ OtherListens \/ OtherStops
    BY <2>7 DEF OtherStarts, OtherListens, OtherStops
  <2>8. CASE ServeFails \/ ServeReturns
    BY <2>8 DEF ServeFails, ServeReturns
  <2>9. ASSUME NEW h \in Handlers, ServeHTTP(h) \/ HandlerReturns(h) PROVE FlagType'
    BY <2>9 DEF ServeHTTP, HandlerReturns
  <2>10. CASE DiscoveryRound \/ RoundEnds \/ DiscoveryEnds
    BY <2>10 DEF DiscoveryRound, RoundEnds, DiscoveryEnds
  <2>11. CASE RunStarts \/ RunStops \/ RunReturns
    BY <2>11 DEF RunStarts, RunStops, RunReturns
  <2>12. CASE Emit \/ EmitEvicts \/ EmitPuts
    BY <2>12 DEF Emit, BeginEmit, EmitEvicts, EmitPuts
  <2>13. CASE LogEvent \/ LoggerEnds
    BY <2>13 DEF LogEvent, LoggerEnds
  <2>14. ASSUME NEW d \in Devices, AddDevice(d) PROVE FlagType'
    BY <2>14 DEF AddDevice, BeginEmit
  <2>15. ASSUME NEW d \in Devices, PollReturns(d) \/ TimerFires(d) \/ ScheduleEnds(d)
         PROVE  FlagType'
    BY <2>15 DEF PollReturns, TimerFires, ScheduleEnds
  <2>16. CASE UNCHANGED vars
    BY <2>16 DEF vars
  <2> QED BY <2>1, <2>2, <2>3, <2>4, <2>5, <2>6, <2>7, <2>8, <2>9, <2>10,
             <2>11, <2>12, <2>13, <2>14, <2>15, <2>16
          DEF Next, MainStep, ComponentStep
<1> QED BY <1>1, <1>2, PTL DEF Spec

EventType ==
    /\ sequence \in 0..MaxSequence /\ logged \in 0..MaxSequence
    /\ emit \in {"idle", "evict", "put"}
    /\ emit # "idle" => sequence > 0
    /\ queue \in Seq(1..MaxSequence) /\ Len(queue) <= Buffer

\* emitLocked numbers the event and puts it at the end if there is room.
LEMMA EmissionTyped ==
  ASSUME EventType, BeginEmit, UNCHANGED logged
  PROVE  EventType'
<1> USE DaemonAssumption DEF EventType
<1>1. sequence' = sequence + 1 /\ sequence' \in 1..MaxSequence /\ emit = "idle"
  BY DEF BeginEmit, EngineUnlocked
<1>2. CASE UNCHANGED queue
  BY <1>1, <1>2 DEF BeginEmit
<1>3. CASE queue' = Append(queue, sequence') /\ Len(queue) < Buffer /\ UNCHANGED emit
  <2>1. queue' \in Seq(1..MaxSequence) /\ Len(queue') = Len(queue) + 1
    BY <1>1, <1>3
  <2> QED BY <1>1, <1>3, <2>1
<1> QED BY <1>2, <1>3 DEF BeginEmit

\* Taking the oldest number leaves a shorter queue.
LEMMA OldestTyped ==
  ASSUME EventType, queue # <<>>
  PROVE  /\ Head(queue) \in 1..MaxSequence
         /\ Tail(queue) \in Seq(1..MaxSequence)
         /\ Len(Tail(queue)) <= Buffer
<1>1. queue \in Seq(1..MaxSequence) /\ Len(queue) \in Nat /\ Len(queue) <= Buffer
  BY DEF EventType
<1>2. Head(queue) \in 1..MaxSequence /\ Tail(queue) \in Seq(1..MaxSequence)
      /\ Len(Tail(queue)) = Len(queue) - 1
  BY <1>1, HeadTailProperties
<1> QED BY <1>1, <1>2, DaemonAssumption

\* The queue holds numbers of events and never more than its size.
LEMMA EventTyped == Spec => []EventType
<1> USE DaemonAssumption
    DEF EventType, mainVars, httpVars, engineVars, eventVars, outerVars
<1>1. Init => EventType
  BY DEF Init
<1>2. EventType /\ [Next]_vars => EventType'
  <2> SUFFICES ASSUME EventType, [Next]_vars PROVE EventType'
    OBVIOUS
  <2>1. CASE AcquireLock \/ Exit \/ Killed
    <3>1. CASE AcquireLock
      BY <3>1 DEF AcquireLock, Fresh
    <3>2. CASE Exit
      BY <3>2 DEF Exit, Fresh
    <3>3. CASE Killed
      BY <3>3 DEF Killed, Fresh
    <3> QED BY <2>1, <3>1, <3>2, <3>3
  <2>2. CASE StartFails \/ OnceReturns \/ ShutdownReturns \/ HandlersJoined
    BY <2>2 DEF StartFails, OnceReturns, ShutdownReturns, HandlersJoined, Goes
  <2>3. CASE RunOnce \/ StartComponents
    BY <2>3 DEF RunOnce, StartComponents
  <2>4. CASE ContextEnded \/ Terminate
    BY <2>4 DEF ContextEnded, BeginShutdown, CloseServer, Terminate
  <2>5. CASE ComponentEnded \/ ComponentJoined
    BY <2>5 DEF ComponentEnded, ComponentJoined, TakeAnswer, BeginShutdown,
                     CloseServer
  <2>6. CASE StopEvents \/ JoinTimesOut \/ LogStopped \/ DeferredClose \/ ReleaseLock
    BY <2>6 DEF StopEvents, JoinTimesOut, LogStopped, DeferredClose, ReleaseLock
  <2>7. CASE OtherStarts \/ OtherListens \/ OtherStops
    BY <2>7 DEF OtherStarts, OtherListens, OtherStops
  <2>8. CASE ServeFails \/ ServeReturns
    BY <2>8 DEF ServeFails, ServeReturns
  <2>9. ASSUME NEW h \in Handlers, ServeHTTP(h) \/ HandlerReturns(h) PROVE EventType'
    BY <2>9 DEF ServeHTTP, HandlerReturns
  <2>10. CASE DiscoveryRound \/ RoundEnds \/ DiscoveryEnds
    BY <2>10 DEF DiscoveryRound, RoundEnds, DiscoveryEnds
  <2>11. CASE RunStarts \/ RunStops \/ RunReturns
    BY <2>11 DEF RunStarts, RunStops, RunReturns
  <2>12. CASE Emit \/ EmitEvicts \/ EmitPuts
    <3>1. CASE Emit
      BY <3>1, EmissionTyped DEF Emit
    <3>2. CASE EmitEvicts
      <4>1. CASE queue = <<>>
        BY <3>2, <4>1 DEF EmitEvicts
      <4>2. CASE queue # <<>>
        BY <3>2, <4>2, OldestTyped DEF EmitEvicts
      <4> QED BY <4>1, <4>2
    <3>3. CASE EmitPuts
      <4>1. sequence \in 1..MaxSequence
        BY <3>3 DEF EmitPuts
      <4>2. CASE Len(queue) < Buffer
        <5>1. queue' = Append(queue, sequence)
          BY <3>3, <4>2 DEF EmitPuts
        <5>2. queue' \in Seq(1..MaxSequence) /\ Len(queue') = Len(queue) + 1
          BY <4>1, <5>1
        <5> QED BY <3>3, <4>2, <5>2 DEF EmitPuts
      <4>3. CASE ~(Len(queue) < Buffer)
        BY <3>3, <4>3 DEF EmitPuts
      <4> QED BY <4>2, <4>3
    <3> QED BY <2>12, <3>1, <3>2, <3>3
  <2>13. CASE LogEvent \/ LoggerEnds
    <3>1. CASE LogEvent
      BY <3>1, OldestTyped DEF LogEvent
    <3>2. CASE LoggerEnds
      BY <3>2 DEF LoggerEnds
    <3> QED BY <2>13, <3>1, <3>2
  <2>14. ASSUME NEW d \in Devices, AddDevice(d) PROVE EventType'
    BY <2>14, EmissionTyped DEF AddDevice
  <2>15. ASSUME NEW d \in Devices, PollReturns(d) \/ TimerFires(d) \/ ScheduleEnds(d)
         PROVE  EventType'
    BY <2>15 DEF PollReturns, TimerFires, ScheduleEnds
  <2>16. CASE UNCHANGED vars
    BY <2>16 DEF vars
  <2> QED BY <2>1, <2>2, <2>3, <2>4, <2>5, <2>6, <2>7, <2>8, <2>9, <2>10,
             <2>11, <2>12, <2>13, <2>14, <2>15, <2>16
          DEF Next, MainStep, ComponentStep
<1> QED BY <1>1, <1>2, PTL DEF Spec

\* Every reachable state of the daemon is well typed; in particular errCh and
\* the answers already taken are never more than the three components, so no
\* component blocks when it answers.
THEOREM DaemonTypeCorrect == Spec => []TypeOK
<1>1. AnswerInv /\ ProcessType /\ WorkType /\ FlagType /\ EventType => TypeOK
  BY DEF AnswerInv, Unanswered, ProcessType, WorkType, FlagType, EventType, TypeOK
<1> QED BY <1>1, AnswerInvariant, ProcessTyped, WorkTyped, FlagTyped, EventTyped, PTL

-----------------------------------------------------------------------------
(* The join *)

\* runDaemon's waits before every component has answered.
Started == {"running", "shutdown", "handlers", "components"}

\* No schedule and no round is running, and Run starts none.
Quiet == Counted = {} /\ discovery = "off" /\ run \in {"off", "returned"}

\* Every component answers once, so that three answers taken are three
\* components ended; past the join nothing runs, unless the join timed out.
JoinInv ==
    /\ accepting => main = "running"
    /\ Working # {} => main \in {"running", "shutdown", "handlers"}
    /\ main \in Started => run # "off" /\ Len(errCh) + completed + Unanswered = 3
    /\ main \in {"exited", "locked"} => Quiet
    /\ main = "once" => discovery = "off" /\ run = "off"
    /\ main = "draining" => Quiet /\ run = "returned"
    /\ main \in {"closing", "releasing", "returned"} => failure = "timeout" \/ Quiet
    /\ stoppedLog => /\ main \in {"closing", "releasing", "returned"}
                     /\ Quiet /\ run = "returned"

\* Steps that neither answer, stop nor start anything that is joined.
LEMMA JoinUntouched ==
  ASSUME JoinInv, UNCHANGED <<main, accepting, handler, errCh, completed, server, discovery, run,
                              schedule, failure, stoppedLog>>
  PROVE  JoinInv'
BY DEF JoinInv, Quiet, Counted, Working, Unanswered

\* A component that ends puts its answer where it was counted as missing.
LEMMA AnswerSent ==
  ASSUME AnswerInv, JoinInv, NEW a \in {"nil", "error"}, errCh' = Append(errCh, a),
         Unanswered' = Unanswered - 1, UNCHANGED completed
  PROVE  Len(errCh') + completed' + Unanswered' = Len(errCh) + completed + Unanswered
<1>1. Len(errCh') = Len(errCh) + 1 /\ Len(errCh) \in Nat
  BY DEF AnswerInv
<1>2. Unanswered \in Nat /\ completed \in Nat
  BY DEF AnswerInv, Unanswered
<1> QED BY <1>1, <1>2

\* An answer that runDaemon takes is one less to come.
LEMMA AnswerTaken ==
  ASSUME AnswerInv, TakeAnswer, UNCHANGED Unanswered
  PROVE  /\ Len(errCh') + completed' + Unanswered' = Len(errCh) + completed + Unanswered
         /\ completed < 3
<1>1. Len(errCh') = Len(errCh) - 1 /\ Len(errCh) \in Nat \ {0}
  BY HeadTailProperties, EmptySeq DEF AnswerInv, TakeAnswer
<1>2. Unanswered \in Nat /\ completed \in Nat
  BY DEF AnswerInv, Unanswered
<1> QED BY <1>1, <1>2 DEF TakeAnswer, AnswerInv

\* Past the join, only a join that timed out leaves anything running.
LEMMA JoinInvariant == Spec => []JoinInv
<1> USE DaemonAssumption DEF mainVars, httpVars, engineVars, eventVars, outerVars
<1>1. Init => JoinInv
  BY DEF Init, JoinInv, Quiet, Started, Counted, Working, Unanswered
<1>2. AnswerInv /\ ScheduleInv /\ JoinInv /\ [Next]_vars => JoinInv'
  <2> SUFFICES ASSUME AnswerInv, ScheduleInv, JoinInv, [Next]_vars PROVE JoinInv'
    OBVIOUS
  <2>1. CASE AcquireLock \/ Exit \/ Killed
    <3>1. /\ main' \in {"exited", "locked"} /\ accepting' = FALSE /\ discovery' = "off"
          /\ run' = "off" /\ stoppedLog' = FALSE
          /\ handler' = [h \in Handlers |-> "idle"] /\ schedule' = [d \in Devices |-> "none"]
      BY <2>1 DEF AcquireLock, Exit, Killed, Fresh
    <3>2. Working' = {} /\ Counted' = {}
      BY <3>1 DEF Working, Counted
    <3> QED BY <3>1, <3>2 DEF JoinInv, Quiet, Started
  <2>2. CASE StartFails \/ OnceReturns \/ ShutdownReturns \/ HandlersJoined
    <3>1. /\ Working' = Working /\ Counted' = Counted /\ Unanswered' = Unanswered
          /\ UNCHANGED <<accepting, errCh, completed, discovery, run, failure, stoppedLog>>
      BY <2>2 DEF StartFails, OnceReturns, ShutdownReturns, HandlersJoined, Goes, Working, Counted,
                  Unanswered
    <3>2. CASE StartFails \/ OnceReturns
      BY <3>1, <3>2 DEF StartFails, OnceReturns, Goes, JoinInv, Quiet, Started
    <3>3. CASE ShutdownReturns \/ HandlersJoined
      BY <3>1, <3>3 DEF ShutdownReturns, HandlersJoined, Goes, JoinInv, Quiet, Started
    <3> QED BY <2>2, <3>2, <3>3
  <2>3. CASE RunOnce \/ StartComponents
    <3>1. CASE RunOnce
      <4>1. /\ main = "locked" /\ main' = "once" /\ Working' = Working
            /\ UNCHANGED <<accepting, discovery, run, stoppedLog>>
        BY <3>1 DEF RunOnce, Working
      <4> QED BY <4>1 DEF JoinInv, Quiet, Started, ScheduleInv
    <3>2. CASE StartComponents
      <4>1. /\ main' = "running" /\ run' = "launched" /\ server' = "serving" /\ discovery' = "working"
            /\ UNCHANGED <<errCh, completed, stoppedLog>> /\ main = "locked"
        BY <3>2 DEF StartComponents
      <4>2. Len(errCh') + completed' + Unanswered' = 3
        BY <4>1 DEF AnswerInv, Unanswered
      <4> QED BY <4>1, <4>2 DEF JoinInv, Started
    <3> QED BY <2>3, <3>1, <3>2
  <2>4. CASE ContextEnded \/ Terminate
    <3>1. /\ Working' = Working /\ Counted' = Counted /\ main = "running"
          /\ UNCHANGED <<errCh, completed, discovery, run, stoppedLog>>
      BY <2>4 DEF ContextEnded, BeginShutdown, Terminate, Working, Counted
    <3>2. Unanswered' = Unanswered
      BY <2>4 DEF ContextEnded, BeginShutdown, CloseServer, Terminate, Unanswered
    <3>3. main' \in {"running", "shutdown"} /\ (accepting' => main' = "running")
      BY <2>4 DEF ContextEnded, BeginShutdown, Terminate, JoinInv
    <3> QED BY <3>1, <3>2, <3>3 DEF JoinInv, Started
  <2>5. CASE ComponentEnded \/ ComponentJoined
    <3>1. /\ Working' = Working /\ Counted' = Counted /\ main \in {"running", "components"}
          /\ TakeAnswer /\ UNCHANGED <<discovery, run, stoppedLog>>
      BY <2>5 DEF ComponentEnded, ComponentJoined, BeginShutdown, Working, Counted
    <3>2. Unanswered' = Unanswered
      BY <2>5 DEF ComponentEnded, ComponentJoined, CloseServer, Unanswered
    <3>3. /\ main' = IF main = "running" THEN "shutdown" ELSE "components"
          /\ accepting' => main' = "running"
      BY <2>5 DEF ComponentEnded, ComponentJoined, BeginShutdown, JoinInv
    <3> QED BY <3>1, <3>2, <3>3, AnswerTaken DEF JoinInv, Started
  <2>6. CASE StopEvents \/ JoinTimesOut \/ LogStopped \/ DeferredClose \/ ReleaseLock
    <3>1. /\ Working' = Working /\ Counted' = Counted /\ Unanswered' = Unanswered
          /\ UNCHANGED <<accepting, errCh, completed, discovery, run>>
      BY <2>6 DEF StopEvents, JoinTimesOut, LogStopped, DeferredClose, ReleaseLock, Working, Counted,
                  Unanswered
    <3>2. CASE StopEvents
      <4>1. Unanswered = 0 /\ main = "components" /\ main' = "draining"
            /\ UNCHANGED stoppedLog
        BY <3>2 DEF StopEvents, JoinInv, AnswerInv, Unanswered, Started
      <4>2. discovery = "off" /\ run = "returned"
        BY <4>1 DEF Unanswered, AnswerInv, JoinInv, Started
      <4>3. Quiet
        BY <4>2 DEF Quiet, ScheduleInv, NoScheduleAfterRun
      <4> QED BY <3>1, <4>1, <4>2, <4>3 DEF JoinInv, Quiet, Started
    <3>3. CASE JoinTimesOut
      BY <3>1, <3>3 DEF JoinTimesOut, JoinInv, Quiet, Started
    <3>4. CASE LogStopped
      BY <3>1, <3>4 DEF LogStopped, JoinInv, Quiet, Started
    <3>5. CASE DeferredClose \/ ReleaseLock
      BY <3>1, <3>5 DEF DeferredClose, ReleaseLock, JoinInv, Quiet, Started
    <3> QED BY <2>6, <3>2, <3>3, <3>4, <3>5
  <2>7. CASE OtherStarts \/ OtherListens \/ OtherStops
    BY <2>7, JoinUntouched DEF OtherStarts, OtherListens, OtherStops
  <2>8. CASE ServeFails \/ ServeReturns
    <3>1. PICK a \in {"nil", "error"} : errCh' = Append(errCh, a)
      BY <2>8 DEF ServeFails, ServeReturns
    <3>2. Unanswered' = Unanswered - 1
      BY <2>8 DEF ServeFails, ServeReturns, Unanswered
    <3>3. /\ Working' = Working /\ Counted' = Counted
          /\ UNCHANGED <<main, accepting, completed, discovery, run, failure, stoppedLog>>
      BY <2>8 DEF ServeFails, ServeReturns, Working, Counted
    <3> QED BY <3>1, <3>2, <3>3, AnswerSent DEF JoinInv, Quiet, Started
  <2>9. ASSUME NEW h \in Handlers, ServeHTTP(h) \/ HandlerReturns(h) PROVE JoinInv'
    <3>1. /\ Counted' = Counted /\ Unanswered' = Unanswered
          /\ UNCHANGED <<main, accepting, errCh, completed, discovery, run, failure, stoppedLog>>
      BY <2>9 DEF ServeHTTP, HandlerReturns, Counted, Unanswered
    <3>2. Working' # {} => main \in {"running", "shutdown", "handlers"}
      <4>1. CASE ServeHTTP(h)
        BY <4>1 DEF ServeHTTP, JoinInv
      <4>2. CASE HandlerReturns(h)
        BY <4>2 DEF HandlerReturns, Working, JoinInv
      <4> QED BY <2>9, <4>1, <4>2
    <3> QED BY <3>1, <3>2 DEF JoinInv, Quiet, Started
  <2>10. CASE DiscoveryRound \/ RoundEnds \/ DiscoveryEnds
    <3>1. /\ Working' = Working /\ Counted' = Counted
          /\ UNCHANGED <<main, accepting, completed, run, server, failure, stoppedLog>>
      BY <2>10 DEF DiscoveryRound, RoundEnds, DiscoveryEnds, Working, Counted
    <3>2. CASE DiscoveryRound \/ RoundEnds
      <4>1. discovery # "off" /\ UNCHANGED errCh /\ Unanswered' = Unanswered
        BY <3>2 DEF DiscoveryRound, RoundEnds, Unanswered
      <4> QED BY <3>1, <4>1 DEF JoinInv, Quiet, Started
    <3>3. CASE DiscoveryEnds
      <4>1. errCh' = Append(errCh, "nil") /\ Unanswered' = Unanswered - 1 /\ discovery' = "off"
        BY <3>1, <3>3 DEF DiscoveryEnds, Unanswered
      <4> QED BY <3>1, <4>1, AnswerSent DEF JoinInv, Quiet, Started
    <3> QED BY <2>10, <3>2, <3>3
  <2>11. CASE RunStarts \/ RunStops \/ RunReturns
    <3>1. /\ Working' = Working /\ run # "returned" /\ run # "off"
          /\ UNCHANGED <<main, accepting, completed, discovery, server, failure, stoppedLog>>
      BY <2>11 DEF RunStarts, RunStops, RunReturns, Working
    <3>2. ~Quiet /\ ~stoppedLog /\ main \notin {"exited", "locked", "once", "draining"}
      BY <3>1, <2>11 DEF RunStarts, RunStops, RunReturns, Quiet, JoinInv
    <3>3. CASE RunStarts \/ RunStops
      <4>1. run' # "off" /\ UNCHANGED errCh /\ Unanswered' = Unanswered
        BY <3>3 DEF RunStarts, RunStops, Unanswered
      <4> QED BY <3>1, <3>2, <4>1 DEF JoinInv, Started
    <3>4. CASE RunReturns
      <4>1. errCh' = Append(errCh, "nil") /\ Unanswered' = Unanswered - 1 /\ run' = "returned"
        BY <3>1, <3>4 DEF RunReturns, Unanswered
      <4> QED BY <3>1, <3>2, <4>1, AnswerSent DEF JoinInv, Started
    <3> QED BY <2>11, <3>3, <3>4
  <2>12. CASE Emit \/ EmitEvicts \/ EmitPuts
    BY <2>12, JoinUntouched DEF Emit, BeginEmit, EmitEvicts, EmitPuts
  <2>13. CASE LogEvent \/ LoggerEnds
    BY <2>13, JoinUntouched DEF LogEvent, LoggerEnds
  <2>14. ASSUME NEW d \in Devices, AddDevice(d) PROVE JoinInv'
    <3>1. main \in {"running", "shutdown", "handlers"}
      BY <2>14 DEF AddDevice, JoinInv
    <3>2. /\ Working' = Working /\ Unanswered' = Unanswered
          /\ UNCHANGED <<main, accepting, errCh, completed, run, failure, stoppedLog>>
      BY <2>14 DEF AddDevice, Working, Unanswered
    <3> QED BY <3>1, <3>2 DEF JoinInv, Started
  <2>15. ASSUME NEW d \in Devices, PollReturns(d) \/ TimerFires(d) \/ ScheduleEnds(d)
         PROVE  JoinInv'
    <3>1. Counted # {}
      BY <2>15 DEF PollReturns, TimerFires, ScheduleEnds, Counted
    <3>2. /\ Working' = Working /\ Unanswered' = Unanswered
          /\ UNCHANGED <<main, accepting, errCh, completed, discovery, run, failure, stoppedLog>>
      BY <2>15 DEF PollReturns, TimerFires, ScheduleEnds, Working, Unanswered
    <3> QED BY <3>1, <3>2 DEF JoinInv, Quiet, Started
  <2>16. CASE UNCHANGED vars
    BY <2>16, JoinUntouched DEF vars
  <2> QED BY <2>1, <2>2, <2>3, <2>4, <2>5, <2>6, <2>7, <2>8, <2>9, <2>10,
             <2>11, <2>12, <2>13, <2>14, <2>15, <2>16
          DEF Next, MainStep, ComponentStep
<1> QED BY <1>1, <1>2, AnswerInvariant, ScheduleInvariant, PTL DEF Spec

\* Another daemon gets the lock only when this one has no request, no schedule
\* and no round left, unless its join timed out.
THEOREM OneDaemonRuns == Spec => []OneDaemon
<1>1. OwnerInv /\ ProcessType /\ JoinInv => OneDaemon
  <2> SUFFICES ASSUME OwnerInv, ProcessType, JoinInv, lock = "theirs", failure # "timeout"
               PROVE  Working = {} /\ Counted = {} /\ discovery = "off"
    BY DEF OneDaemon
  <2>1. main \in {"exited", "returned"}
    BY DEF OwnerInv, ProcessType, Alive
  <2> QED BY <2>1 DEF JoinInv, Quiet
<1> QED BY <1>1, OwnerInvariant, ProcessTyped, JoinInvariant, PTL

\* The newest event is logged or last in the queue when the subscription is
\* closed, and the logger ends with the queue empty.
DrainInv ==
    /\ main \in Started => subscribed /\ logger = "reading"
    /\ main = "draining" => /\ emit = "idle"
                            /\ IF queue = <<>> THEN logged = sequence
                               ELSE queue[Len(queue)] = sequence
                            /\ logger = "ended" => queue = <<>>
    /\ stoppedLog => emit = "idle" /\ queue = <<>> /\ logged = sequence

\* Nothing is published after the subscription is closed, and the logger reads
\* what is left.
LEMMA DrainInvariant == Spec => []DrainInv
<1> USE DaemonAssumption DEF mainVars, httpVars, engineVars, eventVars, outerVars
<1>1. Init => DrainInv
  BY DEF Init, DrainInv, Started
<1>2. QueueInv /\ JoinInv /\ DrainInv /\ [Next]_vars => DrainInv'
  <2> SUFFICES ASSUME QueueInv, JoinInv, DrainInv, [Next]_vars PROVE DrainInv'
    OBVIOUS
  <2>1. CASE AcquireLock \/ Exit \/ Killed
    <3>1. /\ main' \in {"exited", "locked"} /\ stoppedLog' = FALSE
      BY <2>1 DEF AcquireLock, Exit, Killed, Fresh
    <3> QED BY <3>1 DEF DrainInv, Started
  <2>2. CASE StartFails \/ OnceReturns \/ ShutdownReturns \/ HandlersJoined
    BY <2>2 DEF StartFails, OnceReturns, ShutdownReturns, HandlersJoined, Goes, DrainInv, Started
  <2>3. CASE RunOnce \/ StartComponents
    BY <2>3 DEF RunOnce, StartComponents, DrainInv, Started
  <2>4. CASE ContextEnded \/ Terminate
    BY <2>4 DEF ContextEnded, BeginShutdown, CloseServer, Terminate, DrainInv, Started
  <2>5. CASE ComponentEnded \/ ComponentJoined
    BY <2>5
       DEF ComponentEnded, ComponentJoined, TakeAnswer, BeginShutdown, CloseServer, DrainInv, Started
  <2>6. CASE StopEvents \/ JoinTimesOut \/ LogStopped \/ DeferredClose \/ ReleaseLock
    <3>1. CASE StopEvents
      <4>1. emit = "idle" /\ subscribed /\ ~stoppedLog
        BY <3>1 DEF StopEvents, EngineUnlocked, DrainInv, JoinInv, Started
      <4>2. IF queue = <<>> THEN logged = sequence ELSE queue[Len(queue)] = sequence
        <5>1. Offered = sequence /\ sequence \in Nat /\ queue \in Seq(Nat) /\ Len(queue) \in Nat
          BY <4>1 DEF QueueInv, Offered
        <5>2. queue # <<>> => Len(queue) \in 1..Len(queue)
          BY <5>1, EmptySeq
        <5>3. queue # <<>> => queue[Len(queue)] = (Offered - Len(queue)) + Len(queue)
          BY <4>1, <5>2 DEF QueueInv
        <5> QED BY <4>1, <5>1, <5>3 DEF QueueInv
      <4>3. logger = "reading"
        BY <3>1 DEF StopEvents, DrainInv, Started
      <4> QED BY <3>1, <4>1, <4>2, <4>3 DEF StopEvents, DrainInv, Started
    <3>2. CASE JoinTimesOut \/ LogStopped \/ DeferredClose \/ ReleaseLock
      BY <3>2 DEF JoinTimesOut, LogStopped, DeferredClose, ReleaseLock, DrainInv, Started
    <3> QED BY <2>6, <3>1, <3>2
  <2>7. CASE OtherStarts \/ OtherListens \/ OtherStops
    BY <2>7 DEF OtherStarts, OtherListens, OtherStops, DrainInv, Started
  <2>8. CASE ServeFails \/ ServeReturns
    BY <2>8 DEF ServeFails, ServeReturns, DrainInv, Started
  <2>9. ASSUME NEW h \in Handlers, ServeHTTP(h) \/ HandlerReturns(h) PROVE DrainInv'
    BY <2>9 DEF ServeHTTP, HandlerReturns, DrainInv, Started
  <2>10. CASE DiscoveryRound \/ RoundEnds \/ DiscoveryEnds
    BY <2>10 DEF DiscoveryRound, RoundEnds, DiscoveryEnds, DrainInv, Started
  <2>11. CASE RunStarts \/ RunStops \/ RunReturns
    BY <2>11 DEF RunStarts, RunStops, RunReturns, DrainInv, Started
  <2>12. CASE Emit \/ EmitEvicts \/ EmitPuts
    <3>1. CASE Emit
      <4>1. main # "draining" /\ ~stoppedLog
        <5>1. Working # {} \/ Counted # {}
          BY <3>1 DEF Emit, Polling, Counted
        <5> QED BY <5>1 DEF JoinInv, Quiet
      <4> QED BY <3>1, <4>1 DEF Emit, DrainInv, Started
    <3>2. CASE EmitEvicts \/ EmitPuts
      <4>1. main # "draining" /\ ~stoppedLog
        BY <3>2 DEF EmitEvicts, EmitPuts, DrainInv
      <4> QED BY <3>2, <4>1 DEF EmitEvicts, EmitPuts, DrainInv, Started
    <3> QED BY <2>12, <3>1, <3>2
  <2>13. CASE LogEvent \/ LoggerEnds
    <3>1. CASE LogEvent
      <4>1. ~stoppedLog
        BY <3>1 DEF LogEvent, DrainInv
      <4>2. CASE main = "draining"
        <5>1. /\ queue \in Seq(Nat) /\ queue # <<>> /\ queue' = Tail(queue)
              /\ logged' = Head(queue) /\ queue[Len(queue)] = sequence
              /\ UNCHANGED <<main, emit, sequence, logger, stoppedLog>> /\ logger = "reading"
          BY <3>1, <4>2 DEF LogEvent, QueueInv, DrainInv
        <5>2. /\ Head(queue) = queue[1] /\ queue' \in Seq(Nat)
              /\ Len(queue) \in Nat \ {0} /\ Len(queue') = Len(queue) - 1
              /\ \A k \in 1..Len(queue') : queue'[k] = queue[k + 1]
          BY <5>1
        <5>3. queue' = <<>> <=> Len(queue') = 0
          BY <5>2, EmptySeq
        <5>4. IF queue' = <<>> THEN logged' = sequence ELSE queue'[Len(queue')] = sequence
          BY <5>1, <5>2, <5>3
        <5> QED BY <4>1, <4>2, <5>1, <5>4 DEF DrainInv, Started
      <4>3. CASE main # "draining"
        BY <3>1, <4>1, <4>3 DEF LogEvent, DrainInv, Started
      <4> QED BY <4>2, <4>3
    <3>2. CASE LoggerEnds
      BY <3>2 DEF LoggerEnds, DrainInv, Started
    <3> QED BY <2>13, <3>1, <3>2
  <2>14. ASSUME NEW d \in Devices, AddDevice(d) PROVE DrainInv'
    <3>1. main # "draining" /\ ~stoppedLog
      BY <2>14 DEF AddDevice, JoinInv
    <3> QED BY <2>14, <3>1 DEF AddDevice, DrainInv, Started
  <2>15. ASSUME NEW d \in Devices, PollReturns(d) \/ TimerFires(d) \/ ScheduleEnds(d)
         PROVE  DrainInv'
    BY <2>15 DEF PollReturns, TimerFires, ScheduleEnds, DrainInv, Started
  <2>16. CASE UNCHANGED vars
    BY <2>16 DEF vars, DrainInv, Started
  <2> QED BY <2>1, <2>2, <2>3, <2>4, <2>5, <2>6, <2>7, <2>8, <2>9, <2>10,
             <2>11, <2>12, <2>13, <2>14, <2>15, <2>16
          DEF Next, MainStep, ComponentStep
<1> QED BY <1>1, <1>2, EventInvariant, JoinInvariant, PTL DEF Spec

\* "daemon stopped" is logged only after every request, schedule and round has
\* ended, Run has returned and the last event is in the log.
THEOREM StopIsComplete == Spec => []StoppedMeansJoined
<1>1. JoinInv /\ DrainInv => StoppedMeansJoined
  BY DEF JoinInv, DrainInv, Quiet, StoppedMeansJoined
<1> QED BY <1>1, JoinInvariant, DrainInvariant, PTL

\* The error of a server that failed waits in errCh until runDaemon keeps it.
FailureInv ==
    /\ main \in Started /\ server = "failed" =>
         failure = "component" \/ \E i \in 1..Len(errCh) : errCh[i] = "error"
    /\ main = "draining" \/ stoppedLog => (server = "failed" => failure = "component")

\* Taking an answer keeps an error that is waiting, or finds it.
LEMMA ErrorTaken ==
  ASSUME AnswerInv, TakeAnswer, NEW i \in 1..Len(errCh), errCh[i] = "error"
  PROVE  Head(errCh) = "error" \/ \E j \in 1..Len(errCh') : errCh'[j] = "error"
<1>1. /\ errCh \in Seq({"nil", "error"}) /\ errCh # <<>> /\ errCh' = Tail(errCh)
  BY DEF AnswerInv, TakeAnswer
<1>2. /\ Len(errCh) \in Nat /\ Len(errCh') = Len(errCh) - 1 /\ Head(errCh) = errCh[1]
      /\ \A k \in 1..Len(errCh') : errCh'[k] = errCh[k + 1]
  BY <1>1
<1>3. CASE i = 1
  BY <1>2, <1>3
<1>4. CASE i # 1
  <2>1. i - 1 \in 1..Len(errCh') /\ errCh'[i - 1] = errCh[(i - 1) + 1] /\ (i - 1) + 1 = i
    BY <1>2, <1>4
  <2> QED BY <2>1
<1> QED BY <1>3, <1>4

\* An answer added at the end leaves the errors before it.
LEMMA ErrorWaits ==
  ASSUME AnswerInv, NEW a \in {"nil", "error"}, errCh' = Append(errCh, a),
         a = "error" \/ \E i \in 1..Len(errCh) : errCh[i] = "error"
  PROVE  \E j \in 1..Len(errCh') : errCh'[j] = "error"
<1>1. /\ Len(errCh) \in Nat /\ Len(errCh') = Len(errCh) + 1 /\ errCh'[Len(errCh) + 1] = a
      /\ \A k \in 1..Len(errCh) : errCh'[k] = errCh[k]
  BY DEF AnswerInv
<1>2. CASE a = "error"
  <2>1. Len(errCh) + 1 \in 1..Len(errCh')
    BY <1>1
  <2> QED BY <1>1, <1>2, <2>1
<1>3. CASE \E i \in 1..Len(errCh) : errCh[i] = "error"
  <2>1. PICK i \in 1..Len(errCh) : errCh[i] = "error"
    BY <1>3
  <2>2. i \in 1..Len(errCh') /\ errCh'[i] = "error"
    BY <1>1, <2>1
  <2> QED BY <2>2
<1> QED BY <1>2, <1>3

\* The error is in errCh or kept, until the join has taken everything.
LEMMA FailureInvariant == Spec => []FailureInv
<1> USE DaemonAssumption DEF mainVars, httpVars, engineVars, eventVars, outerVars
<1>1. Init => FailureInv
  BY DEF Init, FailureInv, Started
<1>2. AnswerInv /\ OwnerInv /\ JoinInv /\ FailureInv /\ [Next]_vars => FailureInv'
  <2> SUFFICES ASSUME AnswerInv, OwnerInv, JoinInv, FailureInv, [Next]_vars PROVE FailureInv'
    OBVIOUS
  <2>1. CASE AcquireLock \/ Exit \/ Killed
    <3>1. /\ main' \in {"exited", "locked"} /\ stoppedLog' = FALSE
      BY <2>1 DEF AcquireLock, Exit, Killed, Fresh
    <3> QED BY <3>1 DEF FailureInv, Started
  <2>2. CASE StartFails \/ OnceReturns \/ ShutdownReturns \/ HandlersJoined
    BY <2>2 DEF StartFails, OnceReturns, ShutdownReturns, HandlersJoined, Goes, FailureInv, Started
  <2>3. CASE RunOnce \/ StartComponents
    <3>1. CASE RunOnce
      BY <3>1 DEF RunOnce, FailureInv, Started
    <3>2. CASE StartComponents
      <4>1. main' = "running" /\ server' = "serving" /\ ~stoppedLog'
        BY <3>2 DEF StartComponents, JoinInv
      <4> QED BY <4>1 DEF FailureInv, Started
    <3> QED BY <2>3, <3>1, <3>2
  <2>4. CASE ContextEnded \/ Terminate
    <3>1. main = "running" /\ UNCHANGED <<failure, errCh, stoppedLog>>
      BY <2>4 DEF ContextEnded, Terminate
    <3>2. ~stoppedLog /\ main' \in {"running", "shutdown"} /\ (server' = "failed" => server = "failed")
      BY <2>4, <3>1 DEF ContextEnded, BeginShutdown, CloseServer, Terminate, JoinInv
    <3> QED BY <3>1, <3>2 DEF FailureInv, Started
  <2>5. CASE ComponentEnded \/ ComponentJoined
    <3>1. /\ main \in {"running", "components"} /\ TakeAnswer /\ UNCHANGED stoppedLog
          /\ main' \in {"shutdown", "components"} /\ (server' = "failed" => server = "failed")
          /\ Head(errCh) = "error" \/ failure = "component" => failure' = "component"
      BY <2>5 DEF ComponentEnded, ComponentJoined, BeginShutdown, CloseServer
    <3>2. ~stoppedLog
      BY <3>1 DEF JoinInv
    <3>3. server' = "failed" =>
            failure' = "component" \/ \E j \in 1..Len(errCh') : errCh'[j] = "error"
      <4> SUFFICES ASSUME server' = "failed", failure' # "component"
                   PROVE  \E j \in 1..Len(errCh') : errCh'[j] = "error"
        OBVIOUS
      <4>1. PICK i \in 1..Len(errCh) : errCh[i] = "error"
        BY <3>1 DEF FailureInv, Started
      <4> QED BY <3>1, <4>1, ErrorTaken
    <3> QED BY <3>1, <3>2, <3>3 DEF FailureInv, Started
  <2>6. CASE StopEvents \/ JoinTimesOut \/ LogStopped \/ DeferredClose \/ ReleaseLock
    <3>1. CASE StopEvents
      <4>1. /\ completed = 3 /\ main = "components" /\ ~stoppedLog
            /\ UNCHANGED <<server, failure, stoppedLog>> /\ main' = "draining"
        BY <3>1 DEF StopEvents, JoinInv
      <4>2. Len(errCh) = 0
        BY <4>1 DEF JoinInv, AnswerInv, Unanswered, Started
      <4> QED BY <4>1, <4>2 DEF FailureInv, Started
    <3>2. CASE JoinTimesOut
      BY <3>2 DEF JoinTimesOut, FailureInv, JoinInv, Started
    <3>3. CASE LogStopped \/ DeferredClose \/ ReleaseLock
      BY <3>3 DEF LogStopped, DeferredClose, ReleaseLock, FailureInv, Started
    <3> QED BY <2>6, <3>1, <3>2, <3>3
  <2>7. CASE OtherStarts \/ OtherListens \/ OtherStops
    BY <2>7 DEF OtherStarts, OtherListens, OtherStops, FailureInv, Started
  <2>8. CASE ServeFails \/ ServeReturns
    <3>1. CASE ServeFails
      <4>1. main = "running" /\ ~stoppedLog
        BY <3>1 DEF ServeFails, OwnerInv, JoinInv
      <4>2. \E j \in 1..Len(errCh') : errCh'[j] = "error"
        BY <3>1, ErrorWaits DEF ServeFails
      <4> QED BY <3>1, <4>1, <4>2 DEF ServeFails, FailureInv
    <3>2. CASE ServeReturns
      <4>1. server' = "closed"
        BY <3>2 DEF ServeReturns
      <4> QED BY <4>1 DEF FailureInv
    <3> QED BY <2>8, <3>1, <3>2
  <2>9. ASSUME NEW h \in Handlers, ServeHTTP(h) \/ HandlerReturns(h) PROVE FailureInv'
    BY <2>9 DEF ServeHTTP, HandlerReturns, FailureInv, Started
  <2>10. CASE DiscoveryRound \/ RoundEnds \/ DiscoveryEnds
    <3>1. CASE DiscoveryRound \/ RoundEnds
      BY <3>1 DEF DiscoveryRound, RoundEnds, FailureInv
    <3>2. CASE DiscoveryEnds
      <4>1. errCh' = Append(errCh, "nil") /\ UNCHANGED <<main, server, failure, stoppedLog>>
        BY <3>2 DEF DiscoveryEnds
      <4> QED BY <4>1, ErrorWaits DEF FailureInv
    <3> QED BY <2>10, <3>1, <3>2
  <2>11. CASE RunStarts \/ RunStops \/ RunReturns
    <3>1. CASE RunStarts \/ RunStops
      BY <3>1 DEF RunStarts, RunStops, FailureInv
    <3>2. CASE RunReturns
      <4>1. errCh' = Append(errCh, "nil") /\ UNCHANGED <<main, server, failure, stoppedLog>>
        BY <3>2 DEF RunReturns
      <4> QED BY <4>1, ErrorWaits DEF FailureInv
    <3> QED BY <2>11, <3>1, <3>2
  <2>12. CASE Emit \/ EmitEvicts \/ EmitPuts
    BY <2>12 DEF Emit, BeginEmit, EmitEvicts, EmitPuts, FailureInv, Started
  <2>13. CASE LogEvent \/ LoggerEnds
    BY <2>13 DEF LogEvent, LoggerEnds, FailureInv, Started
  <2>14. ASSUME NEW d \in Devices, AddDevice(d) PROVE FailureInv'
    BY <2>14 DEF AddDevice, BeginEmit, FailureInv, Started
  <2>15. ASSUME NEW d \in Devices, PollReturns(d) \/ TimerFires(d) \/ ScheduleEnds(d)
         PROVE  FailureInv'
    BY <2>15 DEF PollReturns, TimerFires, ScheduleEnds, FailureInv, Started
  <2>16. CASE UNCHANGED vars
    BY <2>16 DEF vars, FailureInv, Started
  <2> QED BY <2>1, <2>2, <2>3, <2>4, <2>5, <2>6, <2>7, <2>8, <2>9, <2>10,
             <2>11, <2>12, <2>13, <2>14, <2>15, <2>16
          DEF Next, MainStep, ComponentStep
<1> QED BY <1>1, <1>2, AnswerInvariant, OwnerInvariant, JoinInvariant, PTL DEF Spec

\* A daemon whose server failed does not log a clean stop without keeping the
\* error, in whatever order the answers came.
THEOREM FailureIsReported == Spec => []FailureReported
<1>1. FailureInv => FailureReported
  BY DEF FailureInv, FailureReported
<1> QED BY <1>1, FailureInvariant, PTL
=============================================================================
