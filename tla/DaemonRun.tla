------------------------------ MODULE DaemonRun ------------------------------
(***************************************************************************)
(* The life of the daemon process: runDaemon, the components it starts,    *)
(* joins and reports (cmd/fv-ssh-unlock/daemon.go), the engine's schedules *)
(* and its event stream (internal/monitor/engine.go: Run, AddDevice,       *)
(* Subscribe, emitLocked), the daemon lock and the control socket          *)
(* (internal/securefs/lock.go, internal/control/socket.go).                *)
(*                                                                         *)
(* One process is modelled in full.  Another daemon on the same data       *)
(* directory meets it only at the lock and the socket, and is a process of *)
(* three states.  What a poll or a request does is in MonitorEngine and    *)
(* Enrollment; here each takes time and may publish events.                *)
(***************************************************************************)
EXTENDS Integers, Sequences

CONSTANTS
    Devices,      \* the devices there may be
    Configured,   \* those configured at the start
    Handlers,     \* control requests that can be in progress
    Buffer,       \* size of the subscription's queue
    MaxSequence,  \* bound on the number of events
    MaxStarts     \* bound on the runs of the process

ASSUME DaemonAssumption ==
    /\ Configured \subseteq Devices
    /\ Buffer \in Nat \ {0}
    /\ MaxSequence \in Nat /\ MaxStarts \in Nat

VARIABLES
    main,       \* where runDaemon is
    starts,     \* how many times it was started
    stopRun,    \* runCtx has ended
    failure,    \* componentErr or the timeout
    errCh,      \* the components' answers waiting in errCh, oldest first
    completed,  \* those runDaemon took
    server,     \* server.Serve and the listener
    accepting,  \* trackedHandler.accepting
    handler,    \* the requests in trackedHandler.active
    discovery,  \* runCandidateDiscovery
    run,        \* Engine.Run: launched, running, stopping, returned
    devices,    \* Engine.devices
    schedule,   \* runDevice for each device
    sequence,   \* Engine.sequence
    emit,       \* where emitLocked is with the subscriber's queue
    queue,      \* the subscription's channel
    subscribed, \* the channel is open and registered
    logger,     \* logMonitorEvents
    logged,     \* the last sequence number it logged
    lock,       \* who holds daemon.lock
    socket,     \* whose socket is at the path
    other,      \* the other daemon
    stoppedLog  \* "daemon stopped" was logged in this run

engineVars == <<run, devices, schedule>>
eventVars  == <<sequence, emit, queue, subscribed, logger, logged>>
outerVars  == <<lock, socket, other>>
httpVars   == <<server, accepting, handler>>
mainVars   == <<main, starts, stopRun, failure, errCh, completed, stoppedLog>>
vars       == <<mainVars, httpVars, discovery, engineVars, eventVars, outerVars>>

TypeOK ==
    /\ main \in {"exited", "locked", "once", "running", "shutdown", "handlers", "components",
                 "draining", "closing", "releasing", "returned"}
    /\ starts \in 0..MaxStarts
    /\ stopRun \in BOOLEAN
    /\ failure \in {"none", "component", "timeout"}
    /\ errCh \in Seq({"nil", "error"}) /\ completed \in 0..3 /\ Len(errCh) + completed <= 3
    /\ server \in {"off", "serving", "closing", "closed", "failed"} /\ accepting \in BOOLEAN
    /\ handler \in [Handlers -> {"idle", "working"}]
    /\ discovery \in {"off", "working", "waiting"}
    /\ run \in {"off", "launched", "running", "stopping", "returned"}
    /\ devices \subseteq Devices
    /\ schedule \in [Devices -> {"none", "polling", "sleeping"}]
    /\ sequence \in 0..MaxSequence
    /\ emit \in {"idle", "evict", "put"}
    /\ queue \in Seq(1..MaxSequence) /\ Len(queue) <= Buffer
    /\ subscribed \in BOOLEAN
    /\ logger \in {"off", "reading", "ended"}
    /\ logged \in 0..MaxSequence
    /\ lock \in {"free", "ours", "theirs"}
    /\ socket \in {"absent", "stale", "ours", "theirs"}
    /\ other \in {"off", "locked", "listening"}
    /\ stoppedLog \in BOOLEAN

\* A process that has just been started, with nothing running in it.
Fresh(m) ==
    /\ main' = m
    /\ stopRun' = FALSE /\ failure' = "none" /\ errCh' = <<>> /\ completed' = 0
    /\ server' = "off" /\ accepting' = FALSE /\ handler' = [h \in Handlers |-> "idle"]
    /\ discovery' = "off"
    /\ run' = "off" /\ devices' = Configured /\ schedule' = [d \in Devices |-> "none"]
    /\ sequence' = 0 /\ emit' = "idle" /\ queue' = <<>> /\ subscribed' = FALSE
    /\ logger' = "off" /\ logged' = 0 /\ stoppedLog' = FALSE

Init ==
    /\ main = "exited" /\ starts = 0
    /\ stopRun = FALSE /\ failure = "none" /\ errCh = <<>> /\ completed = 0
    /\ server = "off" /\ accepting = FALSE /\ handler = [h \in Handlers |-> "idle"]
    /\ discovery = "off"
    /\ run = "off" /\ devices = Configured /\ schedule = [d \in Devices |-> "none"]
    /\ sequence = 0 /\ emit = "idle" /\ queue = <<>> /\ subscribed = FALSE
    /\ logger = "off" /\ logged = 0 /\ stoppedLog = FALSE
    /\ lock = "free" /\ socket = "absent" /\ other = "off"

Polling == {d \in Devices : schedule[d] = "polling"}
Working == {h \in Handlers : handler[h] = "working"}

\* Goroutines that Run's WaitGroup counts.
Counted == {d \in Devices : schedule[d] # "none"}

\* Engine.mu is not held by emitLocked.
EngineUnlocked == emit = "idle"

\* runDaemon goes on to m and changes nothing else.
Goes(m) ==
    /\ main' = m
    /\ UNCHANGED <<starts, stopRun, failure, errCh, completed, stoppedLog, httpVars, discovery,
                   engineVars, eventVars, outerVars>>

-----------------------------------------------------------------------------
(* runDaemon: start *)

\* acquireDaemonLock; without the lock the process ends at once.
AcquireLock ==
    /\ main = "exited" /\ starts < MaxStarts
    /\ lock = "free"
    /\ lock' = "ours"
    /\ starts' = starts + 1
    /\ Fresh("locked")
    /\ UNCHANGED <<socket, other>>

\* A file cannot be loaded, a credential is not available, or the socket is
\* in use by a live listener.
StartFails ==
    /\ main = "locked"
    /\ Goes("releasing")

\* --once: RunOnce polls every device and waits for all of them.
RunOnce ==
    /\ main = "locked"
    /\ main' = "once"
    /\ schedule' = [d \in Devices |-> IF d \in devices THEN "polling" ELSE "none"]
    /\ UNCHANGED <<starts, stopRun, failure, errCh, completed, stoppedLog, httpVars, discovery,
                   run, devices, eventVars, outerVars>>

OnceReturns ==
    /\ main = "once" /\ Counted = {}
    /\ Goes("releasing")

\* Listen (a stale socket is replaced), Subscribe, and the components.
StartComponents ==
    /\ main = "locked"
    /\ socket \in {"absent", "stale"}
    /\ socket' = "ours"
    /\ main' = "running"
    /\ subscribed' = TRUE /\ logger' = "reading"
    /\ server' = "serving" /\ accepting' = TRUE
    /\ run' = "launched" /\ discovery' = "working"
    /\ UNCHANGED <<starts, stopRun, failure, errCh, completed, stoppedLog, handler, devices,
                   schedule, sequence, emit, queue, logged, lock, other>>

-----------------------------------------------------------------------------
(* runDaemon: shutdown *)

\* stopRun and StopAccepting, then server.Shutdown closes the listener.
BeginShutdown ==
    /\ stopRun' = TRUE
    /\ accepting' = FALSE
    /\ main' = "shutdown"

\* Closing the listener removes the path; Serve has yet to notice.
CloseServer ==
    /\ server' = IF server = "serving" THEN "closing" ELSE server
    /\ socket' = "absent"

\* SIGTERM ends ctx, and runCtx with it.
Terminate ==
    /\ main = "running" /\ ~stopRun
    /\ stopRun' = TRUE
    /\ UNCHANGED <<main, starts, failure, errCh, completed, stoppedLog, httpVars, discovery,
                   engineVars, eventVars, outerVars>>

ContextEnded ==
    /\ main = "running" /\ stopRun
    /\ BeginShutdown /\ CloseServer
    /\ UNCHANGED <<starts, failure, errCh, completed, stoppedLog, handler, discovery, engineVars,
                   eventVars, lock, other>>

\* runDaemon takes an answer from errCh and keeps the first error.
TakeAnswer ==
    /\ errCh # <<>>
    /\ errCh' = Tail(errCh)
    /\ completed' = completed + 1

\* Faulty variant: the answer is noted, and the daemon goes on.
ComponentEndedNoted ==
    /\ main = "running" /\ TakeAnswer
    /\ failure' = IF Head(errCh) = "error" \/ ~stopRun THEN "component" ELSE failure
    /\ UNCHANGED <<main, starts, stopRun, stoppedLog, httpVars, discovery, engineVars, eventVars,
                   outerVars>>

\* The first answer of a component: after SIGTERM it may be a regular one.
ComponentEnded ==
    /\ main = "running" /\ TakeAnswer
    /\ BeginShutdown /\ CloseServer
    /\ failure' = IF Head(errCh) = "error" \/ ~stopRun THEN "component" ELSE failure
    /\ UNCHANGED <<starts, stoppedLog, handler, discovery, engineVars, eventVars, lock, other>>

\* Shutdown returns: no request is left, or its timeout passed and Close
\* ends the connections.
ShutdownReturns ==
    /\ main = "shutdown"
    /\ Goes("handlers")

\* Faulty variant: Shutdown and Close have waited for the requests.
HandlersJoinedEarly ==
    /\ main = "handlers"
    /\ Goes("components")

HandlersJoined ==
    /\ main = "handlers" /\ Working = {}
    /\ Goes("components")

\* Faulty variant: the answers are only counted.
ComponentJoinedCounted ==
    /\ main = "components" /\ TakeAnswer
    /\ UNCHANGED <<main, starts, stopRun, failure, stoppedLog, httpVars, discovery, engineVars,
                   eventVars, outerVars>>

ComponentJoined ==
    /\ main = "components" /\ completed < 3 /\ TakeAnswer
    /\ failure' = IF Head(errCh) = "error" THEN "component" ELSE failure
    /\ UNCHANGED <<main, starts, stopRun, stoppedLog, httpVars, discovery, engineVars, eventVars,
                   outerVars>>

\* All answers are in: the subscription is closed.
StopEvents ==
    /\ main = "components" /\ completed = 3 /\ EngineUnlocked
    /\ main' = "draining"
    /\ subscribed' = FALSE
    /\ UNCHANGED <<starts, stopRun, failure, errCh, completed, stoppedLog, httpVars, discovery,
                   engineVars, sequence, emit, queue, logger, logged, outerVars>>

\* componentCtx ends first: runDaemon returns without joining the rest.
JoinTimesOut ==
    /\ main = "components" /\ completed < 3
    /\ main' = "closing"
    /\ failure' = "timeout"
    /\ UNCHANGED <<starts, stopRun, errCh, completed, stoppedLog, httpVars, discovery, engineVars,
                   eventVars, outerVars>>

\* Faulty variant: the queue is closed and left.
LogStoppedUndrained ==
    /\ main = "draining"
    /\ stoppedLog' = TRUE
    /\ main' = "closing"
    /\ UNCHANGED <<starts, stopRun, failure, errCh, completed, httpVars, discovery, engineVars,
                   eventVars, outerVars>>

\* eventLogWG.Wait, and the last line of the log.
LogStopped ==
    /\ main = "draining" /\ logger = "ended"
    /\ stoppedLog' = TRUE
    /\ main' = "closing"
    /\ UNCHANGED <<starts, stopRun, failure, errCh, completed, httpVars, discovery, engineVars,
                   eventVars, outerVars>>

\* The deferred calls in their order: stopEvents, the listener's Close, which
\* removes whatever is at the path, the lock.
DeferredClose ==
    /\ main = "closing" /\ EngineUnlocked
    /\ main' = "releasing"
    /\ subscribed' = FALSE
    /\ socket' = "absent"
    /\ UNCHANGED <<starts, stopRun, failure, errCh, completed, stoppedLog, httpVars, discovery,
                   engineVars, sequence, emit, queue, logger, logged, lock, other>>

\* Faulty variant: the lock goes first.
ReleaseEarly ==
    /\ main \in {"closing", "releasing"} /\ lock = "ours"
    /\ lock' = "free"
    /\ main' = IF main = "closing" THEN "closing" ELSE "returned"
    /\ UNCHANGED <<starts, stopRun, failure, errCh, completed, stoppedLog, httpVars, discovery,
                   engineVars, eventVars, socket, other>>

ReleaseLock ==
    /\ main = "releasing"
    /\ lock' = "free"
    /\ main' = "returned"
    /\ UNCHANGED <<starts, stopRun, failure, errCh, completed, stoppedLog, httpVars, discovery,
                   engineVars, eventVars, socket, other>>

\* The process ends, and with it every goroutine that was not joined.
Exit ==
    /\ main = "returned"
    /\ Fresh("exited")
    /\ UNCHANGED <<starts, outerVars>>

\* The process is killed; the kernel releases the lock, the socket stays.
Killed ==
    /\ main # "exited"
    /\ Fresh("exited")
    /\ lock' = IF lock = "ours" THEN "free" ELSE lock
    /\ socket' = IF socket = "ours" THEN "stale" ELSE socket
    /\ UNCHANGED <<starts, other>>

-----------------------------------------------------------------------------
(* The other daemon *)

OtherStarts ==
    /\ other = "off" /\ lock = "free"
    /\ lock' = "theirs"
    /\ other' = "locked"
    /\ UNCHANGED <<mainVars, httpVars, discovery, engineVars, eventVars, socket>>

OtherListens ==
    /\ other = "locked" /\ socket \in {"absent", "stale"}
    /\ socket' = "theirs"
    /\ other' = "listening"
    /\ UNCHANGED <<mainVars, httpVars, discovery, engineVars, eventVars, lock>>

\* It stops, or it is killed and leaves its socket behind.
OtherStops ==
    /\ other # "off"
    /\ other' = "off"
    /\ lock' = "free"
    /\ \/ socket' = IF other = "listening" THEN "absent" ELSE socket
       \/ socket' = IF other = "listening" THEN "stale" ELSE socket
    /\ UNCHANGED <<mainVars, httpVars, discovery, engineVars, eventVars>>

-----------------------------------------------------------------------------
(* The components *)

\* Serve fails on its own, and closes the listener.
ServeFails ==
    /\ server = "serving"
    /\ server' = "failed"
    /\ socket' = "absent"
    /\ errCh' = Append(errCh, "error")
    /\ UNCHANGED <<main, starts, stopRun, failure, completed, stoppedLog, accepting, handler,
                   discovery, engineVars, eventVars, lock, other>>

\* Serve returns ErrServerClosed, which is no error.
ServeReturns ==
    /\ server = "closing"
    /\ server' = "closed"
    /\ errCh' = Append(errCh, "nil")
    /\ UNCHANGED <<main, starts, stopRun, failure, completed, stoppedLog, accepting, handler,
                   discovery, engineVars, eventVars, outerVars>>

\* ServeHTTP counts the request, or refuses it.  The connection may have been
\* accepted before the listener was closed.
ServeHTTP(h) ==
    /\ handler[h] = "idle" /\ server # "off"
    /\ accepting
    /\ handler' = [handler EXCEPT ![h] = "working"]
    /\ UNCHANGED <<mainVars, server, accepting, discovery, engineVars, eventVars, outerVars>>

HandlerReturns(h) ==
    /\ handler[h] = "working" /\ EngineUnlocked
    /\ handler' = [handler EXCEPT ![h] = "idle"]
    /\ UNCHANGED <<mainVars, server, accepting, discovery, engineVars, eventVars, outerVars>>

\* runPeriodic: a round, and the wait for the next.
DiscoveryRound ==
    /\ discovery = "waiting" /\ ~stopRun
    /\ discovery' = "working"
    /\ UNCHANGED <<mainVars, httpVars, engineVars, eventVars, outerVars>>

RoundEnds ==
    /\ discovery = "working"
    /\ discovery' = "waiting"
    /\ UNCHANGED <<mainVars, httpVars, engineVars, eventVars, outerVars>>

\* The rounds are over and the context has ended.
DiscoveryEnds ==
    /\ discovery = "waiting" /\ stopRun
    /\ discovery' = "off"
    /\ errCh' = Append(errCh, "nil")
    /\ UNCHANGED <<main, starts, stopRun, failure, completed, stoppedLog, httpVars, engineVars,
                   eventVars, outerVars>>

-----------------------------------------------------------------------------
(* The engine *)

RunStarts ==
    /\ run = "launched" /\ EngineUnlocked
    /\ run' = "running"
    /\ schedule' = [d \in Devices |-> IF d \in devices THEN "polling" ELSE "none"]
    /\ UNCHANGED <<mainVars, httpVars, discovery, devices, eventVars, outerVars>>

\* running becomes FALSE under the lock: the gate is closed before Wait.
RunStops ==
    /\ run = "running" /\ stopRun /\ EngineUnlocked
    /\ run' = "stopping"
    /\ UNCHANGED <<mainVars, httpVars, discovery, devices, schedule, eventVars, outerVars>>

RunReturns ==
    /\ run = "stopping" /\ Counted = {}
    /\ run' = "returned"
    /\ errCh' = Append(errCh, "nil")
    /\ UNCHANGED <<main, starts, stopRun, failure, completed, stoppedLog, httpVars, discovery,
                   devices, schedule, eventVars, outerVars>>

\* emitLocked: a full queue makes the event wait for an eviction.
BeginEmit ==
    /\ EngineUnlocked /\ sequence < MaxSequence
    /\ sequence' = sequence + 1
    /\ IF ~subscribed THEN UNCHANGED <<queue, emit>>
       ELSE IF Len(queue) < Buffer THEN queue' = Append(queue, sequence') /\ UNCHANGED emit
       ELSE emit' = "evict" /\ UNCHANGED queue

\* A poll or a request publishes an event.
Emit ==
    /\ Polling # {} \/ Working # {}
    /\ BeginEmit
    /\ UNCHANGED <<mainVars, httpVars, discovery, engineVars, subscribed, logger, logged,
                   outerVars>>

\* Faulty variant: the event that came last makes room.
EmitEvictsLast ==
    /\ emit = "evict"
    /\ emit' = "put"
    /\ queue' = IF queue = <<>> THEN queue ELSE SubSeq(queue, 1, Len(queue) - 1)
    /\ UNCHANGED <<mainVars, httpVars, discovery, engineVars, sequence, subscribed, logger,
                   logged, outerVars>>

\* The logger may have emptied the queue meanwhile.
EmitEvicts ==
    /\ emit = "evict"
    /\ emit' = "put"
    /\ queue' = IF queue = <<>> THEN queue ELSE Tail(queue)
    /\ UNCHANGED <<mainVars, httpVars, discovery, engineVars, sequence, subscribed, logger,
                   logged, outerVars>>

EmitPuts ==
    /\ emit = "put"
    /\ emit' = "idle"
    /\ queue' = IF Len(queue) < Buffer THEN Append(queue, sequence) ELSE queue
    /\ UNCHANGED <<mainVars, httpVars, discovery, engineVars, sequence, subscribed, logger,
                   logged, outerVars>>

\* Faulty variant: a stopping engine still takes schedules.
AddDeviceUngated(d) ==
    /\ Working # {} /\ d \notin devices
    /\ BeginEmit
    /\ devices' = devices \cup {d}
    /\ schedule' = IF run # "launched" THEN [schedule EXCEPT ![d] = "polling"] ELSE schedule
    /\ UNCHANGED <<mainVars, httpVars, discovery, run, subscribed, logger, logged, outerVars>>

\* AddDevice, from a request: the event, and a schedule if Run is active.
AddDevice(d) ==
    /\ Working # {} /\ d \notin devices
    /\ BeginEmit
    /\ devices' = devices \cup {d}
    /\ schedule' = IF run = "running" THEN [schedule EXCEPT ![d] = "polling"] ELSE schedule
    /\ UNCHANGED <<mainVars, httpVars, discovery, run, subscribed, logger, logged, outerVars>>

\* runDevice: the poll returns, and the timer or the context ends the sleep.
PollReturns(d) ==
    /\ schedule[d] = "polling" /\ EngineUnlocked
    /\ schedule' = [schedule EXCEPT ![d] = IF main = "once" THEN "none" ELSE "sleeping"]
    /\ UNCHANGED <<mainVars, httpVars, discovery, run, devices, eventVars, outerVars>>

TimerFires(d) ==
    /\ schedule[d] = "sleeping" /\ ~stopRun
    /\ schedule' = [schedule EXCEPT ![d] = "polling"]
    /\ UNCHANGED <<mainVars, httpVars, discovery, run, devices, eventVars, outerVars>>

ScheduleEnds(d) ==
    /\ schedule[d] = "sleeping" /\ stopRun
    /\ schedule' = [schedule EXCEPT ![d] = "none"]
    /\ UNCHANGED <<mainVars, httpVars, discovery, run, devices, eventVars, outerVars>>

LogEvent ==
    /\ logger = "reading" /\ queue # <<>>
    /\ logged' = Head(queue)
    /\ queue' = Tail(queue)
    /\ UNCHANGED <<mainVars, httpVars, discovery, engineVars, sequence, emit, subscribed, logger,
                   outerVars>>

\* The channel is closed and empty.
LoggerEnds ==
    /\ logger = "reading" /\ queue = <<>> /\ ~subscribed
    /\ logger' = "ended"
    /\ UNCHANGED <<mainVars, httpVars, discovery, engineVars, sequence, emit, queue, subscribed,
                   logged, outerVars>>

-----------------------------------------------------------------------------
MainStep ==
    \/ AcquireLock \/ StartFails \/ RunOnce \/ OnceReturns \/ StartComponents
    \/ ContextEnded \/ ComponentEnded \/ ShutdownReturns \/ HandlersJoined \/ ComponentJoined
    \/ StopEvents \/ JoinTimesOut \/ LogStopped \/ DeferredClose \/ ReleaseLock \/ Exit

ComponentStep ==
    \/ ServeFails \/ ServeReturns
    \/ \E h \in Handlers : ServeHTTP(h) \/ HandlerReturns(h)
    \/ DiscoveryRound \/ RoundEnds \/ DiscoveryEnds
    \/ RunStarts \/ RunStops \/ RunReturns
    \/ Emit \/ EmitEvicts \/ EmitPuts
    \/ \E d \in Devices : AddDevice(d) \/ PollReturns(d) \/ TimerFires(d) \/ ScheduleEnds(d)
    \/ LogEvent \/ LoggerEnds

Next == MainStep \/ ComponentStep \/ Terminate \/ Killed \/ OtherStarts \/ OtherListens \/ OtherStops

Spec == Init /\ [][Next]_vars

\* Every goroutine goes on; polls, requests and rounds have timeouts.  The
\* shutdown's own timers end the waits in "shutdown" and "components".
Fairness ==
    /\ WF_vars(StartFails \/ RunOnce \/ StartComponents)
    /\ WF_vars(ContextEnded \/ ComponentEnded)
    /\ WF_vars(OnceReturns) /\ WF_vars(ShutdownReturns) /\ WF_vars(HandlersJoined)
    /\ WF_vars(ComponentJoined \/ StopEvents \/ JoinTimesOut)
    /\ WF_vars(LogStopped) /\ SF_vars(DeferredClose) /\ WF_vars(ReleaseLock) /\ WF_vars(Exit)
    /\ \A h \in Handlers : SF_vars(HandlerReturns(h))
    /\ \A d \in Devices : SF_vars(PollReturns(d))
    /\ WF_vars(EmitEvicts) /\ WF_vars(EmitPuts)
    /\ WF_vars(LogEvent) /\ WF_vars(LoggerEnds)

FairSpec == Spec /\ Fairness

-----------------------------------------------------------------------------
(* Properties *)

\* "daemon stopped" is the last word: no request, poll or round is still
\* running, Run has returned, and every event still queued has been logged.
StoppedMeansJoined ==
    stoppedLog => /\ Working = {} /\ Counted = {} /\ discovery = "off" /\ run = "returned"
                  /\ queue = <<>> /\ logged = sequence

\* Run does not return while a schedule is running, not even one that an
\* enrollment registered while the daemon was stopping.
NoScheduleAfterRun == run = "returned" => Counted = {}

\* A slow logger loses the oldest events and nothing else: the queue holds the
\* newest ones without a gap, in order and none of them logged before, and it
\* is empty only when the last event is the one that was logged.
NewestEventKept ==
    subscribed /\ emit = "idle" =>
        /\ \A i \in 1..Len(queue) : queue[i] = (sequence - Len(queue)) + i
        /\ logged <= sequence - Len(queue)
        /\ queue = <<>> => logged = sequence

\* While another daemon listens, the socket at the path is its own: the late
\* Close of a daemon that is stopping does not remove it.
SocketKept == other = "listening" => socket = "theirs"

\* Another daemon holds the lock only when nothing is running here any more,
\* unless the shutdown gave up waiting and the process has yet to exit.
OneDaemon ==
    lock = "theirs" /\ failure # "timeout" =>
        Working = {} /\ Counted = {} /\ discovery = "off"

\* A failed component is never reported as a clean stop, whatever answers come
\* first and even when it fails while the daemon is being told to stop.
FailureReported == stoppedLog /\ server = "failed" => failure = "component"

\* When a component fails or the process is told to stop, the process ends:
\* no daemon goes on without its engine, its discovery or its socket, and no
\* shutdown hangs.
StopEndsProcess == (stopRun \/ server = "failed") ~> main = "exited"
=============================================================================
