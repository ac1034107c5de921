-------------------------- MODULE SessionLifecycle --------------------------
(***************************************************************************)
(* The life of one streaming session (session.c, shutdown.c, lifecycle.c,  *)
(* client_shutdown.c and the connect, handshake, authentication and        *)
(* negotiation handlers of the control channel).                           *)
(*                                                                         *)
(* Four threads run concurrently: the application calling the public API,  *)
(* the receive (RX) worker that owns the protocol state, the send worker,  *)
(* and an input (HID) producer that sends control messages from a timer.   *)
(* One action is one critical section of the Base lock, or one access to   *)
(* an atomic made outside of it.  "rx" is the RX worker's program counter; *)
(* "disc[t]" is the progress of thread t inside IHS_SessionDisconnect,     *)
(* which every thread may call and which takes several critical sections.  *)
(***************************************************************************)
EXTENDS Integers, Sequences

CONSTANTS
    HostMessages,  \* the control messages this host sends
    MaxPackets,    \* packets the host sends before it falls silent
    MaxWindow,     \* control messages received in one batch
    MaxFailures,   \* local failures (allocation, encryption) that happen
    MaxEdges,      \* foreground/background changes the application makes
    SilenceLimit,  \* update cycles without a packet before the lease expires
    PausedLimit    \* the same while the connection is paused

ASSUME MaxPacketsAssumption == MaxPackets \in Nat
ASSUME MaxWindowAssumption == MaxWindow \in Nat
ASSUME MaxFailuresAssumption == MaxFailures \in Nat
ASSUME MaxEdgesAssumption == MaxEdges \in Nat
ASSUME LimitsAssumption ==
    SilenceLimit \in Nat /\ PausedLimit \in Nat /\ 0 < SilenceLimit /\ SilenceLimit <= PausedLimit

\* IHS_SessionConnectionState, with the numeric order the code compares by.
Unconnected == 0
Connecting == 1
Handshaking == 2
Authenticating == 3
Negotiating == 4
Starting == 5
Connected == 6
Stopping == 7
Phases == 0..7

Threads == {"app", "rx", "hid"}

\* Control messages of the host, by what their handler does.
EarlyMessages == {"ServerHandshake", "AuthOK", "AuthBad", "NegotiationInit", "NegotiationSetConfig"}
GenericMessages == {"StopRequest", "StartVideo", "StopVideo"}
Messages == EarlyMessages \cup GenericMessages

ASSUME HostMessagesAssumption == HostMessages \subseteq Messages

Callbacks == {"initialized", "connecting", "connected", "disconnected", "finalized"}

RxPoints == {"off", "init", "initConnecting", "initBegin", "cycle", "recv", "handshake",
             "hello", "edges", "network", "deliver",
             "timeout", "timeoutClose", "drainGate", "drain", "dispatch", "authRequest",
             "authClosed", "stage", "complete", "connected", "stopMedia", "stopNotify",
             "stopPhase", "closed", "closedInterrupt", "fInterrupt", "fJoin", "fStop",
             "fRequested", "fClose", "fFinish", "fNotify", "fFinalized", "fSocket", "exited"}

VARIABLES
    phase,            \* state.connectionState, written by the RX worker only
    shutdown,         \* transport.shutdown: 0 live phase, 1 closing, 2 closed
    detached,         \* transport.detached
    goodbyes,         \* Disconnect (type 9) packets handed to the socket
    closeRequested,   \* transport.closeRequested
    heard,            \* history: a Disconnect call found the worker not interrupted
    disc,             \* progress of each thread inside IHS_SessionDisconnect
    interrupted,      \* base.interrupted
    notified,         \* transport.notified
    notifier,         \* thread that won the exchange and still has to call back
    calls,            \* history: how often each session callback has run
    clientPaused, connectionPaused,
    wanted,           \* transport.lifecycleGeneration
    applied,          \* transport.appliedGeneration
    target,           \* the generation PrepareUpdate read at its start
    quiet,            \* cycles since transport.lastReceive
    timedOut,
    window,           \* control messages received and not yet delivered
    incoming,         \* delivered control messages waiting for the drain
    rxMsg,            \* the message being dispatched
    budget,           \* packets the host may still send
    failures,         \* local failures that may still happen
    sendLock,         \* holder of the control channel's producer lock
    completeTried,    \* history: NegotiationComplete has been handed to the queue
    liveQueued,       \* history: a streaming-phase control message was queued
    media,            \* an audio or video channel is running
    worker,           \* base.worker is not NULL
    sender,           \* the send worker thread
    hid,              \* the input producer
    app,              \* the application thread
    rx,               \* program counter of the RX worker
    stopRet,          \* where ClientStopStreaming returns to
    requested         \* local of SessionFinalized

link == <<shutdown, detached, goodbyes>>
stop == <<closeRequested, heard, disc, interrupted, failures>>
notice == <<notified, notifier, calls>>
pause == <<clientPaused, connectionPaused, wanted, applied, target>>
timing == <<quiet, timedOut>>
input == <<window, incoming, rxMsg, budget>>
output == <<sendLock, completeTried, liveQueued>>
procs == <<worker, sender, hid, app>>
local == <<stopRet, requested>>
vars == <<phase, link, stop, notice, pause, timing, input, output, procs, media, rx, local>>

Init ==
    /\ phase = Unconnected
    /\ shutdown = 0 /\ detached = FALSE /\ goodbyes = 0
    /\ closeRequested = FALSE /\ heard = FALSE /\ interrupted = FALSE
    /\ disc = [t \in Threads |-> "none"]
    /\ notified = FALSE /\ notifier = "none" /\ calls = [c \in Callbacks |-> 0]
    /\ clientPaused = FALSE /\ connectionPaused = FALSE
    /\ wanted = 0 /\ applied = 0 /\ target = 0
    /\ quiet = 0 /\ timedOut = FALSE
    /\ window = <<>> /\ incoming = <<>> /\ rxMsg = "none" /\ budget = MaxPackets
    /\ sendLock = "none" /\ completeTried = FALSE /\ liveQueued = FALSE /\ failures = MaxFailures
    /\ media = FALSE
    /\ worker = FALSE /\ sender = "off" /\ hid = "idle" /\ app = "ready"
    /\ rx = "off" /\ stopRet = "closed" /\ requested = FALSE

-----------------------------------------------------------------------------
(* Operations the threads share.                                           *)

TransportState ==
    CASE shutdown = 1 -> "Closing"
      [] shutdown = 2 -> "Closed"
      [] shutdown = 0 /\ phase = Connecting -> "Connecting"
      [] shutdown = 0 /\ phase >= Handshaking -> "Connected"
      [] OTHER -> "Closed"

\* A thread runs its own code only outside of a Disconnect call and of a callback.
Free(t) == disc[t] = "none" /\ notifier # t

\* IHS_SessionDisconnect stores closeRequested first; the rest of the call follows in
\* DisconnectTransport, DisconnectInterrupt and DisconnectNotify.
RequestClose(t) ==
    /\ closeRequested' = TRUE
    /\ heard' = (heard \/ ~interrupted)
    /\ disc' = [disc EXCEPT ![t] = "transport"]
    /\ UNCHANGED interrupted

CallDisconnect(t) == RequestClose(t) /\ UNCHANGED failures

\* An allocation or a cipher failed, and the code path answers by disconnecting.
LocalFailure(t) == failures > 0 /\ failures' = failures - 1 /\ RequestClose(t)

\* Variant of TransportDisconnect that ignores a close in progress.
TransportDisconnectRepeats ==
    LET goodbye == ~detached /\ phase >= Handshaking
    IN  /\ goodbyes' = IF goodbye THEN goodbyes + 1 ELSE goodbyes
        /\ shutdown' = IF ~detached /\ TransportState # "Closed" THEN 1 ELSE shutdown

\* The goodbye is sent from a connected transport only, and never from a detached one.
TransportDisconnect ==
    LET goodbye == ~detached /\ TransportState = "Connected"
    IN  /\ goodbyes' = IF goodbye THEN goodbyes + 1 ELSE goodbyes
        /\ shutdown' = IF ~detached /\ TransportState # "Closed" THEN 1 ELSE shutdown

TransportClose == TransportDisconnect /\ detached' = TRUE

\* Variant of NotifyDisconnected that stores the flag without testing it.
NotifyDisconnectedAgain(t) ==
    /\ notified' = TRUE
    /\ notifier' = t
    /\ UNCHANGED calls

\* The exchange inside IHS_SessionNotifyDisconnected: one thread wins the callback.
NotifyDisconnected(t) ==
    /\ notified' = TRUE
    /\ notifier' = IF notified THEN notifier ELSE t
    /\ UNCHANGED calls

\* Variant of ClientTransportClosed that leaves the phases before streaming alone.
ClientTransportClosedKeeps ==
    /\ phase' = IF phase = Connected THEN Stopping ELSE phase
    /\ clientPaused' = (clientPaused /\ phase # Connected)

\* IHS_SessionClientTransportClosed outside of a network test.
ClientTransportClosed ==
    /\ phase' = IF phase = Connected THEN Stopping ELSE Unconnected
    /\ clientPaused' = (clientPaused /\ phase # Connected)

TransportFinish ==
    \/ /\ shutdown # 1
       /\ UNCHANGED <<shutdown, phase, clientPaused>>
    \/ /\ shutdown = 1
       /\ shutdown' = 2
       /\ IF detached THEN UNCHANGED <<phase, clientPaused>> ELSE ClientTransportClosed

Run(callback) == calls' = [calls EXCEPT ![callback] = @ + 1]

\* Admission of IHS_SessionQueuePacketResult for a connected-only packet.
CanQueue == ~detached /\ TransportState = "Connected"

\* IHS_SessionChannelControlSend by thread t.  "live" marks the messages that belong to the
\* streaming phase.  A local failure (allocation, encryption) of a live transport disconnects.
ControlSend(t, live) ==
    /\ sendLock = "none"
    /\ \/ /\ liveQueued' = (liveQueued \/ (live /\ CanQueue))
          /\ UNCHANGED stop
       \/ /\ shutdown = 0 /\ ~detached
          /\ LocalFailure(t)
          /\ UNCHANGED liveQueued
    /\ UNCHANGED <<sendLock, completeTried>>

-----------------------------------------------------------------------------
(* IHS_SessionDisconnect after its first store, by any thread.             *)

DisconnectTransport(t) ==
    /\ disc[t] = "transport"
    /\ IF worker THEN TransportDisconnect /\ UNCHANGED detached ELSE TransportClose
    /\ disc' = [disc EXCEPT ![t] = "interrupt"]
    /\ UNCHANGED <<failures, closeRequested, heard, interrupted, phase, notice, pause, timing, input,
                   output, procs, media, rx, local>>

\* IHS_SessionInterrupt: without a worker the caller stops the channels itself.
DisconnectInterrupt(t) ==
    /\ disc[t] = "interrupt"
    /\ interrupted' = TRUE
    /\ media' = (media /\ worker)
    /\ disc' = [disc EXCEPT ![t] = "notify"]
    /\ UNCHANGED <<failures, closeRequested, heard, phase, link, notice, pause, timing, input, output,
                   procs, rx, local>>

\* Variant of DisconnectNotify that calls back although the worker will.
DisconnectNotifyAlways(t) ==
    /\ disc[t] = "notify"
    /\ NotifyDisconnected(t)
    /\ disc' = [disc EXCEPT ![t] = "none"]
    /\ UNCHANGED <<failures, closeRequested, heard, interrupted, phase, link, pause, timing, input,
                   output, procs, media, rx, local>>

DisconnectNotify(t) ==
    /\ disc[t] = "notify"
    /\ IF worker THEN UNCHANGED notice ELSE NotifyDisconnected(t)
    /\ disc' = [disc EXCEPT ![t] = "none"]
    /\ UNCHANGED <<failures, closeRequested, heard, interrupted, phase, link, pause, timing, input,
                   output, procs, media, rx, local>>

\* The callback itself, after the Base lock is released.
DisconnectedCallback(t) ==
    /\ notifier = t
    /\ notifier' = "none"
    /\ Run("disconnected")
    /\ UNCHANGED <<notified, phase, link, stop, pause, timing, input, output, procs, media, rx,
                   local>>

DisconnectStep(t) ==
    \/ DisconnectTransport(t)
    \/ DisconnectInterrupt(t)
    \/ DisconnectNotify(t)
    \/ DisconnectedCallback(t)

-----------------------------------------------------------------------------
(* The RX worker: start, and one receive cycle.                            *)

RxAt(point) == rx = point /\ Free("rx")

Init0 ==
    /\ RxAt("init")
    /\ \/ /\ interrupted \/ detached
          /\ rx' = "cycle"
          /\ UNCHANGED <<interrupted, failures, sender, calls>>
       \/ /\ ~interrupted /\ ~detached     \* the socket cannot be made nonblocking
          /\ failures > 0
          /\ failures' = failures - 1
          /\ interrupted' = TRUE
          /\ rx' = "cycle"
          /\ UNCHANGED <<sender, calls>>
       \/ /\ ~interrupted /\ ~detached
          /\ sender' \in {"running", "off"}   \* thread creation is not checked
          /\ Run("initialized")
          /\ rx' = "initConnecting"
          /\ UNCHANGED <<interrupted, failures>>
    /\ UNCHANGED <<closeRequested, heard, disc, notified, notifier, phase, link, pause, timing,
                   input, output, worker, hid, app, media, local>>

InitConnecting ==
    /\ RxAt("initConnecting")
    /\ Run("connecting")
    /\ rx' = "initBegin"
    /\ UNCHANGED <<notified, notifier, phase, link, stop, pause, timing, input, output, procs,
                   media, local>>

InitBegin ==
    /\ RxAt("initBegin")
    /\ rx' = "cycle"
    /\ IF detached \/ interrupted
       THEN UNCHANGED <<phase, quiet>>
       ELSE phase' = Connecting /\ quiet' = 0
    /\ UNCHANGED <<link, stop, notice, pause, timedOut, input, output,
                   procs, media, local>>

\* Variant of Cycle that runs until the transport is detached.
CycleUntilDetached ==
    /\ RxAt("cycle")
    /\ rx' = IF interrupted /\ detached THEN "fInterrupt" ELSE "recv"
    /\ UNCHANGED <<phase, link, stop, notice, pause, timing, input, output, procs, media, local>>

Cycle ==
    /\ RxAt("cycle")
    /\ rx' = IF interrupted THEN "fInterrupt" ELSE "recv"
    /\ UNCHANGED <<phase, link, stop, notice, pause, timing, input, output, procs, media, local>>

\* The address, connection-ID and lease gates of SessionRecvAt, for a packet of this host.
Accepts == ~detached /\ shutdown # 2 /\ ~timedOut

Receive ==
    /\ RxAt("recv")
    /\ budget > 0
    /\ budget' = budget - 1
    /\ Accepts
    /\ quiet' = 0
    /\ UNCHANGED <<timedOut, incoming, rxMsg>>

\* Variant of RecvConnectACK that accepts a repeated acknowledgement.
RecvConnectACKTwice ==
    /\ Receive
    /\ UNCHANGED window
    /\ rx' = IF TransportState \in {"Connecting", "Connected"} THEN "handshake" ELSE "cycle"
    /\ UNCHANGED <<phase, link, stop, notice, pause, output, procs, media, local>>

\* The guards of OnConnectACK.
RecvConnectACK ==
    /\ Receive
    /\ UNCHANGED window
    /\ rx' = IF phase = Connecting /\ TransportState = "Connecting" THEN "handshake"
                                                                    ELSE "cycle"
    /\ UNCHANGED <<phase, link, stop, notice, pause, output, procs, media, local>>

\* A reliable packet on the control channel enters the receive window.
RecvControl(m) ==
    /\ Receive
    /\ phase >= Handshaking
    /\ Len(window) < MaxWindow
    /\ window' = Append(window, m)
    /\ rx' = "cycle"
    /\ UNCHANGED <<phase, link, stop, notice, pause, output, procs, media, local>>

RecvDisconnect ==
    /\ Receive
    /\ UNCHANGED window
    /\ phase >= Handshaking
    /\ IF TransportState = "Connected" THEN TransportDisconnect
                                       ELSE UNCHANGED <<shutdown, goodbyes>>
    /\ rx' = "cycle"
    /\ UNCHANGED <<detached, phase, stop, notice, pause, output, procs, media, local>>

\* IHS_SessionChannelControlHandshake: the phase first, then the ClientHandshake.
ControlHandshake ==
    /\ RxAt("handshake")
    /\ phase' = Handshaking
    /\ rx' = "hello"
    /\ UNCHANGED <<link, stop, notice, pause, timing, input, output, procs, media, local>>

ClientHandshake ==
    /\ RxAt("hello")
    /\ ControlSend("rx", FALSE)
    /\ rx' = "cycle"
    /\ UNCHANGED <<phase, link, notice, pause, timing, input, procs, media, local>>

\* The batch ends, and the update a tick later first reads the lifecycle generation.
EndBatch ==
    /\ RxAt("recv")
    /\ rx' = "edges"
    /\ quiet' = IF quiet < PausedLimit THEN quiet + 1 ELSE quiet
    /\ target' = wanted
    /\ UNCHANGED <<clientPaused, connectionPaused, wanted, applied, timedOut, phase, link, stop,
                   notice, input, output, procs, media, local>>

-----------------------------------------------------------------------------
(* SessionUpdateAt: lifecycle edges, retirement, network, lease, control.  *)

\* Variant of ChangeForeground that forgets the connection's lease on resume.
ChangeForegroundKeepsLease ==
    LET background == (applied + 1) % 2 = 1
        connected == TransportState = "Connected" /\ ~detached /\ ~interrupted
        acts == clientPaused # background /\ connected
    IN  /\ RxAt("edges")
        /\ applied # target
        /\ applied' = applied + 1
        /\ clientPaused' = background
        /\ connectionPaused' = (connectionPaused \/ (acts /\ background))
        /\ quiet' = IF acts /\ ~background THEN 0 ELSE quiet
        /\ IF acts /\ phase = Connected THEN ControlSend("rx", TRUE)
                                        ELSE UNCHANGED <<output, stop>>
        /\ UNCHANGED <<wanted, target, timedOut, phase, link, notice, input, procs, media, rx,
                       local>>

\* One queued edge.  Odd generations are background.  Streaming sessions send Pause or Resume.
ChangeForeground ==
    LET background == (applied + 1) % 2 = 1
        connected == TransportState = "Connected" /\ ~detached /\ ~interrupted
        acts == clientPaused # background /\ connected
    IN  /\ RxAt("edges")
        /\ applied # target
        /\ applied' = applied + 1
        /\ clientPaused' = background
        /\ connectionPaused' = IF acts THEN background ELSE connectionPaused
        /\ quiet' = IF acts /\ ~background THEN 0 ELSE quiet
        /\ IF acts /\ phase = Connected THEN ControlSend("rx", TRUE)
                                        ELSE UNCHANGED <<output, stop>>
        /\ UNCHANGED <<wanted, target, timedOut, phase, link, notice, input, procs, media, rx,
                       local>>

\* The rest of PrepareUpdate retires a closing transport (or repeats the Connect packet).
PrepareUpdate ==
    /\ RxAt("edges")
    /\ applied = target
    /\ TransportFinish
    /\ rx' = "network"
    /\ UNCHANGED <<detached, goodbyes, stop, notice, connectionPaused, wanted, applied, target,
                   timing, input, output, procs, media, local>>

NetworkGate ==
    /\ RxAt("network")
    /\ rx' = IF ~interrupted /\ ~detached /\ TransportState = "Connected" THEN "deliver"
                                                                         ELSE "timeout"
    /\ UNCHANGED <<phase, link, stop, notice, pause, timing, input, output, procs, media, local>>

\* IHS_SessionNetworkUpdateAt polls the window; IHS_SessionDeliverReliableFrame and
\* ReceiveFrame discard the frames of a dead session and hand the others to the queue.
NetworkUpdate ==
    /\ RxAt("deliver")
    /\ incoming' = IF phase \notin {Unconnected, Stopping} /\ ~interrupted /\ ~detached
                   THEN incoming \o window ELSE incoming
    /\ window' = <<>>
    /\ rx' = "timeout"
    /\ UNCHANGED <<rxMsg, budget, phase, link, stop, notice, pause, timing, output, procs,
                   media, local>>

Lease == IF connectionPaused THEN PausedLimit ELSE SilenceLimit

\* Variant of CheckTimeout without a lease while connecting.
CheckTimeoutConnectedOnly ==
    LET expired == /\ ~timedOut /\ ~detached
                   /\ TransportState = "Connected"
                   /\ quiet >= Lease
    IN  /\ RxAt("timeout")
        /\ timedOut' = (timedOut \/ expired)
        /\ rx' = IF expired THEN "timeoutClose" ELSE "drainGate"
        /\ UNCHANGED <<quiet, phase, link, stop, notice, pause, input, output, procs, media,
                       local>>

CheckTimeout ==
    LET expired == /\ ~timedOut /\ ~detached
                   /\ TransportState \in {"Connecting", "Connected"}
                   /\ quiet >= Lease
    IN  /\ RxAt("timeout")
        /\ timedOut' = (timedOut \/ expired)
        /\ rx' = IF expired THEN "timeoutClose" ELSE "drainGate"
        /\ UNCHANGED <<quiet, phase, link, stop, notice, pause, input, output, procs, media,
                       local>>

TimeoutClose ==
    /\ RxAt("timeoutClose")
    /\ TransportDisconnect
    /\ rx' = "drainGate"
    /\ UNCHANGED <<detached, phase, stop, notice, pause, timing, input, output, procs, media,
                   local>>

DrainGate ==
    /\ RxAt("drainGate")
    /\ rx' = IF interrupted \/ detached THEN "cycle" ELSE "drain"
    /\ UNCHANGED <<phase, link, stop, notice, pause, timing, input, output, procs, media, local>>

CanDispatch(m) ==
    CASE phase = Handshaking -> m = "ServerHandshake"
      [] phase = Authenticating -> m \in {"AuthOK", "AuthBad"}
      [] phase = Negotiating -> m \in {"NegotiationInit", "NegotiationSetConfig"}
      [] OTHER -> m \in GenericMessages

\* Pop one message; the phase is read again for every message.
DrainIncoming ==
    /\ RxAt("drain")
    /\ incoming # <<>>
    /\ incoming' = Tail(incoming)
    /\ IF ~interrupted /\ ~detached /\ CanDispatch(Head(incoming))
       THEN rxMsg' = Head(incoming) /\ rx' = "dispatch"
       ELSE UNCHANGED <<rxMsg, rx>>
    /\ UNCHANGED <<window, budget, phase, link, stop, notice, pause, timing, output, procs,
                   media, local>>

DrainDone ==
    /\ RxAt("drain")
    /\ incoming = <<>>
    /\ rx' = "stage"
    /\ UNCHANGED <<phase, link, stop, notice, pause, timing, input, output, procs, media, local>>

-----------------------------------------------------------------------------
(* Handlers of the drained control messages.                               *)

Dispatching(m) == RxAt("dispatch") /\ rxMsg = m

\* A message that does not parse, or lacks a required part, has no effect.
OnMalformed ==
    /\ RxAt("dispatch")
    /\ rxMsg \notin {"StopRequest"}
    /\ rx' = "drain"
    /\ UNCHANGED <<phase, link, stop, notice, pause, timing, input, output, procs, media, local>>

OnServerHandshake ==
    /\ Dispatching("ServerHandshake")
    /\ phase = Handshaking
    /\ phase' = Authenticating
    /\ rx' = "authRequest"
    /\ UNCHANGED <<link, stop, notice, pause, timing, input, output, procs, media, local>>

\* The request, or a failed HMAC.
RequestAuthentication ==
    /\ RxAt("authRequest")
    /\ \/ ControlSend("rx", FALSE)
       \/ LocalFailure("rx") /\ UNCHANGED output
    /\ rx' = "drain"
    /\ UNCHANGED <<phase, link, notice, pause, timing, input, procs, media, local>>

OnAuthenticated ==
    /\ Dispatching("AuthOK")
    /\ phase = Authenticating
    /\ phase' = Negotiating
    /\ rx' = "drain"
    /\ UNCHANGED <<link, stop, notice, pause, timing, input, output, procs, media, local>>

OnAuthRejected ==
    /\ Dispatching("AuthBad")
    /\ phase = Authenticating
    /\ CallDisconnect("rx")
    /\ rx' = "authClosed"
    /\ UNCHANGED <<phase, link, notice, pause, timing, input, output, procs, media, local>>

AuthClosed ==
    /\ RxAt("authClosed")
    /\ ClientTransportClosed
    /\ rx' = "drain"
    /\ UNCHANGED <<link, stop, notice, connectionPaused, wanted, applied, target, timing, input,
                   output, procs, media, local>>

\* Answer with SetConfig; a configuration that cannot be stored disconnects.
OnNegotiationInit ==
    /\ Dispatching("NegotiationInit")
    /\ phase = Negotiating
    /\ \/ ControlSend("rx", FALSE)
       \/ LocalFailure("rx") /\ UNCHANGED output
    /\ rx' = "drain"
    /\ UNCHANGED <<phase, link, notice, pause, timing, input, procs, media, local>>

OnNegotiationSetConfig ==
    /\ Dispatching("NegotiationSetConfig")
    /\ phase = Negotiating
    /\ \/ phase' = Starting /\ UNCHANGED stop
       \/ LocalFailure("rx") /\ UNCHANGED phase
    /\ rx' = "drain"
    /\ UNCHANGED <<link, notice, pause, timing, input, output, procs, media, local>>

HostStopped ==
    /\ Dispatching("StopRequest")
    /\ CallDisconnect("rx")
    /\ rx' = "drain"
    /\ UNCHANGED <<phase, link, notice, pause, timing, input, output, procs, media, local>>

OnMediaControl ==
    /\ Dispatching("StartVideo") \/ Dispatching("StopVideo")
    /\ media' = (rxMsg = "StartVideo")
    /\ rx' = "drain"
    /\ UNCHANGED <<phase, link, stop, notice, pause, timing, input, output, procs, local>>

-----------------------------------------------------------------------------
(* UpdateStage, the closed notice, and the stop of a streaming client.     *)

StageStop ==
    /\ RxAt("stage")
    /\ ~interrupted /\ ~detached /\ phase = Stopping
    /\ stopRet' = "closed"
    /\ rx' = "stopMedia"
    /\ UNCHANGED <<requested, phase, link, stop, notice, pause, timing, input, output, procs,
                   media>>

\* Variant of StageStart that publishes the phase without the producer lock.
StageStartUnlocked ==
    /\ RxAt("stage")
    /\ ~interrupted /\ ~detached /\ phase = Starting
    /\ phase' = Connected
    /\ rx' = "complete"
    /\ UNCHANGED <<output, link, stop, notice, pause, timing, input, procs, media, local>>

\* The live phase is published while the producer lock is held ...
StageStart ==
    /\ RxAt("stage")
    /\ ~interrupted /\ ~detached /\ phase = Starting
    /\ sendLock = "none"
    /\ sendLock' = "rx"
    /\ phase' = Connected
    /\ rx' = "complete"
    /\ UNCHANGED <<completeTried, liveQueued, link, stop, notice, pause, timing, input,
                   procs, media, local>>

\* ... until NegotiationComplete has been queued.
StageComplete ==
    /\ RxAt("complete")
    /\ sendLock' = "none"
    /\ completeTried' = TRUE
    /\ \/ UNCHANGED stop
       \/ shutdown = 0 /\ ~detached /\ LocalFailure("rx")
    /\ rx' = "connected"
    /\ UNCHANGED <<liveQueued, phase, link, notice, pause, timing, input, procs, media, local>>

ConnectedCallback ==
    /\ RxAt("connected")
    /\ Run("connected")
    /\ rx' = "closed"
    /\ UNCHANGED <<notified, notifier, phase, link, stop, pause, timing, input, output, procs,
                   media, local>>

\* A streaming client may send its statistics or its keep-alive.
StageStreaming ==
    /\ RxAt("stage")
    /\ ~interrupted /\ ~detached /\ phase = Connected
    /\ ControlSend("rx", TRUE)
    /\ rx' = "closed"
    /\ UNCHANGED <<phase, link, notice, pause, timing, input, procs, media, local>>

StageIdle ==
    /\ RxAt("stage")
    /\ interrupted \/ detached \/ phase \notin {Stopping, Starting}
    /\ rx' = "closed"
    /\ UNCHANGED <<phase, link, stop, notice, pause, timing, input, output, procs, media, local>>

\* Variant of StopMedia that leaves the consumers to the finalizer.
StopMediaLate ==
    /\ RxAt("stopMedia")
    /\ rx' = "stopNotify"
    /\ UNCHANGED <<media, phase, link, stop, notice, pause, timing, input, output, procs, local>>

\* IHS_SessionClientStopStreaming: media first, then the notice, then the phase.
StopMedia ==
    /\ RxAt("stopMedia")
    /\ media' = FALSE
    /\ rx' = "stopNotify"
    /\ UNCHANGED <<phase, link, stop, notice, pause, timing, input, output, procs, local>>

StopNotify ==
    /\ RxAt("stopNotify")
    /\ NotifyDisconnected("rx")
    /\ rx' = "stopPhase"
    /\ UNCHANGED <<phase, link, stop, pause, timing, input, output, procs, media, local>>

\* Variant of StopPhase that advances the phase instead of resetting it.
StopPhaseAdvances ==
    /\ RxAt("stopPhase")
    /\ phase' = phase + 1
    /\ rx' = stopRet
    /\ UNCHANGED <<link, stop, notice, pause, timing, input, output, procs, media, local>>

StopPhase ==
    /\ RxAt("stopPhase")
    /\ phase' = Unconnected
    /\ rx' = stopRet
    /\ UNCHANGED <<link, stop, notice, pause, timing, input, output, procs, media, local>>

\* The end of SessionUpdateAt: a retired transport is reported and stops the worker.
ClosedNotice ==
    /\ RxAt("closed")
    /\ IF TransportState = "Closed" /\ ~interrupted /\ ~detached
       THEN NotifyDisconnected("rx") /\ rx' = "closedInterrupt"
       ELSE UNCHANGED notice /\ rx' = "cycle"
    /\ UNCHANGED <<phase, link, stop, pause, timing, input, output, procs, media, local>>

ClosedInterrupt ==
    /\ RxAt("closedInterrupt")
    /\ interrupted' = TRUE
    /\ rx' = "cycle"
    /\ UNCHANGED <<failures, closeRequested, heard, disc, phase, link, notice, pause, timing, input,
                   output, procs, media, local>>

-----------------------------------------------------------------------------
(* SessionFinalized and the end of BaseWorker.                             *)

FinalInterrupt ==
    /\ RxAt("fInterrupt")
    /\ interrupted' = TRUE
    /\ rx' = "fJoin"
    /\ UNCHANGED <<failures, closeRequested, heard, disc, phase, link, notice, pause, timing, input,
                   output, procs, media, local>>

\* Variant of FinalJoin that does not wait.
FinalJoinSkips ==
    /\ RxAt("fJoin")
    /\ rx' = "fStop"
    /\ UNCHANGED <<phase, link, stop, notice, pause, timing, input, output, procs, media, local>>

FinalJoin ==
    /\ RxAt("fJoin")
    /\ sender # "running"
    /\ rx' = "fStop"
    /\ UNCHANGED <<phase, link, stop, notice, pause, timing, input, output, procs, media, local>>

FinalStop ==
    /\ RxAt("fStop")
    /\ IF phase \in {Connected, Stopping} THEN rx' = "stopMedia" /\ stopRet' = "fRequested"
                                          ELSE rx' = "fRequested" /\ UNCHANGED stopRet
    /\ UNCHANGED <<requested, phase, link, stop, notice, pause, timing, input, output, procs,
                   media>>

\* Variant of FinalRequested that forgets a request made before the transport began.
FinalRequestedForgets ==
    /\ RxAt("fRequested")
    /\ media' = FALSE
    /\ requested' = (detached \/ shutdown # 0)
    /\ rx' = "fClose"
    /\ UNCHANGED <<stopRet, phase, link, stop, notice, pause, timing, input, output, procs>>

\* The remaining channels stop, then the reason for the end is read.
FinalRequested ==
    /\ RxAt("fRequested")
    /\ media' = FALSE
    /\ requested' = (detached \/ shutdown # 0 \/ closeRequested)
    /\ rx' = "fClose"
    /\ UNCHANGED <<stopRet, phase, link, stop, notice, pause, timing, input, output, procs>>

FinalClose ==
    /\ RxAt("fClose")
    /\ TransportClose
    /\ rx' = "fFinish"
    /\ UNCHANGED <<phase, stop, notice, pause, timing, input, output, procs, media, local>>

FinalFinish ==
    /\ RxAt("fFinish")
    /\ incoming' = <<>>
    /\ clientPaused' = FALSE
    /\ shutdown' = IF shutdown = 1 THEN 2 ELSE shutdown
    /\ rx' = "fNotify"
    /\ UNCHANGED <<detached, goodbyes, connectionPaused, wanted, applied, target, window,
                   rxMsg, budget, phase, stop, notice, timing, output, procs, media, local>>

FinalNotify ==
    /\ RxAt("fNotify")
    /\ IF requested THEN NotifyDisconnected("rx") ELSE UNCHANGED notice
    /\ rx' = "fFinalized"
    /\ UNCHANGED <<phase, link, stop, pause, timing, input, output, procs, media, local>>

FinalizedCallback ==
    /\ RxAt("fFinalized")
    /\ Run("finalized")
    /\ rx' = "fSocket"
    /\ UNCHANGED <<notified, notifier, phase, link, stop, pause, timing, input, output, procs,
                   media, local>>

WorkerExit ==
    /\ RxAt("fSocket")
    /\ rx' = "exited"
    /\ UNCHANGED <<phase, link, stop, notice, pause, timing, input, output, procs, media, local>>

-----------------------------------------------------------------------------
(* The send worker and the input producer.                                 *)

\* SessionSendWorker runs until it sees the interrupt; its wait times out after 1 ms, so it
\* needs no wake-up.  What it sends is the subject of module Retransmission.
SenderExit ==
    /\ sender = "running" /\ interrupted
    /\ sender' = "exited"
    /\ UNCHANGED <<worker, hid, app, phase, link, stop, notice, pause, timing, input, output,
                   media, rx, local>>

\* IHS_SessionChannelControlSubmitHIDReport reads the phase before it takes the lock.
HidCheck ==
    /\ hid = "idle" /\ Free("hid") /\ phase = Connected
    /\ hid' = "checked"
    /\ UNCHANGED <<worker, sender, app, phase, link, stop, notice, pause, timing, input, output,
                   media, rx, local>>

HidSend ==
    /\ hid = "checked" /\ Free("hid")
    /\ ControlSend("hid", TRUE)
    /\ hid' = "idle"
    /\ UNCHANGED <<worker, sender, app, phase, link, notice, pause, timing, input, media, rx,
                   local>>

-----------------------------------------------------------------------------
(* The application thread.                                                 *)

AppAt(point) == app = point /\ Free("app")

\* Beyond the finalized callback an application may only join and destroy the session.
AppMayCall == AppAt("ready") /\ calls["finalized"] = 0

\* IHS_SessionConnect with a socket and a thread; a failed start changes nothing.
AppConnect ==
    /\ AppMayCall
    /\ ~worker /\ rx = "off"
    /\ worker' = TRUE
    /\ rx' = "init"
    /\ UNCHANGED <<sender, hid, app, phase, link, stop, notice, pause, timing, input, output,
                   media, local>>

AppDisconnect ==
    /\ AppMayCall
    /\ CallDisconnect("app")
    /\ UNCHANGED <<phase, link, notice, pause, timing, input, output, procs, media, rx, local>>

AppInterrupt ==
    /\ AppMayCall
    /\ interrupted' = TRUE
    /\ media' = (media /\ worker)
    /\ UNCHANGED <<failures, closeRequested, heard, disc, phase, link, notice, pause, timing, input,
                   output, procs, rx, local>>

\* IHS_SessionStopGame checks the phase and sends under the Base lock.
AppStopGame ==
    /\ AppMayCall
    /\ phase = Connected
    /\ ControlSend("app", TRUE)
    /\ UNCHANGED <<phase, link, notice, pause, timing, input, procs, media, rx, local>>

AppSetForeground ==
    /\ AppMayCall
    /\ wanted < MaxEdges
    /\ wanted' = wanted + 1
    /\ UNCHANGED <<clientPaused, connectionPaused, applied, target, phase, link, stop, notice,
                   timing, input, output, procs, media, rx, local>>

AppJoin ==
    /\ AppAt("ready")
    /\ worker
    /\ app' = "joining"
    /\ UNCHANGED <<worker, sender, hid, phase, link, stop, notice, pause, timing, input, output,
                   media, rx, local>>

AppJoined ==
    /\ AppAt("joining")
    /\ rx = "exited"
    /\ worker' = FALSE
    /\ app' = "ready"
    /\ UNCHANGED <<sender, hid, phase, link, stop, notice, pause, timing, input, output, media,
                   rx, local>>

\* IHS_SessionDestroy first stops the input timer, which waits for a running tick.
AppDestroy ==
    /\ AppAt("ready")
    /\ app' = "destroyTimer"
    /\ UNCHANGED <<worker, sender, hid, phase, link, stop, notice, pause, timing, input, output,
                   media, rx, local>>

DestroyTimer ==
    /\ AppAt("destroyTimer")
    /\ hid = "idle" /\ Free("hid")
    /\ hid' = "stopped"
    /\ app' = "destroyInterrupt"
    /\ UNCHANGED <<worker, sender, phase, link, stop, notice, pause, timing, input, output,
                   media, rx, local>>

DestroyInterrupt ==
    /\ AppAt("destroyInterrupt")
    /\ interrupted' = TRUE
    /\ media' = (media /\ worker)
    /\ app' = "destroyJoin"
    /\ UNCHANGED <<worker, sender, hid, failures, closeRequested, heard, disc, phase, link, notice, pause,
                   timing, input, output, rx, local>>

DestroyJoin ==
    /\ AppAt("destroyJoin")
    /\ worker => rx = "exited"
    /\ worker' = FALSE
    /\ media' = FALSE
    /\ app' = "freed"
    /\ UNCHANGED <<sender, hid, phase, link, stop, notice, pause, timing, input, output, rx,
                   local>>

Freed ==
    /\ app = "freed"
    /\ UNCHANGED vars

-----------------------------------------------------------------------------
RxStart == Init0 \/ InitConnecting \/ InitBegin

RxReceive ==
    \/ Cycle \/ RecvConnectACK \/ RecvDisconnect
    \/ \E m \in HostMessages : RecvControl(m)
    \/ ControlHandshake \/ ClientHandshake \/ EndBatch

RxUpdate ==
    \/ ChangeForeground \/ PrepareUpdate \/ NetworkGate \/ NetworkUpdate \/ CheckTimeout
    \/ TimeoutClose \/ DrainGate \/ DrainIncoming \/ DrainDone

RxHandle ==
    \/ OnMalformed \/ OnServerHandshake \/ RequestAuthentication \/ OnAuthenticated
    \/ OnAuthRejected \/ AuthClosed \/ OnNegotiationInit \/ OnNegotiationSetConfig
    \/ HostStopped \/ OnMediaControl

RxStage ==
    \/ StageStop \/ StageStart \/ StageComplete \/ ConnectedCallback \/ StageStreaming
    \/ StageIdle \/ StopMedia \/ StopNotify \/ StopPhase \/ ClosedNotice \/ ClosedInterrupt

RxFinal ==
    \/ FinalInterrupt \/ FinalJoin \/ FinalStop \/ FinalRequested \/ FinalClose \/ FinalFinish
    \/ FinalNotify \/ FinalizedCallback \/ WorkerExit

RxNext == RxStart \/ RxReceive \/ RxUpdate \/ RxHandle \/ RxStage \/ RxFinal

AppCall ==
    \/ AppConnect \/ AppDisconnect \/ AppInterrupt \/ AppStopGame \/ AppSetForeground
    \/ AppJoin \/ AppDestroy

AppResume == AppJoined \/ DestroyTimer \/ DestroyInterrupt \/ DestroyJoin

Next ==
    \/ RxNext
    \/ \E t \in Threads : DisconnectStep(t)
    \/ SenderExit
    \/ HidCheck \/ HidSend
    \/ AppCall \/ AppResume
    \/ Freed

\* Threads that are inside the library keep running; the application may stop calling it,
\* the host may stop sending, and the input timer need not fire.
Fairness ==
    /\ WF_vars(RxNext)
    /\ \A t \in Threads : WF_vars(DisconnectStep(t))
    /\ WF_vars(SenderExit)
    /\ WF_vars(HidSend)
    /\ WF_vars(AppResume)

Spec == Init /\ [][Next]_vars /\ Fairness

-----------------------------------------------------------------------------
(* Properties.                                                             *)

Discs == {"none", "transport", "interrupt", "notify"}

LinkOK == shutdown \in 0..2 /\ detached \in BOOLEAN /\ goodbyes \in Nat

StopOK ==
    /\ closeRequested \in BOOLEAN /\ heard \in BOOLEAN /\ interrupted \in BOOLEAN
    /\ disc \in [Threads -> Discs] /\ failures \in 0..MaxFailures

NoticeOK ==
    /\ notified \in BOOLEAN /\ notifier \in Threads \cup {"none"}
    /\ calls \in [Callbacks -> Nat]

PauseOK ==
    /\ clientPaused \in BOOLEAN /\ connectionPaused \in BOOLEAN
    /\ wanted \in 0..MaxEdges /\ applied \in 0..MaxEdges /\ target \in 0..MaxEdges
    /\ applied <= target /\ target <= wanted

TimingOK == quiet \in 0..PausedLimit /\ timedOut \in BOOLEAN

InputOK ==
    /\ window \in Seq(Messages) /\ incoming \in Seq(Messages)
    /\ rxMsg \in Messages \cup {"none"} /\ budget \in 0..MaxPackets

OutputOK == sendLock \in {"none", "rx"} /\ completeTried \in BOOLEAN /\ liveQueued \in BOOLEAN

ProcsOK ==
    /\ worker \in BOOLEAN
    /\ sender \in {"off", "running", "exited"}
    /\ hid \in {"idle", "checked", "stopped"}
    /\ app \in {"ready", "joining", "destroyTimer", "destroyInterrupt", "destroyJoin", "freed"}

LocalOK == stopRet \in {"closed", "fRequested"} /\ requested \in BOOLEAN

\* Every variable keeps its type, the counters stay within their bounds, and the applied
\* foreground generation never overtakes the requested one.
TypeOK ==
    /\ phase \in Phases /\ media \in BOOLEAN /\ rx \in RxPoints
    /\ LinkOK /\ StopOK /\ NoticeOK /\ PauseOK /\ TimingOK
    /\ InputOK /\ OutputOK /\ ProcsOK /\ LocalOK

\* The disconnected callback runs at most once, whatever overlapping exits the application,
\* the host, a time-out and a failing producer request (IHS_SessionNotifyDisconnected).
NotifiedOnce == calls["disconnected"] <= 1

\* At most one Disconnect packet leaves a session: type 9 is never repeated by a second
\* Disconnect, by the lease or by the final Close (IHS_SessionTransportDisconnect).
OneGoodbye == goodbyes <= 1

\* No streaming-phase control message enters the queue before NegotiationComplete was handed
\* to it, although producers read the phase without the lock (UpdateStage, SubmitHIDReport).
CompleteFirst == liveQueued => completeTried

\* Once the transport is retired while the client is attached, the phase is dead for good:
\* no handler of the same update can bring it back (TransportFinish, UpdateStage).
RetiredIsDead == shutdown = 2 /\ ~detached => phase \in {Unconnected, Stopping}

\* Audio and video have stopped when the application hears of the end, and none starts
\* afterwards (session.h, disconnected: "audio/video stop run first").
MediaStopsBeforeNotice == notified => ~media

\* A client in the foreground never keeps the long lease of a paused connection: the 180 s
\* time-out applies only between an applied Pause and its Resume (ChangeForeground).
ForegroundLease ==
    connectionPaused /\ shutdown = 0 /\ ~interrupted /\ ~detached => clientPaused

\* When IHS_SessionDestroy frees the session no thread is inside it or can enter it.
FreedIsQuiet ==
    app = "freed" =>
        /\ rx \in {"off", "exited"} /\ sender # "running" /\ hid = "stopped"
        /\ \A t \in Threads : Free(t)

\* A session callback comes in the documented order: connected never after disconnected,
\* and no callback after finalized ("Nothing can be used beyond this call").
CallbackOrder ==
    [][calls' # calls =>
         /\ calls["finalized"] = 0
         /\ calls'["connected"] # calls["connected"] => calls["disconnected"] = 0]_vars

\* The phase advances one by one from Unconnected to Connected and otherwise only falls to
\* Stopping or Unconnected; it never re-enters an earlier live phase (session_pri.h, phases).
PhaseAdvances ==
    [][phase' # phase => \/ phase' = phase + 1
                         \/ phase' = Unconnected]_vars

\* A Disconnect call that finds the worker running is always answered by the callback, also
\* when it races with a host stop, a time-out, or the worker's own finalization.
DisconnectIsNotified == heard ~> calls["disconnected"] = 1

\* With a host that falls silent, every started worker ends: by its lease, at the latest.
WorkerEnds == (rx = "init") ~> (rx = "exited")

\* IHS_SessionDestroy never waits forever for the timer, the send worker or the RX worker.
DestroyEnds == (app = "destroyTimer") ~> (app = "freed")
=============================================================================
