----------------------- MODULE SessionLifecycleProofs -----------------------
(***************************************************************************)
(* Proofs about SessionLifecycle for every value of its constants: type    *)
(* correctness, five inductive invariants, and the safety properties that  *)
(* follow from them.  Each step lemma goes through the groups of actions   *)
(* of Next; an action that can disturb the invariant has a step of its     *)
(* own, the actions that only leave it alone share one.                    *)
(***************************************************************************)
EXTENDS SessionLifecycle, TLAPS

-----------------------------------------------------------------------------
(* Type correctness: what the shared operations preserve, then the actions. *)

\* A step that leaves a group of variables alone leaves the type of the group alone.
LEMMA Frame ==
  ASSUME TypeOK
  PROVE  /\ UNCHANGED link => LinkOK'
         /\ UNCHANGED stop => StopOK'
         /\ UNCHANGED notice => NoticeOK'
         /\ UNCHANGED pause => PauseOK'
         /\ UNCHANGED timing => TimingOK'
         /\ UNCHANGED input => InputOK'
         /\ UNCHANGED output => OutputOK'
         /\ UNCHANGED procs => ProcsOK'
         /\ UNCHANGED local => LocalOK'
  BY DEF TypeOK, link, LinkOK, stop, StopOK, notice, NoticeOK, pause, PauseOK, timing, TimingOK,
         input, InputOK, output, OutputOK, procs, ProcsOK, local, LocalOK

\* The three threads that may call IHS_SessionDisconnect.
LEMMA ThreadNames == "app" \in Threads /\ "rx" \in Threads /\ "hid" \in Threads
  BY DEF Threads

\* The five session callbacks.
LEMMA CallbackNames ==
  /\ "initialized" \in Callbacks /\ "connecting" \in Callbacks /\ "connected" \in Callbacks
  /\ "disconnected" \in Callbacks /\ "finalized" \in Callbacks
  BY DEF Callbacks

\* A failed allocation or cipher keeps the types of the stop request.
LEMMA LocalFailureType ==
  ASSUME TypeOK, NEW t \in Threads, LocalFailure(t)
  PROVE  StopOK'
  BY MaxFailuresAssumption DEF TypeOK, StopOK, LocalFailure, RequestClose, Discs

\* So does a plain call of IHS_SessionDisconnect.
LEMMA CallDisconnectType ==
  ASSUME TypeOK, NEW t \in Threads, CallDisconnect(t)
  PROVE  StopOK'
  BY DEF TypeOK, StopOK, CallDisconnect, RequestClose, Discs

\* IHS_SessionChannelControlSend keeps the types of what it writes, on success and failure.
LEMMA ControlSendType ==
  ASSUME TypeOK, NEW t \in Threads, NEW live \in BOOLEAN, ControlSend(t, live)
  PROVE  StopOK' /\ OutputOK'
  <1>1. StopOK'
    BY LocalFailureType, Frame DEF ControlSend
  <1>2. OutputOK'
    BY DEF TypeOK, OutputOK, ControlSend
  <1> QED
    BY <1>1, <1>2

\* IHS_SessionTransportDisconnect keeps the shutdown state and the goodbye counter typed.
LEMMA TransportDisconnectType ==
  ASSUME TypeOK, TransportDisconnect
  PROVE  shutdown' \in 0..2 /\ goodbyes' \in Nat
  BY DEF TypeOK, LinkOK, TransportDisconnect

\* The exchange in IHS_SessionNotifyDisconnected keeps the notice typed.
LEMMA NotifyType ==
  ASSUME TypeOK, NEW t \in Threads, NotifyDisconnected(t)
  PROVE  NoticeOK'
  BY DEF TypeOK, NoticeOK, NotifyDisconnected

\* IHS_SessionClientTransportClosed leaves a valid phase.
LEMMA ClosedType ==
  ASSUME TypeOK, ClientTransportClosed
  PROVE  phase' \in Phases /\ clientPaused' \in BOOLEAN
  <1>1. phase' \in Phases
    BY DEF ClientTransportClosed, Phases, Stopping, Unconnected
  <1>2. clientPaused' \in BOOLEAN
    BY DEF ClientTransportClosed
  <1> QED
    BY <1>1, <1>2

\* IHS_SessionTransportFinish leaves a valid phase and shutdown state.
LEMMA FinishType ==
  ASSUME TypeOK, TransportFinish
  PROVE  phase' \in Phases /\ clientPaused' \in BOOLEAN /\ shutdown' \in 0..2
  <1>1. CASE shutdown' = shutdown /\ phase' = phase /\ clientPaused' = clientPaused
    BY <1>1 DEF TypeOK, LinkOK, PauseOK
  <1>2. CASE shutdown' = 2 /\ phase' = phase /\ clientPaused' = clientPaused
    BY <1>2 DEF TypeOK, LinkOK, PauseOK
  <1>3. CASE shutdown' = 2 /\ ClientTransportClosed
    BY <1>3, ClosedType
  <1> QED
    BY <1>1, <1>2, <1>3 DEF TransportFinish

\* Running a callback keeps the callback history typed.
LEMMA RunType ==
  ASSUME TypeOK, NEW c \in Callbacks, Run(c)
  PROVE  calls' \in [Callbacks -> Nat]
  BY DEF TypeOK, NoticeOK, Run

\* A new session is well typed (IHS_SessionCreate).
LEMMA TypeInit == Init => TypeOK
  <1> SUFFICES ASSUME Init PROVE TypeOK
    OBVIOUS
  <1> USE DEF Init
  <1>1. phase \in Phases /\ shutdown \in 0..2 /\ goodbyes \in Nat /\ rx \in RxPoints
    BY DEF Phases, Unconnected, RxPoints
  <1>2. disc \in [Threads -> Discs] /\ calls \in [Callbacks -> Nat]
    BY DEF Discs
  <1>3. /\ wanted \in 0..MaxEdges /\ applied \in 0..MaxEdges /\ target \in 0..MaxEdges
        /\ applied <= target /\ target <= wanted /\ quiet \in 0..PausedLimit
        /\ budget \in 0..MaxPackets /\ failures \in 0..MaxFailures
    BY MaxPacketsAssumption, MaxFailuresAssumption, MaxEdgesAssumption, LimitsAssumption
  <1>4. window \in Seq(Messages) /\ incoming \in Seq(Messages)
    OBVIOUS
  <1> QED
    BY <1>1, <1>2, <1>3, <1>4, Zenon
    DEF TypeOK, LinkOK, StopOK, NoticeOK, PauseOK, TimingOK, InputOK, OutputOK, ProcsOK, LocalOK

\* SessionInitialized keeps the types.
LEMMA TypeRxStart ==
  ASSUME TypeOK, RxStart
  PROVE  TypeOK'
  <1>1. CASE Init0
    <2>1. StopOK'
      <3>1. interrupted' \in BOOLEAN
        BY <1>1, Zenon DEF Init0, TypeOK, StopOK
      <3>2. failures' \in 0..MaxFailures
        BY <1>1, MaxFailuresAssumption DEF Init0, TypeOK, StopOK
      <3> QED
        BY <1>1, <3>1, <3>2 DEF Init0, TypeOK, StopOK
    <2>2. NoticeOK'
      BY <1>1, RunType, CallbackNames DEF Init0, TypeOK, NoticeOK
    <2>3. ProcsOK'
      BY <1>1 DEF Init0, TypeOK, ProcsOK
    <2>4. phase' \in Phases /\ media' \in BOOLEAN /\ rx' \in RxPoints
      BY <1>1 DEF Init0, TypeOK, RxPoints, Phases
    <2> QED
      BY <1>1, <2>1, <2>2, <2>3, <2>4, Frame DEF Init0, TypeOK
  <1>2. CASE InitConnecting
    <2>1. NoticeOK'
      BY <1>2, RunType, CallbackNames DEF InitConnecting, TypeOK, NoticeOK
    <2>2. phase' \in Phases /\ media' \in BOOLEAN /\ rx' \in RxPoints
      BY <1>2 DEF InitConnecting, TypeOK, RxPoints, Phases
    <2> QED
      BY <1>2, <2>1, <2>2, Frame DEF InitConnecting, TypeOK
  <1>3. CASE InitBegin
    BY <1>3, Frame, LimitsAssumption DEF InitBegin, TypeOK, RxPoints, TimingOK, Connecting,
        Phases
  <1> QED
    BY <1>1, <1>2, <1>3 DEF RxStart

\* The receive cycle keeps the types.
LEMMA TypeRxReceive ==
  ASSUME TypeOK, RxReceive
  PROVE  TypeOK'
  <1>1. CASE Cycle
    BY <1>1, Frame DEF Cycle, TypeOK, RxPoints
  <1>2. CASE RecvConnectACK
    <2>1. TimingOK'
      BY <1>2, LimitsAssumption DEF RecvConnectACK, TypeOK, TimingOK, Receive
    <2>2. InputOK'
      BY <1>2, MaxPacketsAssumption DEF RecvConnectACK, TypeOK, InputOK, Receive
    <2>3. phase' \in Phases /\ media' \in BOOLEAN /\ rx' \in RxPoints
      BY <1>2 DEF RecvConnectACK, TypeOK, RxPoints, Phases
    <2> QED
      BY <1>2, <2>1, <2>2, <2>3, Frame DEF RecvConnectACK, TypeOK
  <1>3. CASE RecvDisconnect
    <2>1. LinkOK'
      BY <1>3, TransportDisconnectType DEF RecvDisconnect, TypeOK, LinkOK, Receive, link
    <2>2. TimingOK'
      BY <1>3, LimitsAssumption DEF RecvDisconnect, TypeOK, TimingOK, Receive
    <2>3. InputOK'
      BY <1>3, MaxPacketsAssumption DEF RecvDisconnect, TypeOK, InputOK, Receive
    <2>4. phase' \in Phases /\ media' \in BOOLEAN /\ rx' \in RxPoints
      BY <1>3 DEF RecvDisconnect, TypeOK, RxPoints, Phases
    <2> QED
      BY <1>3, <2>1, <2>2, <2>3, <2>4, Frame DEF RecvDisconnect, TypeOK
  <1>4. CASE (\E m \in HostMessages : RecvControl(m))
    <2>1. TimingOK'
      BY <1>4, LimitsAssumption DEF RecvControl, TypeOK, TimingOK, Receive
    <2>2. InputOK'
      BY <1>4, MaxPacketsAssumption, HostMessagesAssumption DEF RecvControl, TypeOK, InputOK,
          Receive
    <2>3. phase' \in Phases /\ media' \in BOOLEAN /\ rx' \in RxPoints
      BY <1>4 DEF RecvControl, TypeOK, RxPoints, Phases
    <2> QED
      BY <1>4, <2>1, <2>2, <2>3, Frame DEF RecvControl, TypeOK
  <1>5. CASE ControlHandshake
    BY <1>5, Frame DEF ControlHandshake, TypeOK, RxPoints, Handshaking, Phases
  <1>6. CASE ClientHandshake
    <2>1. StopOK'
      BY <1>6, ControlSendType, ThreadNames, Frame DEF ClientHandshake
    <2>2. OutputOK'
      BY <1>6, ControlSendType, ThreadNames, Frame DEF ClientHandshake
    <2>3. phase' \in Phases /\ media' \in BOOLEAN /\ rx' \in RxPoints
      BY <1>6 DEF ClientHandshake, TypeOK, RxPoints, Phases
    <2> QED
      BY <1>6, <2>1, <2>2, <2>3, Frame DEF ClientHandshake, TypeOK
  <1>7. CASE EndBatch
    <2>1. PauseOK'
      BY <1>7, MaxEdgesAssumption DEF EndBatch, TypeOK, PauseOK, pause
    <2>2. TimingOK'
      BY <1>7, LimitsAssumption DEF EndBatch, TypeOK, TimingOK
    <2>3. phase' \in Phases /\ media' \in BOOLEAN /\ rx' \in RxPoints
      BY <1>7 DEF EndBatch, TypeOK, RxPoints, Phases
    <2> QED
      BY <1>7, <2>1, <2>2, <2>3, Frame DEF EndBatch, TypeOK
  <1> QED
    BY <1>1, <1>2, <1>3, <1>4, <1>5, <1>6, <1>7 DEF RxReceive

\* SessionUpdateAt, up to the control drain, keeps the types.
LEMMA TypeRxUpdate ==
  ASSUME TypeOK, RxUpdate
  PROVE  TypeOK'
  <1>1. CASE ChangeForeground
    <2>1. StopOK'
      BY <1>1, ControlSendType, ThreadNames, Frame DEF ChangeForeground
    <2>2. PauseOK'
      <3>1. /\ wanted' \in 0..MaxEdges /\ applied' \in 0..MaxEdges /\ target' \in 0..MaxEdges
            /\ applied' <= target' /\ target' <= wanted'
        BY <1>1, MaxEdgesAssumption DEF ChangeForeground, TypeOK, PauseOK
      <3>2. clientPaused' \in BOOLEAN /\ connectionPaused' \in BOOLEAN
        BY <1>1, Zenon DEF ChangeForeground, TypeOK, PauseOK
      <3> QED
        BY <3>1, <3>2 DEF PauseOK
    <2>3. TimingOK'
      BY <1>1, LimitsAssumption DEF ChangeForeground, TypeOK, TimingOK
    <2>4. OutputOK'
      BY <1>1, ControlSendType, ThreadNames, Frame DEF ChangeForeground
    <2>5. phase' \in Phases /\ media' \in BOOLEAN /\ rx' \in RxPoints
      BY <1>1 DEF ChangeForeground, TypeOK, RxPoints, Phases
    <2> QED
      BY <1>1, <2>1, <2>2, <2>3, <2>4, <2>5, Frame DEF ChangeForeground, TypeOK
  <1>2. CASE PrepareUpdate
    <2>1. LinkOK'
      BY <1>2, FinishType DEF PrepareUpdate, TypeOK, LinkOK, link
    <2>2. PauseOK'
      BY <1>2, FinishType, MaxEdgesAssumption DEF PrepareUpdate, TypeOK, PauseOK, pause
    <2>3. phase' \in Phases /\ media' \in BOOLEAN /\ rx' \in RxPoints
      BY <1>2, FinishType DEF PrepareUpdate, TypeOK, RxPoints, Phases
    <2> QED
      BY <1>2, <2>1, <2>2, <2>3, Frame DEF PrepareUpdate, TypeOK
  <1>3. CASE NetworkGate
    BY <1>3, Frame DEF NetworkGate, TypeOK, RxPoints
  <1>4. CASE NetworkUpdate
    BY <1>4, Frame, MaxPacketsAssumption DEF NetworkUpdate, TypeOK, RxPoints, InputOK
  <1>5. CASE CheckTimeout
    BY <1>5, Frame, LimitsAssumption DEF CheckTimeout, TypeOK, RxPoints, TimingOK
  <1>6. CASE TimeoutClose
    <2>1. LinkOK'
      BY <1>6, TransportDisconnectType DEF TimeoutClose, TypeOK, LinkOK, link
    <2>2. phase' \in Phases /\ media' \in BOOLEAN /\ rx' \in RxPoints
      BY <1>6 DEF TimeoutClose, TypeOK, RxPoints, Phases
    <2> QED
      BY <1>6, <2>1, <2>2, Frame DEF TimeoutClose, TypeOK
  <1>7. CASE DrainGate
    BY <1>7, Frame DEF DrainGate, TypeOK, RxPoints
  <1>8. CASE DrainIncoming
    BY <1>8, Frame, MaxPacketsAssumption DEF DrainIncoming, TypeOK, RxPoints, InputOK
  <1>9. CASE DrainDone
    BY <1>9, Frame DEF DrainDone, TypeOK, RxPoints
  <1> QED
    BY <1>1, <1>2, <1>3, <1>4, <1>5, <1>6, <1>7, <1>8, <1>9 DEF RxUpdate

\* The control-message handlers keep the types.
LEMMA TypeRxHandle ==
  ASSUME TypeOK, RxHandle
  PROVE  TypeOK'
  <1>1. CASE OnMalformed
    BY <1>1, Frame DEF OnMalformed, TypeOK, RxPoints
  <1>2. CASE OnServerHandshake
    BY <1>2, Frame DEF OnServerHandshake, TypeOK, RxPoints, Authenticating, Phases
  <1>3. CASE RequestAuthentication
    <2>1. StopOK'
      BY <1>3, ControlSendType, LocalFailureType, ThreadNames, Frame DEF RequestAuthentication
    <2>2. OutputOK'
      BY <1>3, ControlSendType, ThreadNames, Frame DEF RequestAuthentication
    <2>3. phase' \in Phases /\ media' \in BOOLEAN /\ rx' \in RxPoints
      BY <1>3 DEF RequestAuthentication, TypeOK, RxPoints, Phases
    <2> QED
      BY <1>3, <2>1, <2>2, <2>3, Frame DEF RequestAuthentication, TypeOK
  <1>4. CASE OnAuthenticated
    BY <1>4, Frame DEF OnAuthenticated, TypeOK, RxPoints, Negotiating, Phases
  <1>5. CASE OnAuthRejected
    <2>1. StopOK'
      BY <1>5, CallDisconnectType, ThreadNames, Frame DEF OnAuthRejected, Dispatching
    <2>2. phase' \in Phases /\ media' \in BOOLEAN /\ rx' \in RxPoints
      BY <1>5 DEF OnAuthRejected, TypeOK, RxPoints, Phases
    <2> QED
      BY <1>5, <2>1, <2>2, Frame DEF OnAuthRejected, TypeOK
  <1>6. CASE AuthClosed
    <2>1. PauseOK'
      BY <1>6, ClosedType, MaxEdgesAssumption DEF AuthClosed, TypeOK, PauseOK, pause
    <2>2. phase' \in Phases /\ media' \in BOOLEAN /\ rx' \in RxPoints
      BY <1>6, ClosedType DEF AuthClosed, TypeOK, RxPoints, Phases
    <2> QED
      BY <1>6, <2>1, <2>2, Frame DEF AuthClosed, TypeOK
  <1>7. CASE OnNegotiationInit
    <2>1. StopOK'
      BY <1>7, ControlSendType, LocalFailureType, ThreadNames, Frame DEF OnNegotiationInit,
          Dispatching
    <2>2. OutputOK'
      BY <1>7, ControlSendType, ThreadNames, Frame DEF OnNegotiationInit, Dispatching
    <2>3. phase' \in Phases /\ media' \in BOOLEAN /\ rx' \in RxPoints
      BY <1>7 DEF OnNegotiationInit, TypeOK, RxPoints, Phases
    <2> QED
      BY <1>7, <2>1, <2>2, <2>3, Frame DEF OnNegotiationInit, TypeOK
  <1>8. CASE OnNegotiationSetConfig
    <2>1. StopOK'
      BY <1>8, LocalFailureType, ThreadNames, Frame DEF OnNegotiationSetConfig, Dispatching
    <2>2. phase' \in Phases /\ media' \in BOOLEAN /\ rx' \in RxPoints
      BY <1>8 DEF OnNegotiationSetConfig, TypeOK, RxPoints, Starting, Phases
    <2> QED
      BY <1>8, <2>1, <2>2, Frame DEF OnNegotiationSetConfig, TypeOK
  <1>9. CASE HostStopped
    <2>1. StopOK'
      BY <1>9, CallDisconnectType, ThreadNames, Frame DEF HostStopped, Dispatching
    <2>2. phase' \in Phases /\ media' \in BOOLEAN /\ rx' \in RxPoints
      BY <1>9 DEF HostStopped, TypeOK, RxPoints, Phases
    <2> QED
      BY <1>9, <2>1, <2>2, Frame DEF HostStopped, TypeOK
  <1>10. CASE OnMediaControl
    BY <1>10, Frame DEF OnMediaControl, TypeOK, RxPoints
  <1> QED
    BY <1>1, <1>2, <1>3, <1>4, <1>5, <1>6, <1>7, <1>8, <1>9, <1>10 DEF RxHandle

\* UpdateStage and the stop of the client keep the types.
LEMMA TypeRxStage ==
  ASSUME TypeOK, RxStage
  PROVE  TypeOK'
  <1>1. CASE StageStop
    BY <1>1, Frame DEF StageStop, TypeOK, RxPoints, LocalOK
  <1>2. CASE StageStart
    BY <1>2, Frame DEF StageStart, TypeOK, RxPoints, OutputOK, Connected, Phases
  <1>3. CASE StageComplete
    <2>1. StopOK'
      BY <1>3, LocalFailureType, ThreadNames, Frame DEF StageComplete
    <2>2. OutputOK'
      BY <1>3 DEF StageComplete, TypeOK, OutputOK, output
    <2>3. phase' \in Phases /\ media' \in BOOLEAN /\ rx' \in RxPoints
      BY <1>3 DEF StageComplete, TypeOK, RxPoints, Phases
    <2> QED
      BY <1>3, <2>1, <2>2, <2>3, Frame DEF StageComplete, TypeOK
  <1>4. CASE ConnectedCallback
    <2>1. NoticeOK'
      BY <1>4, RunType, CallbackNames DEF ConnectedCallback, TypeOK, NoticeOK
    <2>2. phase' \in Phases /\ media' \in BOOLEAN /\ rx' \in RxPoints
      BY <1>4 DEF ConnectedCallback, TypeOK, RxPoints, Phases
    <2> QED
      BY <1>4, <2>1, <2>2, Frame DEF ConnectedCallback, TypeOK
  <1>5. CASE StageStreaming
    <2>1. StopOK'
      BY <1>5, ControlSendType, ThreadNames, Frame DEF StageStreaming
    <2>2. OutputOK'
      BY <1>5, ControlSendType, ThreadNames, Frame DEF StageStreaming
    <2>3. phase' \in Phases /\ media' \in BOOLEAN /\ rx' \in RxPoints
      BY <1>5 DEF StageStreaming, TypeOK, RxPoints, Phases
    <2> QED
      BY <1>5, <2>1, <2>2, <2>3, Frame DEF StageStreaming, TypeOK
  <1>6. CASE StageIdle
    BY <1>6, Frame DEF StageIdle, TypeOK, RxPoints
  <1>7. CASE StopMedia
    BY <1>7, Frame DEF StopMedia, TypeOK, RxPoints
  <1>8. CASE StopNotify
    <2>1. NoticeOK'
      BY <1>8, NotifyType, ThreadNames, Frame DEF StopNotify
    <2>2. phase' \in Phases /\ media' \in BOOLEAN /\ rx' \in RxPoints
      BY <1>8 DEF StopNotify, TypeOK, RxPoints, Phases
    <2> QED
      BY <1>8, <2>1, <2>2, Frame DEF StopNotify, TypeOK
  <1>9. CASE StopPhase
    BY <1>9, Frame DEF StopPhase, TypeOK, RxPoints, Unconnected, Phases, LocalOK
  <1>10. CASE ClosedNotice
    <2>1. NoticeOK'
      BY <1>10, NotifyType, ThreadNames, Frame DEF ClosedNotice
    <2>2. phase' \in Phases /\ media' \in BOOLEAN /\ rx' \in RxPoints
      BY <1>10 DEF ClosedNotice, TypeOK, RxPoints, Phases
    <2> QED
      BY <1>10, <2>1, <2>2, Frame DEF ClosedNotice, TypeOK
  <1>11. CASE ClosedInterrupt
    BY <1>11, Frame, MaxFailuresAssumption DEF ClosedInterrupt, TypeOK, RxPoints, StopOK, Discs
  <1> QED
    BY <1>1, <1>2, <1>3, <1>4, <1>5, <1>6, <1>7, <1>8, <1>9, <1>10, <1>11 DEF RxStage

\* SessionFinalized keeps the types.
LEMMA TypeRxFinal ==
  ASSUME TypeOK, RxFinal
  PROVE  TypeOK'
  <1>1. CASE FinalInterrupt
    BY <1>1, Frame, MaxFailuresAssumption DEF FinalInterrupt, TypeOK, RxPoints, StopOK, Discs
  <1>2. CASE FinalJoin
    BY <1>2, Frame DEF FinalJoin, TypeOK, RxPoints
  <1>3. CASE FinalStop
    BY <1>3, Frame DEF FinalStop, TypeOK, RxPoints, LocalOK
  <1>4. CASE FinalRequested
    BY <1>4, Frame DEF FinalRequested, TypeOK, RxPoints, LocalOK
  <1>5. CASE FinalClose
    <2>1. LinkOK'
      BY <1>5, TransportDisconnectType DEF FinalClose, TypeOK, LinkOK, TransportClose, link
    <2>2. phase' \in Phases /\ media' \in BOOLEAN /\ rx' \in RxPoints
      BY <1>5 DEF FinalClose, TypeOK, RxPoints, Phases
    <2> QED
      BY <1>5, <2>1, <2>2, Frame DEF FinalClose, TypeOK
  <1>6. CASE FinalFinish
    <2>1. LinkOK'
      BY <1>6 DEF FinalFinish, TypeOK, LinkOK
    <2>2. PauseOK'
      BY <1>6, MaxEdgesAssumption DEF FinalFinish, TypeOK, PauseOK, pause
    <2>3. InputOK'
      BY <1>6, MaxPacketsAssumption DEF FinalFinish, TypeOK, InputOK
    <2>4. phase' \in Phases /\ media' \in BOOLEAN /\ rx' \in RxPoints
      BY <1>6 DEF FinalFinish, TypeOK, RxPoints, Phases
    <2> QED
      BY <1>6, <2>1, <2>2, <2>3, <2>4, Frame DEF FinalFinish, TypeOK
  <1>7. CASE FinalNotify
    <2>1. NoticeOK'
      BY <1>7, NotifyType, ThreadNames, Frame DEF FinalNotify
    <2>2. phase' \in Phases /\ media' \in BOOLEAN /\ rx' \in RxPoints
      BY <1>7 DEF FinalNotify, TypeOK, RxPoints, Phases
    <2> QED
      BY <1>7, <2>1, <2>2, Frame DEF FinalNotify, TypeOK
  <1>8. CASE FinalizedCallback
    <2>1. NoticeOK'
      BY <1>8, RunType, CallbackNames DEF FinalizedCallback, TypeOK, NoticeOK
    <2>2. phase' \in Phases /\ media' \in BOOLEAN /\ rx' \in RxPoints
      BY <1>8 DEF FinalizedCallback, TypeOK, RxPoints, Phases
    <2> QED
      BY <1>8, <2>1, <2>2, Frame DEF FinalizedCallback, TypeOK
  <1>9. CASE WorkerExit
    BY <1>9, Frame DEF WorkerExit, TypeOK, RxPoints
  <1> QED
    BY <1>1, <1>2, <1>3, <1>4, <1>5, <1>6, <1>7, <1>8, <1>9 DEF RxFinal

\* The public calls keep the types.
LEMMA TypeAppCall ==
  ASSUME TypeOK, AppCall
  PROVE  TypeOK'
  <1>1. CASE AppConnect
    BY <1>1, Frame DEF AppConnect, TypeOK, RxPoints, ProcsOK
  <1>2. CASE AppDisconnect
    <2>1. StopOK'
      BY <1>2, CallDisconnectType, ThreadNames, Frame DEF AppDisconnect, AppMayCall
    <2>2. phase' \in Phases /\ media' \in BOOLEAN /\ rx' \in RxPoints
      BY <1>2 DEF AppDisconnect, TypeOK, RxPoints, Phases
    <2> QED
      BY <1>2, <2>1, <2>2, Frame DEF AppDisconnect, TypeOK
  <1>3. CASE AppInterrupt
    BY <1>3, Frame, MaxFailuresAssumption DEF AppInterrupt, TypeOK, RxPoints, StopOK, Discs
  <1>4. CASE AppStopGame
    <2>1. StopOK'
      BY <1>4, ControlSendType, ThreadNames, Frame DEF AppStopGame, AppMayCall
    <2>2. OutputOK'
      BY <1>4, ControlSendType, ThreadNames, Frame DEF AppStopGame, AppMayCall
    <2>3. phase' \in Phases /\ media' \in BOOLEAN /\ rx' \in RxPoints
      BY <1>4 DEF AppStopGame, TypeOK, RxPoints, Phases
    <2> QED
      BY <1>4, <2>1, <2>2, <2>3, Frame DEF AppStopGame, TypeOK
  <1>5. CASE AppSetForeground
    BY <1>5, Frame, MaxEdgesAssumption DEF AppSetForeground, TypeOK, RxPoints, PauseOK
  <1>6. CASE AppJoin
    BY <1>6, Frame DEF AppJoin, TypeOK, RxPoints, ProcsOK
  <1>7. CASE AppDestroy
    BY <1>7, Frame DEF AppDestroy, TypeOK, RxPoints, ProcsOK
  <1> QED
    BY <1>1, <1>2, <1>3, <1>4, <1>5, <1>6, <1>7 DEF AppCall

\* Join and Destroy keep the types.
LEMMA TypeAppResume ==
  ASSUME TypeOK, AppResume
  PROVE  TypeOK'
  <1>1. CASE AppJoined
    BY <1>1, Frame DEF AppJoined, TypeOK, RxPoints, ProcsOK
  <1>2. CASE DestroyTimer
    BY <1>2, Frame DEF DestroyTimer, TypeOK, RxPoints, ProcsOK
  <1>3. CASE DestroyInterrupt
    <2>1. StopOK'
      BY <1>3, MaxFailuresAssumption DEF DestroyInterrupt, TypeOK, StopOK, Discs, stop
    <2>2. ProcsOK'
      BY <1>3 DEF DestroyInterrupt, TypeOK, ProcsOK
    <2>3. phase' \in Phases /\ media' \in BOOLEAN /\ rx' \in RxPoints
      BY <1>3 DEF DestroyInterrupt, TypeOK, RxPoints, Phases
    <2> QED
      BY <1>3, <2>1, <2>2, <2>3, Frame DEF DestroyInterrupt, TypeOK
  <1>4. CASE DestroyJoin
    BY <1>4, Frame DEF DestroyJoin, TypeOK, RxPoints, ProcsOK
  <1> QED
    BY <1>1, <1>2, <1>3, <1>4 DEF AppResume

\* The later critical sections of IHS_SessionDisconnect keep the types.
LEMMA TypeDisconnectStep ==
  ASSUME TypeOK, NEW t \in Threads, DisconnectStep(t)
  PROVE  TypeOK'
  <1>1. CASE DisconnectTransport(t)
    <2>1. LinkOK'
      BY <1>1, TransportDisconnectType DEF DisconnectTransport, TypeOK, LinkOK, TransportClose,
          link
    <2>2. StopOK'
      BY <1>1, MaxFailuresAssumption DEF DisconnectTransport, TypeOK, StopOK, Discs, stop
    <2>3. phase' \in Phases /\ media' \in BOOLEAN /\ rx' \in RxPoints
      BY <1>1 DEF DisconnectTransport, TypeOK, RxPoints, Phases
    <2> QED
      BY <1>1, <2>1, <2>2, <2>3, Frame DEF DisconnectTransport, TypeOK
  <1>2. CASE DisconnectInterrupt(t)
    BY <1>2, Frame, MaxFailuresAssumption DEF DisconnectInterrupt, TypeOK, RxPoints, StopOK,
        Discs
  <1>3. CASE DisconnectNotify(t)
    <2>1. StopOK'
      BY <1>3, MaxFailuresAssumption DEF DisconnectNotify, TypeOK, StopOK, Discs, stop
    <2>2. NoticeOK'
      BY <1>3, NotifyType, ThreadNames, Frame DEF DisconnectNotify
    <2>3. phase' \in Phases /\ media' \in BOOLEAN /\ rx' \in RxPoints
      BY <1>3 DEF DisconnectNotify, TypeOK, RxPoints, Phases
    <2> QED
      BY <1>3, <2>1, <2>2, <2>3, Frame DEF DisconnectNotify, TypeOK
  <1>4. CASE DisconnectedCallback(t)
    <2>1. NoticeOK'
      BY <1>4, RunType, CallbackNames DEF DisconnectedCallback, TypeOK, NoticeOK
    <2>2. phase' \in Phases /\ media' \in BOOLEAN /\ rx' \in RxPoints
      BY <1>4 DEF DisconnectedCallback, TypeOK, RxPoints, Phases
    <2> QED
      BY <1>4, <2>1, <2>2, Frame DEF DisconnectedCallback, TypeOK
  <1> QED
    BY <1>1, <1>2, <1>3, <1>4 DEF DisconnectStep

\* Every step of every thread keeps the types.
LEMMA TypeStep ==
  ASSUME TypeOK, [Next]_vars
  PROVE  TypeOK'
  <1>1. CASE RxStart
    BY <1>1, TypeRxStart
  <1>2. CASE RxReceive
    BY <1>2, TypeRxReceive
  <1>3. CASE RxUpdate
    BY <1>3, TypeRxUpdate
  <1>4. CASE RxHandle
    BY <1>4, TypeRxHandle
  <1>5. CASE RxStage
    BY <1>5, TypeRxStage
  <1>6. CASE RxFinal
    BY <1>6, TypeRxFinal
  <1>7. CASE AppCall
    BY <1>7, TypeAppCall
  <1>8. CASE AppResume
    BY <1>8, TypeAppResume
  <1>9. CASE \E t \in Threads : DisconnectStep(t)
    BY <1>9, TypeDisconnectStep
  <1>10. CASE SenderExit
    BY <1>10, Frame DEF SenderExit, TypeOK, RxPoints, ProcsOK
  <1>11. CASE HidCheck
    BY <1>11, Frame DEF HidCheck, TypeOK, RxPoints, ProcsOK
  <1>12. CASE HidSend
    <2>1. StopOK'
      BY <1>12, ControlSendType, ThreadNames, Frame DEF HidSend
    <2>2. OutputOK'
      BY <1>12, ControlSendType, ThreadNames, Frame DEF HidSend
    <2>3. ProcsOK'
      BY <1>12 DEF HidSend, TypeOK, ProcsOK
    <2>4. phase' \in Phases /\ media' \in BOOLEAN /\ rx' \in RxPoints
      BY <1>12 DEF HidSend, TypeOK, RxPoints, Phases
    <2> QED
      BY <1>12, <2>1, <2>2, <2>3, <2>4, Frame DEF HidSend, TypeOK
  <1>13. CASE UNCHANGED vars
    BY <1>13, Frame DEF vars, TypeOK
  <1> QED
    BY <1>1, <1>2, <1>3, <1>4, <1>5, <1>6, <1>7, <1>8, <1>9, <1>10, <1>11, <1>12, <1>13 DEF
        Next, RxNext, Freed

\* Type correctness for every budget, window, lease and number of failures.
THEOREM TypeCorrect == Spec => []TypeOK
  BY TypeInit, TypeStep, PTL DEF Spec

-----------------------------------------------------------------------------
(* The inductive invariants.                                               *)

\* The callback is pending or done only after the flag was exchanged, and never both.
NoticeInv ==
    /\ ~notified => notifier = "none" /\ calls["disconnected"] = 0
    /\ notifier # "none" => calls["disconnected"] = 0
    /\ calls["disconnected"] <= 1

\* A session that has said goodbye is no longer in the live state.
GoodbyeInv == goodbyes <= 1 /\ (goodbyes > 0 => shutdown # 0)

\* While NegotiationComplete is not queued, the live phase can be seen only by a thread that
\* still has to wait for the producer lock.
CompleteInv ==
    /\ phase = Connected => completeTried \/ rx = "complete"
    /\ hid = "checked" => completeTried \/ rx = "complete"
    /\ rx = "complete" => sendLock = "rx"
    /\ CompleteFirst

\* Points of the RX worker before IHS_SessionTransportBegin has run.
StartPoints == {"off", "init", "initConnecting", "initBegin"}

\* A retired transport is dead, because nothing that can advance the phase is in flight.
RetireInv ==
    /\ rx \in StartPoints => shutdown = 0 /\ phase = Unconnected
    /\ rx = "handshake" => shutdown # 2 /\ phase = Connecting
    /\ rx = "fFinish" => detached
    /\ RetiredIsDead

\* Points of the RX worker after it has joined the send worker.
JoinedPoints == {"fStop", "fRequested", "fClose", "fFinish", "fNotify", "fFinalized", "fSocket",
                 "exited"}

\* What each thread has finished when Destroy reaches the wait for it.
QuietInv ==
    /\ ~worker => rx \in {"off", "exited"}
    /\ rx \in {"off", "init"} => stopRet = "closed" /\ sender = "off"
    /\ rx \in JoinedPoints \/ stopRet = "fRequested" => sender # "running"
    /\ rx \in {"off", "exited"} => Free("rx")
    /\ app \in {"destroyInterrupt", "destroyJoin", "freed"} => hid = "stopped"
    /\ hid = "stopped" => Free("hid")
    /\ app = "freed" => ~worker /\ Free("app")

\* A control message of the handshake phases does not count as a streaming one.
LEMMA QuietSend ==
  ASSUME TypeOK, NEW t, ControlSend(t, FALSE)
  PROVE  UNCHANGED <<completeTried, liveQueued, sendLock>>
  BY DEF TypeOK, OutputOK, ControlSend

\* Only the winner of the exchange calls back, so NoticeInv is preserved by every step.
LEMMA NoticeStep ==
  ASSUME TypeOK, NoticeInv, [Next]_vars
  PROVE  NoticeInv'
  <1> USE DEF NoticeInv, notice
  <1>1. CASE RxStart
    <2>1. CASE Init0
      BY <2>1 DEF Init0, Run, TypeOK, NoticeOK, Callbacks, Threads
    <2>2. CASE InitConnecting
      BY <2>2 DEF InitConnecting, Run, TypeOK, NoticeOK, Callbacks, Threads
    <2>3. CASE InitBegin
      BY <2>3 DEF InitBegin
    <2> QED
      BY <1>1, <2>1, <2>2, <2>3 DEF RxStart
  <1>2. CASE RxReceive
    BY <1>2 DEF RxReceive, Cycle, RecvConnectACK, RecvDisconnect, RecvControl, ControlHandshake,
        ClientHandshake, EndBatch
  <1>3. CASE RxUpdate
    BY <1>3 DEF RxUpdate, ChangeForeground, PrepareUpdate, NetworkGate, NetworkUpdate,
        CheckTimeout, TimeoutClose, DrainGate, DrainIncoming, DrainDone
  <1>4. CASE RxHandle
    BY <1>4 DEF RxHandle, OnMalformed, OnServerHandshake, RequestAuthentication,
        OnAuthenticated, OnAuthRejected, AuthClosed, OnNegotiationInit, OnNegotiationSetConfig,
        HostStopped, OnMediaControl
  <1>5. CASE RxStage
    <2>1. CASE ConnectedCallback
      BY <2>1 DEF ConnectedCallback, Run, TypeOK, NoticeOK, Callbacks, Threads
    <2>2. CASE StopNotify
      BY <2>2 DEF StopNotify, NotifyDisconnected, TypeOK, NoticeOK, Callbacks, Threads
    <2>3. CASE ClosedNotice
      BY <2>3 DEF ClosedNotice, NotifyDisconnected, TypeOK, NoticeOK, Callbacks, Threads
    <2>4. CASE StageStop \/ StageStart \/ StageComplete \/ StageStreaming \/ StageIdle \/
        StopMedia \/ StopPhase \/ ClosedInterrupt
      BY <2>4 DEF StageStop, StageStart, StageComplete, StageStreaming, StageIdle, StopMedia,
          StopPhase, ClosedInterrupt
    <2> QED
      BY <1>5, <2>1, <2>2, <2>3, <2>4 DEF RxStage
  <1>6. CASE RxFinal
    <2>1. CASE FinalNotify
      BY <2>1 DEF FinalNotify, NotifyDisconnected, TypeOK, NoticeOK, Callbacks, Threads
    <2>2. CASE FinalizedCallback
      BY <2>2 DEF FinalizedCallback, Run, TypeOK, NoticeOK, Callbacks, Threads
    <2>3. CASE FinalInterrupt \/ FinalJoin \/ FinalStop \/ FinalRequested \/ FinalClose \/
        FinalFinish \/ WorkerExit
      BY <2>3 DEF FinalInterrupt, FinalJoin, FinalStop, FinalRequested, FinalClose, FinalFinish,
          WorkerExit
    <2> QED
      BY <1>6, <2>1, <2>2, <2>3 DEF RxFinal
  <1>7. CASE AppCall
    BY <1>7 DEF AppCall, AppConnect, AppDisconnect, AppInterrupt, AppStopGame, AppSetForeground,
        AppJoin, AppDestroy
  <1>8. CASE AppResume
    BY <1>8 DEF AppResume, AppJoined, DestroyTimer, DestroyInterrupt, DestroyJoin
  <1>9. ASSUME NEW t \in Threads, DisconnectStep(t) PROVE NoticeInv'
    <2>1. CASE DisconnectNotify(t)
      BY <2>1 DEF DisconnectNotify, NotifyDisconnected, TypeOK, NoticeOK, Callbacks, Threads
    <2>2. CASE DisconnectedCallback(t)
      BY <2>2 DEF DisconnectedCallback, Run, TypeOK, NoticeOK, Callbacks, Threads
    <2>3. CASE DisconnectTransport(t) \/ DisconnectInterrupt(t)
      BY <2>3 DEF DisconnectTransport, DisconnectInterrupt
    <2> QED
      BY <1>9, <2>1, <2>2, <2>3 DEF DisconnectStep
  <1>10. CASE SenderExit
    BY <1>10 DEF SenderExit
  <1>11. CASE HidCheck
    BY <1>11 DEF HidCheck
  <1>12. CASE HidSend
    BY <1>12 DEF HidSend
  <1>13. CASE UNCHANGED vars
    BY <1>13 DEF vars
  <1> QED
    BY <1>1, <1>2, <1>3, <1>4, <1>5, <1>6, <1>7, <1>8, <1>9, <1>10, <1>11, <1>12, <1>13 DEF
        Next, RxNext, Freed

\* Every path that sends the goodbye leaves the live state, so GoodbyeInv is preserved.
LEMMA GoodbyeStep ==
  ASSUME TypeOK, GoodbyeInv, [Next]_vars
  PROVE  GoodbyeInv'
  <1> USE DEF GoodbyeInv, link
  <1>1. CASE RxStart
    BY <1>1 DEF RxStart, Init0, InitConnecting, InitBegin
  <1>2. CASE RxReceive
    <2>1. CASE RecvDisconnect
      BY <2>1 DEF RecvDisconnect, Handshaking, TransportState, TransportDisconnect, TypeOK,
          LinkOK
    <2>2. CASE Cycle \/ RecvConnectACK \/ (\E m \in HostMessages : RecvControl(m)) \/
        ControlHandshake \/ ClientHandshake \/ EndBatch
      BY <2>2 DEF Cycle, RecvConnectACK, RecvControl, ControlHandshake, ClientHandshake,
          EndBatch
    <2> QED
      BY <1>2, <2>1, <2>2 DEF RxReceive
  <1>3. CASE RxUpdate
    <2>1. CASE PrepareUpdate
      BY <2>1 DEF PrepareUpdate, TransportFinish, TypeOK, LinkOK
    <2>2. CASE TimeoutClose
      BY <2>2 DEF TimeoutClose, TransportDisconnect, TransportState, Handshaking, TypeOK, LinkOK
    <2>3. CASE ChangeForeground \/ NetworkGate \/ NetworkUpdate \/ CheckTimeout \/ DrainGate \/
        DrainIncoming \/ DrainDone
      BY <2>3 DEF ChangeForeground, NetworkGate, NetworkUpdate, CheckTimeout, DrainGate,
          DrainIncoming, DrainDone
    <2> QED
      BY <1>3, <2>1, <2>2, <2>3 DEF RxUpdate
  <1>4. CASE RxHandle
    BY <1>4 DEF RxHandle, OnMalformed, OnServerHandshake, RequestAuthentication,
        OnAuthenticated, OnAuthRejected, AuthClosed, OnNegotiationInit, OnNegotiationSetConfig,
        HostStopped, OnMediaControl
  <1>5. CASE RxStage
    BY <1>5 DEF RxStage, StageStop, StageStart, StageComplete, ConnectedCallback,
        StageStreaming, StageIdle, StopMedia, StopNotify, StopPhase, ClosedNotice, ClosedInterrupt
  <1>6. CASE RxFinal
    <2>1. CASE FinalClose
      BY <2>1 DEF FinalClose, TransportClose, TransportDisconnect, TransportState, Handshaking,
          TypeOK, LinkOK
    <2>2. CASE FinalFinish
      BY <2>2 DEF FinalFinish, TypeOK, LinkOK
    <2>3. CASE FinalInterrupt \/ FinalJoin \/ FinalStop \/ FinalRequested \/ FinalNotify \/
        FinalizedCallback \/ WorkerExit
      BY <2>3 DEF FinalInterrupt, FinalJoin, FinalStop, FinalRequested, FinalNotify,
          FinalizedCallback, WorkerExit
    <2> QED
      BY <1>6, <2>1, <2>2, <2>3 DEF RxFinal
  <1>7. CASE AppCall
    BY <1>7 DEF AppCall, AppConnect, AppDisconnect, AppInterrupt, AppStopGame, AppSetForeground,
        AppJoin, AppDestroy
  <1>8. CASE AppResume
    BY <1>8 DEF AppResume, AppJoined, DestroyTimer, DestroyInterrupt, DestroyJoin
  <1>9. ASSUME NEW t \in Threads, DisconnectStep(t) PROVE GoodbyeInv'
    <2>1. CASE DisconnectTransport(t)
      BY <2>1 DEF DisconnectTransport, TransportDisconnect, TransportState, Handshaking,
          TransportClose, TypeOK, LinkOK
    <2>2. CASE DisconnectInterrupt(t) \/ DisconnectNotify(t) \/ DisconnectedCallback(t)
      BY <2>2 DEF DisconnectInterrupt, DisconnectNotify, DisconnectedCallback
    <2> QED
      BY <1>9, <2>1, <2>2 DEF DisconnectStep
  <1>10. CASE SenderExit
    BY <1>10 DEF SenderExit
  <1>11. CASE HidCheck
    BY <1>11 DEF HidCheck
  <1>12. CASE HidSend
    BY <1>12 DEF HidSend
  <1>13. CASE UNCHANGED vars
    BY <1>13 DEF vars
  <1> QED
    BY <1>1, <1>2, <1>3, <1>4, <1>5, <1>6, <1>7, <1>8, <1>9, <1>10, <1>11, <1>12, <1>13 DEF
        Next, RxNext, Freed

\* The live phase is published under the producer lock, so CompleteInv is preserved.
LEMMA CompleteStep ==
  ASSUME TypeOK, CompleteInv, [Next]_vars
  PROVE  CompleteInv'
  <1> USE DEF CompleteInv, CompleteFirst, output, procs, RxAt, Unconnected, Connecting,
      Handshaking, Authenticating, Negotiating, Starting, Connected, Stopping
  <1>1. CASE RxStart
    <2>1. CASE InitBegin
      BY <2>1 DEF InitBegin
    <2>2. CASE Init0 \/ InitConnecting
      BY <2>2 DEF Init0, InitConnecting
    <2> QED
      BY <1>1, <2>1, <2>2 DEF RxStart
  <1>2. CASE RxReceive
    <2>1. CASE ControlHandshake
      BY <2>1 DEF ControlHandshake
    <2>2. CASE ClientHandshake
      BY <2>2, QuietSend DEF ClientHandshake
    <2>3. CASE Cycle \/ RecvConnectACK \/ RecvDisconnect \/ (\E m \in HostMessages :
        RecvControl(m)) \/ EndBatch
      BY <2>3 DEF Cycle, RecvConnectACK, Receive, RecvDisconnect, RecvControl, EndBatch
    <2> QED
      BY <1>2, <2>1, <2>2, <2>3 DEF RxReceive
  <1>3. CASE RxUpdate
    <2>1. CASE ChangeForeground
      BY <2>1 DEF ChangeForeground, ControlSend
    <2>2. CASE PrepareUpdate
      BY <2>2 DEF PrepareUpdate, TransportFinish, ClientTransportClosed
    <2>3. CASE NetworkGate \/ NetworkUpdate \/ CheckTimeout \/ TimeoutClose \/ DrainGate \/
        DrainIncoming \/ DrainDone
      BY <2>3 DEF NetworkGate, NetworkUpdate, CheckTimeout, TimeoutClose, DrainGate,
          DrainIncoming, DrainDone
    <2> QED
      BY <1>3, <2>1, <2>2, <2>3 DEF RxUpdate
  <1>4. CASE RxHandle
    <2>1. CASE OnServerHandshake
      BY <2>1 DEF OnServerHandshake, Dispatching
    <2>2. CASE RequestAuthentication
      <3>1. UNCHANGED <<completeTried, liveQueued, sendLock>>
        BY <2>2, QuietSend DEF RequestAuthentication
      <3> QED
        BY <2>2, <3>1 DEF RequestAuthentication
    <2>3. CASE OnAuthenticated
      BY <2>3 DEF OnAuthenticated, Dispatching
    <2>4. CASE AuthClosed
      BY <2>4 DEF AuthClosed, ClientTransportClosed
    <2>5. CASE OnNegotiationInit
      <3>1. UNCHANGED <<completeTried, liveQueued, sendLock>>
        BY <2>5, QuietSend DEF OnNegotiationInit
      <3> QED
        BY <2>5, <3>1 DEF OnNegotiationInit, Dispatching
    <2>6. CASE OnNegotiationSetConfig
      BY <2>6 DEF OnNegotiationSetConfig, Dispatching
    <2>7. CASE OnMalformed \/ OnAuthRejected \/ HostStopped \/ OnMediaControl
      BY <2>7 DEF OnMalformed, OnAuthRejected, Dispatching, HostStopped, OnMediaControl
    <2> QED
      BY <1>4, <2>1, <2>2, <2>3, <2>4, <2>5, <2>6, <2>7 DEF RxHandle
  <1>5. CASE RxStage
    <2>1. CASE StageStart
      BY <2>1 DEF StageStart
    <2>2. CASE StageComplete
      BY <2>2 DEF StageComplete
    <2>3. CASE StageStreaming
      BY <2>3 DEF StageStreaming, ControlSend
    <2>4. CASE StopPhase
      BY <2>4 DEF StopPhase, TypeOK, LocalOK
    <2>5. CASE StageStop \/ ConnectedCallback \/ StageIdle \/ StopMedia \/ StopNotify \/
        ClosedNotice \/ ClosedInterrupt
      BY <2>5 DEF StageStop, ConnectedCallback, StageIdle, StopMedia, StopNotify, ClosedNotice,
          ClosedInterrupt
    <2> QED
      BY <1>5, <2>1, <2>2, <2>3, <2>4, <2>5 DEF RxStage
  <1>6. CASE RxFinal
    BY <1>6 DEF RxFinal, FinalInterrupt, FinalJoin, FinalStop, FinalRequested, FinalClose,
        FinalFinish, FinalNotify, FinalizedCallback, WorkerExit
  <1>7. CASE AppCall
    <2>1. CASE AppStopGame
      BY <2>1 DEF AppStopGame, AppMayCall, ControlSend
    <2>2. CASE AppConnect \/ AppDisconnect \/ AppInterrupt \/ AppSetForeground \/ AppJoin \/
        AppDestroy
      BY <2>2 DEF AppConnect, AppMayCall, AppDisconnect, AppInterrupt, AppSetForeground,
          AppJoin, AppDestroy
    <2> QED
      BY <1>7, <2>1, <2>2 DEF AppCall
  <1>8. CASE AppResume
    <2>1. CASE DestroyTimer
      BY <2>1 DEF DestroyTimer
    <2>2. CASE AppJoined \/ DestroyInterrupt \/ DestroyJoin
      BY <2>2 DEF AppJoined, DestroyInterrupt, DestroyJoin
    <2> QED
      BY <1>8, <2>1, <2>2 DEF AppResume
  <1>9. ASSUME NEW t \in Threads, DisconnectStep(t) PROVE CompleteInv'
    BY <1>9 DEF DisconnectStep, DisconnectTransport, DisconnectInterrupt, DisconnectNotify,
        DisconnectedCallback
  <1>10. CASE SenderExit
    BY <1>10 DEF SenderExit
  <1>11. CASE HidCheck
    BY <1>11 DEF HidCheck
  <1>12. CASE HidSend
    BY <1>12 DEF HidSend, ControlSend
  <1>13. CASE UNCHANGED vars
    BY <1>13 DEF vars
  <1> QED
    BY <1>1, <1>2, <1>3, <1>4, <1>5, <1>6, <1>7, <1>8, <1>9, <1>10, <1>11, <1>12, <1>13 DEF
        Next, RxNext, Freed

\* The phase of a retired transport is never advanced, so RetireInv is preserved.
LEMMA RetireStep ==
  ASSUME TypeOK, RetireInv, [Next]_vars
  PROVE  RetireInv'
  <1> USE DEF RetireInv, RetiredIsDead, StartPoints, link, RxAt, Unconnected, Connecting,
      Handshaking, Authenticating, Negotiating, Starting, Connected, Stopping
  <1>1. CASE RxStart
    <2>1. CASE InitBegin
      BY <2>1 DEF InitBegin, TypeOK, LinkOK, Phases
    <2>2. CASE Init0 \/ InitConnecting
      BY <2>2 DEF Init0, InitConnecting
    <2> QED
      BY <1>1, <2>1, <2>2 DEF RxStart
  <1>2. CASE RxReceive
    <2>1. CASE RecvConnectACK
      BY <2>1 DEF RecvConnectACK, Receive, TransportState, TypeOK, LinkOK, Phases
    <2>2. CASE RecvDisconnect
      BY <2>2 DEF RecvDisconnect, Receive, TransportState, TransportDisconnect, TypeOK, LinkOK,
          Phases
    <2>3. CASE ControlHandshake
      BY <2>3 DEF ControlHandshake, TypeOK, LinkOK, Phases
    <2>4. CASE Cycle \/ (\E m \in HostMessages : RecvControl(m)) \/ ClientHandshake \/ EndBatch
      BY <2>4 DEF Cycle, RecvControl, Receive, ClientHandshake, EndBatch
    <2> QED
      BY <1>2, <2>1, <2>2, <2>3, <2>4 DEF RxReceive
  <1>3. CASE RxUpdate
    <2>1. CASE PrepareUpdate
      BY <2>1 DEF PrepareUpdate, TransportFinish, ClientTransportClosed, TypeOK, LinkOK, Phases
    <2>2. CASE TimeoutClose
      BY <2>2 DEF TimeoutClose, TransportDisconnect, TransportState, TypeOK, LinkOK, Phases
    <2>3. CASE ChangeForeground \/ NetworkGate \/ NetworkUpdate \/ CheckTimeout \/ DrainGate \/
        DrainIncoming \/ DrainDone
      BY <2>3 DEF ChangeForeground, NetworkGate, NetworkUpdate, CheckTimeout, DrainGate,
          DrainIncoming, DrainDone
    <2> QED
      BY <1>3, <2>1, <2>2, <2>3 DEF RxUpdate
  <1>4. CASE RxHandle
    <2>1. CASE OnServerHandshake
      BY <2>1 DEF OnServerHandshake, Dispatching, TypeOK, LinkOK, Phases
    <2>2. CASE OnAuthenticated
      BY <2>2 DEF OnAuthenticated, Dispatching, TypeOK, LinkOK, Phases
    <2>3. CASE AuthClosed
      BY <2>3 DEF AuthClosed, ClientTransportClosed, TypeOK, LinkOK, Phases
    <2>4. CASE OnNegotiationSetConfig
      BY <2>4 DEF OnNegotiationSetConfig, Dispatching, TypeOK, LinkOK, Phases
    <2>5. CASE OnMalformed \/ RequestAuthentication \/ OnAuthRejected \/ OnNegotiationInit \/
        HostStopped \/ OnMediaControl
      BY <2>5 DEF OnMalformed, RequestAuthentication, OnAuthRejected, Dispatching,
          OnNegotiationInit, HostStopped, OnMediaControl
    <2> QED
      BY <1>4, <2>1, <2>2, <2>3, <2>4, <2>5 DEF RxHandle
  <1>5. CASE RxStage
    <2>1. CASE StageStart
      BY <2>1 DEF StageStart, TypeOK, LinkOK, Phases
    <2>2. CASE StopPhase
      BY <2>2 DEF StopPhase, TypeOK, LinkOK, Phases, LocalOK
    <2>3. CASE StageStop \/ StageComplete \/ ConnectedCallback \/ StageStreaming \/ StageIdle \/
        StopMedia \/ StopNotify \/ ClosedNotice \/ ClosedInterrupt
      BY <2>3 DEF StageStop, StageComplete, ConnectedCallback, StageStreaming, StageIdle,
          StopMedia, StopNotify, ClosedNotice, ClosedInterrupt
    <2> QED
      BY <1>5, <2>1, <2>2, <2>3 DEF RxStage
  <1>6. CASE RxFinal
    <2>1. CASE FinalClose
      BY <2>1 DEF FinalClose, TransportClose, TransportDisconnect, TransportState, TypeOK,
          LinkOK, Phases
    <2>2. CASE FinalFinish
      BY <2>2 DEF FinalFinish, TypeOK, LinkOK, Phases
    <2>3. CASE FinalInterrupt \/ FinalJoin \/ FinalStop \/ FinalRequested \/ FinalNotify \/
        FinalizedCallback \/ WorkerExit
      BY <2>3 DEF FinalInterrupt, FinalJoin, FinalStop, FinalRequested, FinalNotify,
          FinalizedCallback, WorkerExit
    <2> QED
      BY <1>6, <2>1, <2>2, <2>3 DEF RxFinal
  <1>7. CASE AppCall
    BY <1>7 DEF AppCall, AppConnect, AppDisconnect, AppInterrupt, AppStopGame, AppSetForeground,
        AppJoin, AppDestroy
  <1>8. CASE AppResume
    BY <1>8 DEF AppResume, AppJoined, DestroyTimer, DestroyInterrupt, DestroyJoin
  <1>9. ASSUME NEW t \in Threads, DisconnectStep(t) PROVE RetireInv'
    <2>1. CASE DisconnectTransport(t)
      BY <2>1 DEF DisconnectTransport, TransportDisconnect, TransportState, TransportClose,
          TypeOK, LinkOK, Phases
    <2>2. CASE DisconnectInterrupt(t) \/ DisconnectNotify(t) \/ DisconnectedCallback(t)
      BY <2>2 DEF DisconnectInterrupt, DisconnectNotify, DisconnectedCallback
    <2> QED
      BY <1>9, <2>1, <2>2 DEF DisconnectStep
  <1>10. CASE SenderExit
    BY <1>10 DEF SenderExit
  <1>11. CASE HidCheck
    BY <1>11 DEF HidCheck
  <1>12. CASE HidSend
    BY <1>12 DEF HidSend
  <1>13. CASE UNCHANGED vars
    BY <1>13 DEF vars
  <1> QED
    BY <1>1, <1>2, <1>3, <1>4, <1>5, <1>6, <1>7, <1>8, <1>9, <1>10, <1>11, <1>12, <1>13 DEF
        Next, RxNext, Freed

\* Threads leave the session in the order Destroy waits for them: QuietInv is preserved.
LEMMA QuietStep ==
  ASSUME TypeOK, QuietInv, [Next]_vars
  PROVE  QuietInv'
  <1> USE DEF QuietInv, JoinedPoints, Free, Threads, procs, stop, notice, local, RxAt, AppAt
  <1>1. CASE RxStart
    <2>1. CASE Init0
      BY <2>1 DEF Init0, Run, TypeOK, StopOK, NoticeOK, LocalOK
    <2>2. CASE InitConnecting \/ InitBegin
      BY <2>2 DEF InitConnecting, InitBegin
    <2> QED
      BY <1>1, <2>1, <2>2 DEF RxStart
  <1>2. CASE RxReceive
    <2>1. CASE ClientHandshake
      BY <2>1 DEF ClientHandshake, ControlSend, LocalFailure, RequestClose, TypeOK, StopOK,
          NoticeOK, LocalOK
    <2>2. CASE Cycle \/ RecvConnectACK \/ RecvDisconnect \/ (\E m \in HostMessages :
        RecvControl(m)) \/ ControlHandshake \/ EndBatch
      BY <2>2 DEF Cycle, RecvConnectACK, Receive, RecvDisconnect, RecvControl, ControlHandshake,
          EndBatch
    <2> QED
      BY <1>2, <2>1, <2>2 DEF RxReceive
  <1>3. CASE RxUpdate
    <2>1. CASE ChangeForeground
      BY <2>1 DEF ChangeForeground, ControlSend, LocalFailure, RequestClose, TypeOK, StopOK,
          NoticeOK, LocalOK
    <2>2. CASE PrepareUpdate \/ NetworkGate \/ NetworkUpdate \/ CheckTimeout \/ TimeoutClose \/
        DrainGate \/ DrainIncoming \/ DrainDone
      BY <2>2 DEF PrepareUpdate, NetworkGate, NetworkUpdate, CheckTimeout, TimeoutClose,
          DrainGate, DrainIncoming, DrainDone
    <2> QED
      BY <1>3, <2>1, <2>2 DEF RxUpdate
  <1>4. CASE RxHandle
    <2>1. CASE RequestAuthentication
      BY <2>1 DEF RequestAuthentication, ControlSend, LocalFailure, RequestClose, TypeOK,
          StopOK, NoticeOK, LocalOK
    <2>2. CASE OnAuthRejected
      BY <2>2 DEF OnAuthRejected, Dispatching, CallDisconnect, RequestClose, TypeOK, StopOK,
          NoticeOK, LocalOK
    <2>3. CASE OnNegotiationInit
      BY <2>3 DEF OnNegotiationInit, Dispatching, ControlSend, LocalFailure, RequestClose,
          TypeOK, StopOK, NoticeOK, LocalOK
    <2>4. CASE OnNegotiationSetConfig
      BY <2>4 DEF OnNegotiationSetConfig, Dispatching, LocalFailure, RequestClose, TypeOK,
          StopOK, NoticeOK, LocalOK
    <2>5. CASE HostStopped
      BY <2>5 DEF HostStopped, Dispatching, CallDisconnect, RequestClose, TypeOK, StopOK,
          NoticeOK, LocalOK
    <2>6. CASE OnMalformed \/ OnServerHandshake \/ OnAuthenticated \/ AuthClosed \/
        OnMediaControl
      BY <2>6 DEF OnMalformed, OnServerHandshake, Dispatching, OnAuthenticated, AuthClosed,
          OnMediaControl
    <2> QED
      BY <1>4, <2>1, <2>2, <2>3, <2>4, <2>5, <2>6 DEF RxHandle
  <1>5. CASE RxStage
    <2>1. CASE StageStop
      BY <2>1 DEF StageStop, TypeOK, StopOK, NoticeOK, LocalOK
    <2>2. CASE StageComplete
      BY <2>2 DEF StageComplete, LocalFailure, RequestClose, TypeOK, StopOK, NoticeOK, LocalOK
    <2>3. CASE StageStreaming
      BY <2>3 DEF StageStreaming, ControlSend, LocalFailure, RequestClose, TypeOK, StopOK,
          NoticeOK, LocalOK
    <2>4. CASE StopNotify
      BY <2>4 DEF StopNotify, NotifyDisconnected, TypeOK, StopOK, NoticeOK, LocalOK
    <2>5. CASE StopPhase
      BY <2>5 DEF StopPhase, TypeOK, StopOK, NoticeOK, LocalOK
    <2>6. CASE ClosedNotice
      BY <2>6 DEF ClosedNotice, NotifyDisconnected, TypeOK, StopOK, NoticeOK, LocalOK
    <2>7. CASE StageStart \/ ConnectedCallback \/ StageIdle \/ StopMedia \/ ClosedInterrupt
      BY <2>7 DEF StageStart, ConnectedCallback, StageIdle, StopMedia, ClosedInterrupt
    <2> QED
      BY <1>5, <2>1, <2>2, <2>3, <2>4, <2>5, <2>6, <2>7 DEF RxStage
  <1>6. CASE RxFinal
    <2>1. CASE FinalJoin
      BY <2>1 DEF FinalJoin, TypeOK, StopOK, NoticeOK, LocalOK
    <2>2. CASE FinalStop
      BY <2>2 DEF FinalStop, TypeOK, StopOK, NoticeOK, LocalOK
    <2>3. CASE FinalNotify
      BY <2>3 DEF FinalNotify, NotifyDisconnected, TypeOK, StopOK, NoticeOK, LocalOK
    <2>4. CASE WorkerExit
      BY <2>4 DEF WorkerExit, TypeOK, StopOK, NoticeOK, LocalOK
    <2>5. CASE FinalInterrupt \/ FinalRequested \/ FinalClose \/ FinalFinish \/
        FinalizedCallback
      BY <2>5 DEF FinalInterrupt, FinalRequested, FinalClose, FinalFinish, FinalizedCallback
    <2> QED
      BY <1>6, <2>1, <2>2, <2>3, <2>4, <2>5 DEF RxFinal
  <1>7. CASE AppCall
    <2>1. CASE AppConnect
      BY <2>1 DEF AppConnect, AppMayCall, TypeOK, StopOK, NoticeOK, LocalOK
    <2>2. CASE AppDisconnect
      BY <2>2 DEF AppDisconnect, AppMayCall, CallDisconnect, RequestClose, TypeOK, StopOK,
          NoticeOK, LocalOK
    <2>3. CASE AppStopGame
      BY <2>3 DEF AppStopGame, AppMayCall, ControlSend, LocalFailure, RequestClose, TypeOK,
          StopOK, NoticeOK, LocalOK
    <2>4. CASE AppJoin
      BY <2>4 DEF AppJoin, TypeOK, StopOK, NoticeOK, LocalOK
    <2>5. CASE AppDestroy
      BY <2>5 DEF AppDestroy, TypeOK, StopOK, NoticeOK, LocalOK
    <2>6. CASE AppInterrupt \/ AppSetForeground
      BY <2>6 DEF AppInterrupt, AppMayCall, AppSetForeground
    <2> QED
      BY <1>7, <2>1, <2>2, <2>3, <2>4, <2>5, <2>6 DEF AppCall
  <1>8. CASE AppResume
    <2>1. CASE AppJoined
      BY <2>1 DEF AppJoined, TypeOK, StopOK, NoticeOK, LocalOK
    <2>2. CASE DestroyTimer
      BY <2>2 DEF DestroyTimer, TypeOK, StopOK, NoticeOK, LocalOK
    <2>3. CASE DestroyInterrupt
      BY <2>3 DEF DestroyInterrupt, TypeOK, StopOK, NoticeOK, LocalOK
    <2>4. CASE DestroyJoin
      BY <2>4 DEF DestroyJoin, TypeOK, StopOK, NoticeOK, LocalOK
    <2> QED
      BY <1>8, <2>1, <2>2, <2>3, <2>4 DEF AppResume
  <1>9. ASSUME NEW t \in Threads, DisconnectStep(t) PROVE QuietInv'
    <2>1. CASE DisconnectTransport(t)
      BY <2>1 DEF DisconnectTransport, TypeOK, StopOK, NoticeOK, LocalOK
    <2>2. CASE DisconnectInterrupt(t)
      BY <2>2 DEF DisconnectInterrupt, TypeOK, StopOK, NoticeOK, LocalOK
    <2>3. CASE DisconnectNotify(t)
      BY <2>3 DEF DisconnectNotify, NotifyDisconnected, TypeOK, StopOK, NoticeOK, LocalOK
    <2>4. CASE DisconnectedCallback(t)
      BY <2>4 DEF DisconnectedCallback, Run, TypeOK, StopOK, NoticeOK, LocalOK
    <2> QED
      BY <1>9, <2>1, <2>2, <2>3, <2>4 DEF DisconnectStep
  <1>10. CASE SenderExit
    BY <1>10 DEF SenderExit, TypeOK, StopOK, NoticeOK, LocalOK
  <1>11. CASE HidCheck
    BY <1>11 DEF HidCheck, TypeOK, StopOK, NoticeOK, LocalOK
  <1>12. CASE HidSend
    BY <1>12 DEF HidSend, ControlSend, LocalFailure, RequestClose, TypeOK, StopOK, NoticeOK,
        LocalOK
  <1>13. CASE UNCHANGED vars
    BY <1>13 DEF vars
  <1> QED
    BY <1>1, <1>2, <1>3, <1>4, <1>5, <1>6, <1>7, <1>8, <1>9, <1>10, <1>11, <1>12, <1>13 DEF
        Next, RxNext, Freed

\* One step moves the phase by at most one, or resets it.
LEMMA PhaseStep ==
  ASSUME TypeOK, RetireInv, [Next]_vars
  PROVE  phase' # phase => phase' = phase + 1 \/ phase' = Unconnected
  <1> USE DEF Unconnected, Connecting, Handshaking, Authenticating, Negotiating, Starting,
      Connected, Stopping
  <1>1. CASE RxStart
    <2>1. CASE InitBegin
      BY <2>1 DEF InitBegin, RetireInv, StartPoints, RxAt
    <2>2. CASE Init0 \/ InitConnecting
      BY <2>2 DEF Init0, InitConnecting
    <2> QED
      BY <1>1, <2>1, <2>2 DEF RxStart
  <1>2. CASE RxReceive
    <2>1. CASE ControlHandshake
      BY <2>1 DEF ControlHandshake, RetireInv, StartPoints, RxAt
    <2>2. CASE Cycle \/ RecvConnectACK \/ RecvDisconnect \/ (\E m \in HostMessages :
        RecvControl(m)) \/ ClientHandshake \/ EndBatch
      BY <2>2 DEF Cycle, RecvConnectACK, RecvDisconnect, RecvControl, ClientHandshake, EndBatch
    <2> QED
      BY <1>2, <2>1, <2>2 DEF RxReceive
  <1>3. CASE RxUpdate
    <2>1. CASE PrepareUpdate
      BY <2>1 DEF PrepareUpdate, TransportFinish, ClientTransportClosed
    <2>2. CASE ChangeForeground \/ NetworkGate \/ NetworkUpdate \/ CheckTimeout \/ TimeoutClose
        \/ DrainGate \/ DrainIncoming \/ DrainDone
      BY <2>2 DEF ChangeForeground, NetworkGate, NetworkUpdate, CheckTimeout, TimeoutClose,
          DrainGate, DrainIncoming, DrainDone
    <2> QED
      BY <1>3, <2>1, <2>2 DEF RxUpdate
  <1>4. CASE RxHandle
    <2>1. CASE OnServerHandshake
      BY <2>1 DEF OnServerHandshake
    <2>2. CASE OnAuthenticated
      BY <2>2 DEF OnAuthenticated
    <2>3. CASE AuthClosed
      BY <2>3 DEF AuthClosed, ClientTransportClosed
    <2>4. CASE OnNegotiationSetConfig
      BY <2>4 DEF OnNegotiationSetConfig
    <2>5. CASE OnMalformed \/ RequestAuthentication \/ OnAuthRejected \/ OnNegotiationInit \/
        HostStopped \/ OnMediaControl
      BY <2>5 DEF OnMalformed, RequestAuthentication, OnAuthRejected, OnNegotiationInit,
          HostStopped, OnMediaControl
    <2> QED
      BY <1>4, <2>1, <2>2, <2>3, <2>4, <2>5 DEF RxHandle
  <1>5. CASE RxStage
    <2>1. CASE StageStart
      BY <2>1 DEF StageStart
    <2>2. CASE StopPhase
      BY <2>2 DEF StopPhase
    <2>3. CASE StageStop \/ StageComplete \/ ConnectedCallback \/ StageStreaming \/ StageIdle \/
        StopMedia \/ StopNotify \/ ClosedNotice \/ ClosedInterrupt
      BY <2>3 DEF StageStop, StageComplete, ConnectedCallback, StageStreaming, StageIdle,
          StopMedia, StopNotify, ClosedNotice, ClosedInterrupt
    <2> QED
      BY <1>5, <2>1, <2>2, <2>3 DEF RxStage
  <1>6. CASE RxFinal
    BY <1>6 DEF RxFinal, FinalInterrupt, FinalJoin, FinalStop, FinalRequested, FinalClose,
        FinalFinish, FinalNotify, FinalizedCallback, WorkerExit
  <1>7. CASE AppCall
    BY <1>7 DEF AppCall, AppConnect, AppDisconnect, AppInterrupt, AppStopGame, AppSetForeground,
        AppJoin, AppDestroy
  <1>8. CASE AppResume
    BY <1>8 DEF AppResume, AppJoined, DestroyTimer, DestroyInterrupt, DestroyJoin
  <1>9. ASSUME NEW t \in Threads, DisconnectStep(t) PROVE phase' = phase
    BY <1>9 DEF DisconnectStep, DisconnectTransport, DisconnectInterrupt, DisconnectNotify,
        DisconnectedCallback
  <1>10. CASE SenderExit
    BY <1>10 DEF SenderExit
  <1>11. CASE HidCheck
    BY <1>11 DEF HidCheck
  <1>12. CASE HidSend
    BY <1>12 DEF HidSend
  <1>13. CASE UNCHANGED vars
    BY <1>13 DEF vars
  <1> QED
    BY <1>1, <1>2, <1>3, <1>4, <1>5, <1>6, <1>7, <1>8, <1>9, <1>10, <1>11, <1>12, <1>13 DEF
        Next, RxNext, Freed

-----------------------------------------------------------------------------
(* The theorems.                                                           *)

\* The application hears of the end of a session at most once, however many threads
\* disconnect it at the same time (IHS_SessionNotifyDisconnected).
THEOREM NotifiedOnceHolds == Spec => []NotifiedOnce
  <1>1. Init => NoticeInv
    BY DEF Init, NoticeInv, Callbacks
  <1>2. NoticeInv => NotifiedOnce
    BY DEF NoticeInv, NotifiedOnce
  <1> QED
    BY <1>1, <1>2, TypeCorrect, NoticeStep, PTL DEF Spec

\* A session sends at most one Disconnect packet (IHS_SessionTransportDisconnect).
THEOREM OneGoodbyeHolds == Spec => []OneGoodbye
  <1>1. Init => GoodbyeInv
    BY DEF Init, GoodbyeInv
  <1>2. GoodbyeInv => OneGoodbye
    BY DEF GoodbyeInv, OneGoodbye
  <1> QED
    BY <1>1, <1>2, TypeCorrect, GoodbyeStep, PTL DEF Spec

\* No streaming-phase control message is queued before NegotiationComplete (UpdateStage and
\* SubmitHIDReport, whose check of the phase is not under the producer lock).
THEOREM CompleteFirstHolds == Spec => []CompleteFirst
  <1>1. Init => CompleteInv
    BY DEF Init, CompleteInv, CompleteFirst, Unconnected, Connected
  <1>2. CompleteInv => CompleteFirst
    BY DEF CompleteInv
  <1> QED
    BY <1>1, <1>2, TypeCorrect, CompleteStep, PTL DEF Spec

\* RetireInv holds in every reachable state.
LEMMA RetireHolds == Spec => []RetireInv
  <1>1. Init => RetireInv
    BY DEF Init, RetireInv, RetiredIsDead, StartPoints
  <1> QED
    BY <1>1, TypeCorrect, RetireStep, PTL DEF Spec

\* No handler revives the phase of a transport that has been retired (TransportFinish).
THEOREM RetiredIsDeadHolds == Spec => []RetiredIsDead
  <1>1. RetireInv => RetiredIsDead
    BY DEF RetireInv
  <1> QED
    BY <1>1, RetireHolds, PTL

\* IHS_SessionDestroy frees the session only when no thread is in it.
THEOREM FreedIsQuietHolds == Spec => []FreedIsQuiet
  <1>1. Init => QuietInv
    BY DEF Init, QuietInv, JoinedPoints, Free, Threads
  <1>2. QuietInv => FreedIsQuiet
    BY DEF QuietInv, FreedIsQuiet, JoinedPoints, Threads
  <1> QED
    BY <1>1, <1>2, TypeCorrect, QuietStep, PTL DEF Spec

\* The phase of a session never goes back to an earlier live phase.
THEOREM PhaseAdvancesHolds == Spec => PhaseAdvances
  <1>1. TypeOK /\ RetireInv /\ [Next]_vars
          => [phase' # phase => phase' = phase + 1 \/ phase' = Unconnected]_vars
    BY PhaseStep
  <1> QED
    BY <1>1, TypeCorrect, RetireHolds, PTL DEF Spec, PhaseAdvances
=============================================================================
