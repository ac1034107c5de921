---------------------------- MODULE ClientLaunch ----------------------------
(***************************************************************************)
(* How a client asks a host to stream (client/streaming.c), pairs with it  *)
(* (client/authorization.c), and dispatches what it receives (client.c):   *)
(* at once in the RX worker, or deferred to the application's pump.        *)
(*                                                                         *)
(* A request lives in two places: the owned timer task, and the `launch'   *)
(* record of the client, which decides about late answers, repeated        *)
(* requests and cancellation.  The application changes them in several     *)
(* critical sections; the RX worker, the pump and the timer thread run     *)
(* visits of the task in between.  A visit is one action: it holds the     *)
(* timer's mutex, and all other writers of what it changes need that mutex *)
(* or have found no task.                                                  *)
(*                                                                         *)
(* The application makes its calls one at a time and pumps from another    *)
(* thread.  Callbacks only enqueue work (client.h:149).  Secrets are left  *)
(* out: whether a key or a ticket is good is the environment's choice.     *)
(***************************************************************************)
EXTENDS Integers, Sequences, FiniteSets

CONSTANTS
    Hosts,
    Keys,          \* auth_key values a host may send
    MaxLaunches,   \* streaming requests
    MaxPairings,   \* authorization requests
    MaxRequests,   \* both together
    MaxFailures,   \* local failures: allocation, random bytes, encryption, a full queue
    MaxToHost, MaxToClient, \* datagrams under way in each direction; more are lost
    CanceledSize,  \* entries of `canceled', 8 in the code
    QueueSize,     \* entries of authorizationQueue, 32 in the code
    AttemptLimit   \* key exchanges of one request, 3 in the code

ASSUME LaunchAssumption ==
    /\ MaxLaunches \in Nat /\ MaxPairings \in Nat /\ MaxRequests \in Nat
    /\ MaxFailures \in Nat /\ MaxToHost \in Nat
    /\ MaxToClient \in Nat /\ AttemptLimit \in Nat
    /\ CanceledSize \in Nat \ {0} /\ QueueSize \in Nat \ {0}

NoHost == "no host"
NoKey == "no key"
Workers == {"rx", "pump"}
Ids == 1 .. MaxLaunches

VARIABLES
    deferred,  \* deferAuthorization, configured before the first request
    launch,    \* lastLaunchId, lastLaunchHost, lastLaunchAuthorizing, lastLaunchHasTicket
    canceled,  \* ring of retired requests
    stream,    \* IHS_StreamingState of the owned task
    auth,      \* IHS_AuthorizationState of the owned task
    cache,     \* authorizationCache
    batch,     \* receiveBatchActive
    queue,     \* authorizationQueue
    pc,        \* what the RX worker, the pump and the application are doing
    hand,      \* the message a worker dispatches
    target,    \* the host of the application's streaming request
    toHost, toClient,  \* datagrams under way
    paired,    \* hosts that have accepted this client
    serving,   \* launches each host is working on
    launches, pairings, failures,  \* how much of the bounds is used
    outcomes,  \* history: final callbacks of each launch
    closed     \* history: launches the application has given up

client == <<launch, canceled, stream, auth, cache>>
rxVars == <<batch, queue>>
net == <<toHost, toClient, paired, serving>>
vars == <<deferred, client, rxVars, pc, hand, target, net, launches, pairings, failures,
          outcomes, closed>>

NoStream == [id |-> 0, host |-> NoHost, authorizing |-> FALSE, ticket |-> FALSE,
             terminal |-> FALSE, timerFailed |-> FALSE, sent |-> FALSE, fresh |-> FALSE,
             attempts |-> 0]
NoAuth == [host |-> NoHost, terminal |-> FALSE, attempts |-> 0]
NoRequest == [id |-> 0, host |-> NoHost]
NoLaunch(host) == [id |-> 0, host |-> host, authorizing |-> FALSE, ticket |-> FALSE]

\* Messages from a host.
Response(h, id, result) ==
    [type |-> "StreamingResponse", host |-> h, id |-> id, result |-> result, key |-> NoKey]
Authorization(h, result, key) ==
    [type |-> "AuthorizationResponse", host |-> h, id |-> 0, result |-> result, key |-> key]
NoMessage == [type |-> "none", host |-> NoHost, id |-> 0, result |-> "none", key |-> NoKey]

\* Messages to a host.  A host does not act on a negative confirmation or on the end of its
\* PIN dialog: these are not kept.
Ask(type, h, id) == {[type |-> type, host |-> h, id |-> id]}
Confirm(h, result) == IF result = "Success" THEN Ask("Confirmed", h, 0) ELSE {}
Send(messages) ==
    toHost' = IF Cardinality(toHost \cup messages) <= MaxToHost THEN toHost \cup messages
              ELSE toHost

Init ==
    /\ deferred \in BOOLEAN
    /\ launch = NoLaunch(NoHost)
    /\ canceled = [next |-> 0, slots |-> [i \in 0 .. CanceledSize - 1 |-> NoRequest]]
    /\ stream = NoStream /\ auth = NoAuth /\ cache = [key |-> NoKey, result |-> "Failed"]
    /\ batch = FALSE /\ queue = <<>>
    /\ pc = [rx |-> "idle", pump |-> "idle", app |-> "idle"]
    /\ hand = [w \in Workers |-> NoMessage] /\ target = NoHost
    /\ toHost = {} /\ toClient = {} /\ paired = {} /\ serving = {}
    /\ launches = 0 /\ pairings = 0 /\ failures = 0
    /\ outcomes = [id \in Ids |-> 0] /\ closed = {}

Goto(p, place) == pc' = [pc EXCEPT ![p] = place]
At(p, place) == pc[p] = place

\* Where a local failure may strike: "ok" when it does not.
May(ok) == ok \/ failures < MaxFailures
Count(ok) == failures' = IF ok THEN failures ELSE failures + 1

Notify(id) == outcomes' = [outcomes EXCEPT ![id] = @ + 1]

ClearLaunch(id) == IF launch.id = id THEN NoLaunch(launch.host) ELSE launch

\* StreamingRequestCleanup: a request that could not be sent reports it when its task ends.
Cleanup ==
    /\ stream' = NoStream
    /\ outcomes' = IF stream.timerFailed THEN [outcomes EXCEPT ![stream.id] = @ + 1]
                   ELSE outcomes

-----------------------------------------------------------------------------
(* The application.                                                        *)

\* CancelVisit: stop the task; from here on the launch is given up.
CancelVisit ==
    /\ Cleanup
    /\ closed' = closed \cup ({stream.id} \ {0})

\* The ring entry of a retired launch.
Retire ==
    canceled' = IF launch.id = 0 THEN canceled
                ELSE [next |-> (canceled.next + 1) % CanceledSize,
                      slots |-> [canceled.slots EXCEPT ![canceled.next] =
                                    [id |-> launch.id, host |-> launch.host]]]

SameWaitingHost(h) ==
    launch.id # 0 /\ ~ launch.ticket /\ ~ launch.authorizing /\ launch.host = h

\* IHS_ClientStreamingRequest.  Repeated for a host that is waited for, it does nothing.
StreamingRequest(h) ==
    /\ At("app", "idle") /\ launches < MaxLaunches /\ launches + pairings < MaxRequests
    /\ ~ SameWaitingHost(h)
    /\ target' = h
    /\ Goto("app", "retire")
    /\ UNCHANGED <<deferred, client, rxVars, hand, net, launches, pairings, failures, outcomes,
                   closed>>

RetireVisit ==
    /\ At("app", "retire")
    /\ CancelVisit
    /\ Goto("app", "record")
    /\ UNCHANGED <<deferred, launch, canceled, auth, cache, rxVars, hand, target, net, launches,
                   pairings, failures>>

RetireRecord ==
    /\ At("app", "record")
    /\ Retire
    /\ launch' = NoLaunch(launch.host)
    /\ Goto("app", "publish")
    /\ UNCHANGED <<deferred, stream, auth, cache, rxVars, hand, target, net, launches, pairings,
                   failures, outcomes, closed>>

\* The new id differs from those of the ring; here it differs from all earlier ones.
Publish ==
    /\ At("app", "publish")
    /\ launches' = launches + 1
    /\ launch' = [NoLaunch(target) EXCEPT !.id = launches + 1]
    /\ Goto("app", "start")
    /\ UNCHANGED <<deferred, canceled, stream, auth, cache, rxVars, hand, target, net, pairings,
                   failures, outcomes, closed>>

\* Mutant: a request that fails locally leaves its launch behind.
StartFailsKeeps ==
    /\ At("app", "start") /\ May(FALSE) /\ Count(FALSE)
    /\ Goto("app", "idle")
    /\ UNCHANGED <<deferred, client, rxVars, hand, target, net, launches, pairings, outcomes, closed>>

\* No random bytes, no key exchange, or no task.
StartFails ==
    /\ At("app", "start") /\ May(FALSE) /\ Count(FALSE)
    /\ launch' = ClearLaunch(launch.id)
    /\ Goto("app", "idle")
    /\ UNCHANGED <<deferred, canceled, stream, auth, cache, rxVars, hand, target, net, launches,
                   pairings, outcomes, closed>>

\* The stream PIN cannot be encrypted: go on as StreamingCancel, which finds no task.
StartCancels ==
    /\ At("app", "start") /\ May(FALSE) /\ Count(FALSE)
    /\ Goto("app", "cancel")
    /\ UNCHANGED <<deferred, client, rxVars, hand, target, net, launches, pairings, outcomes, closed>>

Start ==
    /\ At("app", "start")
    /\ stream' = [NoStream EXCEPT !.id = launch.id, !.host = target]
    /\ Goto("app", "idle")
    /\ UNCHANGED <<deferred, launch, canceled, auth, cache, rxVars, hand, target, net, launches,
                   pairings, failures, outcomes, closed>>

\* IHS_ClientStreamingCancel, unless there is nothing to cancel: stop the task, then retire the launch and tell the host.
StreamingCancel ==
    /\ At("app", "idle") /\ (launch.id # 0 \/ stream.id # 0)
    /\ CancelVisit
    /\ Goto("app", "cancel")
    /\ UNCHANGED <<deferred, launch, canceled, auth, cache, rxVars, hand, target, net, launches,
                   pairings, failures>>

CancelRecord ==
    /\ At("app", "cancel")
    /\ Retire
    /\ launch' = NoLaunch(launch.host)
    /\ Send(IF launch.id # 0 /\ ~ launch.authorizing
            THEN Ask("StreamingCancel", launch.host, launch.id) ELSE {})
    /\ Goto("app", "idle")
    /\ UNCHANGED <<deferred, stream, auth, cache, rxVars, hand, target, toClient, paired, serving,
                   launches, pairings, failures, outcomes, closed>>

\* IHS_ClientAuthorizationRequest: refused while a request is there.
AuthorizationRequest(h) ==
    /\ At("app", "idle") /\ pairings < MaxPairings /\ launches + pairings < MaxRequests
    /\ auth = NoAuth
    /\ auth' = [NoAuth EXCEPT !.host = h]
    /\ pairings' = pairings + 1
    /\ UNCHANGED <<deferred, launch, canceled, stream, cache, rxVars, pc, hand, target, net,
                   launches, failures, outcomes, closed>>

AuthorizationCancel ==
    /\ At("app", "idle") /\ auth # NoAuth
    /\ auth' = NoAuth
    /\ UNCHANGED <<deferred, launch, canceled, stream, cache, rxVars, pc, hand, target, net,
                   launches, pairings, failures, outcomes, closed>>

-----------------------------------------------------------------------------
(* Sending, from the timer thread and after a receive batch.               *)

\* SendCurrentRequest for the request s and the launch record l, after the messages `before'.
SendCurrentRequest(s, l, ok, before) ==
    /\ May(ok) /\ Count(ok)
    /\ stream' = IF ok THEN [s EXCEPT !.sent = TRUE]
                 ELSE [s EXCEPT !.terminal = TRUE, !.timerFailed = TRUE]
    /\ launch' = IF ok \/ l.id # s.id THEN l ELSE NoLaunch(l.host)
    /\ Send(before \cup
            IF s.authorizing
            THEN IF ok THEN Ask("AuthorizationRequest", s.host, s.id) ELSE {}
            ELSE Ask(IF ok THEN "StreamingRequest" ELSE "StreamingCancel", s.host, s.id))

\* Mutant: what was queued after the pump had drained the queue is not looked at again.
ReadyEarly ==
    ~ batch /\ hand["pump"] = NoMessage

Ready ==
    ~ batch /\ queue = <<>> /\ hand["pump"] = NoMessage

\* StreamingAdvance has something to do.
Advances(initialOnly) ==
    /\ stream.id # 0 /\ ~ stream.terminal /\ ~ stream.ticket
    /\ ~ (initialOnly /\ stream.sent)
    /\ Ready /\ (~ stream.sent \/ stream.fresh)

\* StreamingRequestTimer: the first send.  A failure ends the task at once.
StreamingTimer(ok) ==
    /\ ~ deferred /\ Advances(TRUE)
    /\ May(ok) /\ Count(ok)
    /\ IF ok
       THEN /\ stream' = [stream EXCEPT !.sent = TRUE, !.fresh = FALSE]
            /\ UNCHANGED <<launch, outcomes>>
       ELSE /\ stream' = NoStream
            /\ launch' = ClearLaunch(stream.id)
            /\ Notify(stream.id)
    /\ Send(Ask(IF ok THEN "StreamingRequest" ELSE "StreamingCancel", stream.host, stream.id))
    /\ UNCHANGED <<deferred, canceled, auth, cache, rxVars, pc, hand, target, toClient, paired,
                   serving, launches, pairings, closed>>

\* The timer thread ends a task that was stopped or is terminal.
StreamingEnd ==
    /\ stream.terminal
    /\ Cleanup
    /\ UNCHANGED <<deferred, launch, canceled, auth, cache, rxVars, pc, hand, target, net,
                   launches, pairings, failures, closed>>

\* AuthorizationRequestTimer at some time after nextSendWallSecond, with
\* AuthorizationRequestCleanup when it fails or was stopped.
AuthorizationTimer(ok) ==
    /\ auth # NoAuth
    /\ May(ok) /\ Count(ok)
    /\ auth.terminal => ok
    /\ auth' = IF ok /\ ~ auth.terminal THEN auth ELSE NoAuth
    /\ Send(IF ok /\ ~ auth.terminal THEN Ask("AuthorizationRequest", auth.host, 0) ELSE {})
    /\ UNCHANGED <<deferred, launch, canceled, stream, cache, rxVars, pc, hand, target, toClient,
                   paired, serving, launches, pairings, outcomes, closed>>

\* ClientUpdateVisit, as far as it concerns streaming: StreamingAdvance.  `due': the wall clock
\* has reached nextSendWallSecond, which is zero before the first send.
Update(w, due, ok) ==
    /\ At(w, "update")
    /\ Goto(w, "idle")
    /\ due => Advances(FALSE)
    /\ IF due
       THEN SendCurrentRequest([stream EXCEPT !.fresh = FALSE], launch, ok, {})
       ELSE /\ ok /\ (stream.sent \/ ~ Advances(FALSE))
            /\ stream' = IF Advances(FALSE) THEN [stream EXCEPT !.fresh = FALSE] ELSE stream
            /\ UNCHANGED <<launch, toHost, failures>>
    /\ UNCHANGED <<deferred, canceled, auth, cache, rxVars, hand, target, toClient, paired,
                   serving, launches, pairings, outcomes, closed>>

-----------------------------------------------------------------------------
(* Receiving.  ClientReceiveCycle reads a batch; a message is dispatched   *)
(* by the RX worker, or queued for the pump.                               *)

BeginBatch ==
    /\ At("rx", "idle")
    /\ batch' = TRUE
    /\ Goto("rx", "batch")
    /\ UNCHANGED <<deferred, client, queue, hand, target, net, launches, pairings, failures,
                   outcomes, closed>>

\* A full queue drops the message.  This counts as a local failure: the application pumps
\* often enough for all but MaxFailures messages.
Receive(m) ==
    /\ At("rx", "batch") /\ m \in toClient
    /\ toClient' = toClient \ {m}
    /\ IF deferred
       THEN /\ \E ok \in {Len(queue) < QueueSize} :
                  /\ May(ok) /\ Count(ok)
                  /\ queue' = IF ok THEN Append(queue, m) ELSE queue
            /\ UNCHANGED <<pc, hand>>
       ELSE /\ hand' = [hand EXCEPT !["rx"] = m]
            /\ Goto("rx", "first")
            /\ UNCHANGED <<queue, failures>>
    /\ UNCHANGED <<deferred, client, batch, target, toHost, paired, serving, launches, pairings,
                   outcomes, closed>>

\* Mutant: the end of a batch is not published as a new generation.
EndBatchStale ==
    /\ At("rx", "batch")
    /\ batch' = FALSE
    /\ Goto("rx", IF deferred THEN "idle" ELSE "update")
    /\ UNCHANGED <<deferred, client, queue, hand, target, net, launches, pairings, failures,
                   outcomes, closed>>

\* The request in progress sees a receiveGeneration it has not used.
EndBatch ==
    /\ At("rx", "batch")
    /\ batch' = FALSE
    /\ stream' = IF stream.id = 0 THEN stream ELSE [stream EXCEPT !.fresh = TRUE]
    /\ Goto("rx", IF deferred THEN "idle" ELSE "update")
    /\ UNCHANGED <<deferred, launch, canceled, auth, cache, queue, hand, target, net, launches,
                   pairings, failures, outcomes, closed>>

\* IHS_ClientPumpAuthorization: one message, or the end of a pump that drained the queue.
PumpTake ==
    /\ deferred /\ At("pump", "idle") /\ queue # <<>>
    /\ hand' = [hand EXCEPT !["pump"] = Head(queue)]
    /\ queue' = Tail(queue)
    /\ Goto("pump", "first")
    /\ UNCHANGED <<deferred, client, batch, target, net, launches, pairings, failures, outcomes,
                   closed>>

PumpDrained ==
    /\ deferred /\ At("pump", "idle") /\ queue = <<>>
    /\ Goto("pump", "update")
    /\ UNCHANGED <<deferred, client, rxVars, hand, target, net, launches, pairings, failures,
                   outcomes, closed>>

\* The worker w is done with its message.
Finish(w) ==
    /\ hand' = [hand EXCEPT ![w] = NoMessage]
    /\ Goto(w, IF w = "rx" THEN "batch" ELSE "idle")

\* A host that was selected before.
Known(h) ==
    \/ launch.host = h
    \/ \E i \in 0 .. CanceledSize - 1 :
          canceled.slots[i].id # 0 /\ canceled.slots[i].host = h

\* Mutant: a late answer to an abandoned launch is only ignored.
StreamingCheckSilent(w) ==
    LET m == hand[w] IN
    /\ At(w, "first") /\ m.type = "StreamingResponse"
    /\ IF m.id # launch.id THEN Finish(w) ELSE Goto(w, "second") /\ UNCHANGED hand
    /\ UNCHANGED <<deferred, client, rxVars, target, net, launches, pairings, failures, outcomes,
                   closed>>

\* IHS_ClientStreamingCallback up to its visit.
StreamingCheck(w) ==
    LET m == hand[w] IN
    /\ At(w, "first") /\ m.type = "StreamingResponse"
    /\ IF m.id # launch.id
       THEN /\ Finish(w)
            /\ Send(IF Known(m.host) /\ m.result = "InProgress"
                    THEN Ask("StreamingCancel", m.host, m.id) ELSE {})
       ELSE /\ Goto(w, "second")
            /\ UNCHANGED <<hand, toHost>>
    /\ UNCHANGED <<deferred, client, rxVars, target, toClient, paired, serving,
                   launches, pairings, failures, outcomes, closed>>

\* Mutant: the visit trusts the check that was made before it.
AwaitedUnchecked(m) ==
    /\ stream.id # 0 /\ ~ stream.terminal /\ ~ stream.ticket
    /\ stream.host = m.host

\* The task still waits for this answer.
Awaited(m) ==
    /\ stream.id # 0 /\ ~ stream.terminal /\ ~ stream.ticket
    /\ stream.host = m.host /\ stream.id = m.id

\* StreamingResponseVisit, by result.
ResponseIgnored(w) ==
    LET m == hand[w] IN
    /\ At(w, "second") /\ m.type = "StreamingResponse"
    /\ ~ Awaited(m) \/ m.result = "InProgress"
    /\ Finish(w)
    /\ UNCHANGED <<deferred, client, rxVars, target, net, launches, pairings, failures, outcomes,
                   closed>>

Unauthorized(w, ok) ==
    LET m == hand[w] IN
    /\ At(w, "second") /\ Awaited(m) /\ m.result = "Unauthorized"
    /\ SendCurrentRequest([stream EXCEPT !.authorizing = TRUE],
                          [launch EXCEPT !.authorizing = TRUE], ok, {})
    /\ Finish(w)
    /\ UNCHANGED <<deferred, canceled, auth, cache, rxVars, target, toClient, paired, serving,
                   launches, pairings, outcomes, closed>>

Granted(w) ==
    LET m == hand[w] IN
    /\ At(w, "second") /\ m.type = "StreamingResponse" /\ Awaited(m) /\ m.result = "Success"
    /\ stream' = [stream EXCEPT !.authorizing = FALSE, !.ticket = TRUE]
    /\ launch' = [launch EXCEPT !.authorizing = FALSE, !.ticket = TRUE]
    /\ Notify(stream.id)
    /\ Finish(w)
    /\ UNCHANGED <<deferred, canceled, auth, cache, rxVars, target, net, launches, pairings,
                   failures, closed>>

\* A refusal, or a session key that does not decrypt.
Refused(w) ==
    LET m == hand[w] IN
    /\ At(w, "second") /\ Awaited(m) /\ m.result = "Failed"
    /\ stream' = [stream EXCEPT !.terminal = TRUE]
    /\ launch' = ClearLaunch(stream.id)
    /\ Notify(stream.id)
    /\ Send(IF stream.authorizing THEN {} ELSE Ask("StreamingCancel", stream.host, stream.id))
    /\ Finish(w)
    /\ UNCHANGED <<deferred, canceled, auth, cache, rxVars, target, toClient, paired, serving,
                   launches, pairings, failures, closed>>

-----------------------------------------------------------------------------
(* Pairing.                                                                *)

Keyed(m) == m.result = "Success" /\ m.key # NoKey

\* A key that is new to the client is tried, unless the attempts are used up.
Tries(attempts, m) == Keyed(m) /\ m.key # cache.key /\ attempts < AttemptLimit

\* IHS_ClientAuthorizationExchange; `calc' is "good" or "bad", or "oom".
Exchange(attempts, m, calc) ==
    IF m.key = cache.key THEN "Waiting"
    ELSE IF calc = "oom" THEN "ResourceFailure"
    ELSE IF attempts >= AttemptLimit THEN "Exhausted"
    ELSE IF calc = "good" THEN "Accepted" ELSE "Waiting"

CacheAfter(attempts, m, calc) ==
    IF m.key = cache.key \/ calc = "oom" THEN cache
    ELSE [key |-> m.key,
          result |-> IF Exchange(attempts, m, calc) = "Accepted" THEN "Success" ELSE "Denied"]

AttemptsAfter(attempts, m, calc) ==
    IF m.key = cache.key \/ calc = "oom" THEN attempts ELSE attempts + 1

\* The result confirmed to the host is the cached one.
Confirmation(attempts, m, calc) ==
    IF calc = "oom" /\ m.key # cache.key THEN {}
    ELSE Confirm(m.host, CacheAfter(attempts, m, calc).result)

\* The choices that make a difference.
Choice(relevant, attempts, m, calc) ==
    /\ calc = "bad" => relevant /\ Tries(attempts, m)
    /\ calc = "oom" => relevant /\ Keyed(m) /\ m.key # cache.key /\ May(FALSE)

\* IHS_ClientAuthorizationCallback: the pairing request is asked first.
NoAuthorization(w) ==
    /\ At(w, "first") /\ hand[w].type = "AuthorizationResponse"
    /\ auth = NoAuth
    /\ Goto(w, "second")
    /\ UNCHANGED <<deferred, client, rxVars, hand, target, net, launches, pairings, failures,
                   outcomes, closed>>

AuthorizationResponseVisit(w, calc) ==
    LET m == hand[w]
        relevant == auth.host = m.host /\ ~ auth.terminal
        ends == IF Keyed(m) THEN Exchange(auth.attempts, m, calc) # "Waiting"
                ELSE m.result # "InProgress" IN
    /\ At(w, "first") /\ m.type = "AuthorizationResponse"
    /\ auth # NoAuth
    /\ Choice(relevant, auth.attempts, m, calc)
    /\ IF ~ relevant THEN UNCHANGED <<auth, cache, toHost, failures>>
       ELSE /\ auth' = [auth EXCEPT !.terminal = ends,
                            !.attempts = IF Keyed(m) THEN AttemptsAfter(@, m, calc) ELSE @]
            /\ cache' = IF Keyed(m) THEN CacheAfter(auth.attempts, m, calc) ELSE cache
            /\ Send(IF Keyed(m) THEN Confirmation(auth.attempts, m, calc) ELSE {})
            /\ Count(calc # "oom")
    /\ Finish(w)
    /\ UNCHANGED <<deferred, launch, canceled, stream, rxVars, target, toClient, paired, serving,
                   launches, pairings, outcomes, closed>>

\* StreamingAuthorizationVisit, when the launch does not wait for this message or goes on
\* waiting.
Pairs(m) ==
    /\ stream.id # 0 /\ stream.host = m.host
    /\ ~ stream.terminal /\ ~ stream.ticket /\ stream.authorizing

PairingOutcome(m, calc) ==
    IF Keyed(m) THEN Exchange(stream.attempts, m, calc)
    ELSE IF m.result = "Success" THEN "Accepted"
    ELSE IF m.result = "InProgress" THEN "Waiting" ELSE "Refused"

Exchanged(m, calc) ==
    IF Keyed(m) THEN [stream EXCEPT !.attempts = AttemptsAfter(@, m, calc)] ELSE stream

PairingWaits(w, calc) ==
    LET m == hand[w] IN
    /\ At(w, "second") /\ m.type = "AuthorizationResponse"
    /\ Choice(Pairs(m), stream.attempts, m, calc)
    /\ ~ Pairs(m) \/ PairingOutcome(m, calc) = "Waiting"
    /\ IF ~ Pairs(m) \/ ~ Keyed(m) THEN UNCHANGED <<stream, cache, toHost>>
       ELSE /\ stream' = Exchanged(m, calc)
            /\ cache' = CacheAfter(stream.attempts, m, calc)
            /\ Send(Confirmation(stream.attempts, m, calc))
    /\ Finish(w)
    /\ UNCHANGED <<deferred, launch, canceled, auth, rxVars, target, toClient, paired, serving,
                   launches, pairings, failures, outcomes, closed>>

PairingFails(w, calc) ==
    LET m == hand[w] IN
    /\ At(w, "second") /\ m.type = "AuthorizationResponse" /\ Pairs(m)
    /\ Choice(TRUE, stream.attempts, m, calc)
    /\ PairingOutcome(m, calc) \in {"Refused", "Exhausted", "ResourceFailure"}
    /\ stream' = [Exchanged(m, calc) EXCEPT !.terminal = TRUE]
    /\ cache' = IF Keyed(m) THEN CacheAfter(stream.attempts, m, calc) ELSE cache
    /\ launch' = ClearLaunch(stream.id)
    /\ Notify(stream.id)
    /\ Count(calc # "oom")
    /\ Finish(w)
    /\ UNCHANGED <<deferred, canceled, auth, rxVars, target, net, launches, pairings, closed>>

PairingSucceeds(w, calc, ok) ==
    LET m == hand[w] IN
    /\ At(w, "second") /\ m.type = "AuthorizationResponse" /\ Pairs(m)
    /\ Choice(TRUE, stream.attempts, m, calc)
    /\ PairingOutcome(m, calc) = "Accepted"
    /\ cache' = IF Keyed(m) THEN CacheAfter(stream.attempts, m, calc) ELSE cache
    /\ SendCurrentRequest([Exchanged(m, calc) EXCEPT !.authorizing = FALSE],
                          [launch EXCEPT !.authorizing = FALSE], ok,
                          IF Keyed(m) THEN Confirmation(stream.attempts, m, calc) ELSE {})
    /\ Finish(w)
    /\ UNCHANGED <<deferred, canceled, auth, rxVars, target, toClient, paired, serving,
                   launches, pairings, outcomes, closed>>

-----------------------------------------------------------------------------
(* The host and the network.                                               *)

\* An answer that reaches the socket of the client.  That it is lost needs no step of its own:
\* for an answer to a request it is as if the request had been lost, and what a host reports of
\* its own accord it reports again.
Answer(m) ==
    /\ m \notin toClient /\ Cardinality(toClient) < MaxToClient
    /\ toClient' = toClient \cup {m}

HostUnchanged == UNCHANGED <<deferred, client, rxVars, pc, hand, target, launches,
                             pairings, failures, outcomes, closed>>

\* A host that is asked to stream starts to, or wants to be paired first.
HostStreams(m) ==
    /\ m \in toHost /\ m.type = "StreamingRequest"
    /\ toHost' = toHost \ {m}
    /\ IF m.host \in paired
       THEN serving' = serving \cup {<<m.host, m.id>>} /\ UNCHANGED toClient
       ELSE Answer(Response(m.host, m.id, "Unauthorized")) /\ UNCHANGED serving
    /\ UNCHANGED paired /\ HostUnchanged

\* What a host answers to a pairing request: that it is paired, that its user refuses or has not
\* decided, or a key.
PairingAnswers(h) ==
    IF h \in paired THEN {Authorization(h, "Success", NoKey)}
    ELSE {Authorization(h, r, NoKey) : r \in {"Denied", "InProgress"}}
         \cup {Authorization(h, "Success", k) : k \in Keys}

HostPairs(m, a) ==
    /\ m \in toHost /\ m.type = "AuthorizationRequest"
    /\ a \in PairingAnswers(m.host)
    /\ toHost' = toHost \ {m}
    /\ Answer(a)
    /\ UNCHANGED <<paired, serving>> /\ HostUnchanged

HostConfirmed(m) ==
    /\ m \in toHost /\ m.type = "Confirmed"
    /\ toHost' = toHost \ {m}
    /\ paired' = paired \cup {m.host}
    /\ UNCHANGED <<toClient, serving>> /\ HostUnchanged

HostCancels(m) ==
    /\ m \in toHost /\ m.type = "StreamingCancel"
    /\ toHost' = toHost \ {m}
    /\ serving' = serving \ {<<m.host, m.id>>}
    /\ UNCHANGED <<toClient, paired>> /\ HostUnchanged

HostProgress(h, id) ==
    /\ <<h, id>> \in serving
    /\ Answer(Response(h, id, "InProgress"))
    /\ UNCHANGED <<toHost, paired, serving>> /\ HostUnchanged

HostDecides(h, id, result) ==
    /\ <<h, id>> \in serving
    /\ serving' = serving \ {<<h, id>>}
    /\ Answer(Response(h, id, result))
    /\ UNCHANGED <<toHost, paired>> /\ HostUnchanged

Lose(m) ==
    /\ m \in toHost
    /\ toHost' = toHost \ {m}
    /\ UNCHANGED <<toClient, paired, serving>> /\ HostUnchanged

-----------------------------------------------------------------------------
Calls ==
    \/ \E h \in Hosts : StreamingRequest(h) \/ AuthorizationRequest(h)
    \/ StreamingCancel \/ AuthorizationCancel

\* The rest of a call.
CallGoesOn ==
    \/ RetireVisit \/ RetireRecord \/ Publish \/ CancelRecord
    \/ Start \/ StartFails \/ StartCancels

Dispatch(w) ==
    \/ StreamingCheck(w) \/ ResponseIgnored(w) \/ Granted(w) \/ Refused(w) \/ NoAuthorization(w)
    \/ \E ok \in BOOLEAN : Unauthorized(w, ok) \/ \E due \in BOOLEAN : Update(w, due, ok)
    \/ \E calc \in {"good", "bad", "oom"} :
          \/ AuthorizationResponseVisit(w, calc)
          \/ PairingWaits(w, calc) \/ PairingFails(w, calc)
          \/ \E ok \in BOOLEAN : PairingSucceeds(w, calc, ok)

Rx == BeginBatch \/ EndBatch \/ Dispatch("rx")
Pump == PumpTake \/ PumpDrained \/ Dispatch("pump")
TimerThread == StreamingEnd \/ \E ok \in BOOLEAN : StreamingTimer(ok) \/ AuthorizationTimer(ok)

Host ==
    \/ \E m \in toHost :
          \/ HostStreams(m) \/ HostConfirmed(m) \/ HostCancels(m)
          \/ \E a \in PairingAnswers(m.host) : HostPairs(m, a)
    \/ \E <<h, id>> \in serving :
          \/ HostProgress(h, id)
          \/ \E result \in {"Success", "Failed"} : HostDecides(h, id, result)

Next ==
    \/ Calls \/ CallGoesOn
    \/ Rx \/ Pump \/ TimerThread
    \/ \E m \in toClient : Receive(m)
    \/ Host
    \/ \E m \in toHost : Lose(m)

\* Threads inside the library, the clock and the application's pump go on.  The RX worker
\* rests 100 ms after a batch, so the pump is not always called within one.  A datagram that
\* is sent again and again arrives, and a batch reads what has arrived.  A host answers, ends
\* its PIN dialog, reports on the launches it works on and decides about the current one.
Fairness ==
    /\ WF_vars(CallGoesOn) /\ WF_vars(Rx) /\ WF_vars(Pump)
    /\ WF_vars(TimerThread)
    /\ SF_vars(~ batch /\ PumpDrained)
    /\ SF_vars(\E w \in Workers, ok \in BOOLEAN : Update(w, TRUE, ok))
    /\ SF_vars(\E m \in toClient : Receive(m))
    /\ SF_vars(\E m \in toHost : HostStreams(m))
    /\ SF_vars(\E m \in toHost, r \in {"Success", "Denied"} :
                    HostPairs(m, Authorization(m.host, r, NoKey)))
    /\ SF_vars(\E m \in toHost : HostConfirmed(m) \/ HostCancels(m))
    /\ SF_vars(\E h \in Hosts, id \in Ids : HostProgress(h, id))
    /\ SF_vars(\E h \in Hosts, id \in Ids, result \in {"Success", "Failed"} :
                    launch.id = id /\ HostDecides(h, id, result))

Spec == Init /\ [][Next]_vars
FairSpec == Spec /\ Fairness

-----------------------------------------------------------------------------
\* Between two calls of the application the launch record and the owned task are the same
\* request: there is a launch if and only if there is a task that is not over, and they agree
\* about host, phase and ticket.  A record without a task would make every later request for
\* that host a repeated one, which is ignored; a task without a record would retry for ever
\* with all its answers taken for stale.
LaunchIsTask ==
    At("app", "idle") =>
        IF stream.id = 0 \/ stream.terminal THEN launch.id = 0
        ELSE launch = [id |-> stream.id, host |-> stream.host,
                       authorizing |-> stream.authorizing, ticket |-> stream.ticket]

\* A launch has at most one final callback, and none after the application has cancelled or
\* replaced it, whatever answer is on its way, queued or already checked at that moment; and
\* it gets its ticket from an answer to itself, not from a late one to its predecessor.
OneOutcome ==
    [][/\ \A id \in Ids : outcomes'[id] <= IF id \in closed THEN outcomes[id] ELSE 1
       /\ stream'.ticket /\ ~ stream.ticket
          => \E w \in Workers : hand[w].id = stream'.id /\ hand[w].result = "Success"]_vars

\* A due retry is never sent over an answer that has been received and not yet handled ("A
\* bounded pump which leaves queued work must not retry an already-obsolete phase").
NoObsoleteRetry ==
    [][stream.id = stream'.id /\ stream.sent /\ stream.fresh /\ ~ stream'.fresh
       => queue = <<>> /\ \A w \in Workers : hand[w] = NoMessage]_vars

\* With a host that answers, every launch gets its ticket or ends, through loss, repetition,
\* pairing, and drops by a full queue.
LaunchEnds ==
    \A id \in Ids : (launch.id = id) ~> (launch.id # id \/ launch.ticket)

\* A host does not go on working on a launch the client has abandoned: its progress reports
\* are answered with a cancellation, also when the first one was lost or never sent.
AbandonedIsReleased ==
    \A h \in Hosts, id \in Ids :
        (<<h, id>> \in serving /\ launch.id # id) ~> (<<h, id>> \notin serving)
=============================================================================
