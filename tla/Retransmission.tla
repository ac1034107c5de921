---------------------------- MODULE Retransmission ----------------------------
(***************************************************************************)
(* The send half of one reliable channel: frames are admitted into the     *)
(* session's send queue (channel.c, session.c), their packets are retained *)
(* (retransmission.c) and the retained packets are sent and resent until   *)
(* the peer confirms them.                                                 *)
(*                                                                         *)
(* Three kinds of thread meet here.  Producers admit frames under          *)
(* sendQueueMutex.  The send worker takes a frame from the queue, makes    *)
(* its packets ready and runs a sending pass.  The RX worker applies the   *)
(* peer's ACKs and NACKs and, on its network cycle, runs passes of its     *)
(* own.  Passes exclude each other by the session's Base lock; feedback    *)
(* only takes the short `lock' of the retained list, so it interleaves     *)
(* with every step of a pass of the send worker, its socket I/O included.  *)
(*                                                                         *)
(* A packet is named by its absolute position in the stream; its id on the *)
(* wire is position % IdModulus.  The retained list is newest-first, and   *)
(* since ids are allocated and packets retained in one critical section,   *)
(* list order is the order of positions: the list is kept as a set.        *)
(***************************************************************************)
EXTENDS Integers, Sequences, FiniteSets, FiniteSetsExt

CONSTANTS
    IdModulus,     \* number of packet ids: 65536 in the code
    FrameSizes,    \* packets of a frame
    MaxPackets,    \* length of the stream explored
    Outstanding,   \* positions between the oldest id in use and the newest
    Stale,         \* how far a delayed ACK may lag behind the peer's prefix
    MaxFaults,     \* allocation failures explored
    MaxRejects,    \* sends refused by the socket or by the rate gate
    MaxNacks       \* NACK packets explored

ASSUME SenderAssumption ==
    /\ IdModulus \in Nat \ {0}
    /\ FrameSizes \subseteq Nat \ {0}
    /\ {MaxPackets, Outstanding, Stale, MaxFaults, MaxRejects, MaxNacks} \subseteq Nat
    /\ 2 * Outstanding < IdModulus

Positions == 0 .. MaxPackets - 1
Id(n) == n % IdModulus
Nobody == "nobody"
NoFrame == [first |-> 0, count |-> 0]
NoPass == [due |-> {}, gen |-> << >>, failed |-> FALSE, at |-> -1, io |-> "none"]

VARIABLES
    connected,    \* transport state is Connected and the session not interrupted
    nextId,       \* next reliable position of the channel
    admitting,    \* frame being admitted under sendQueueMutex
    failing,      \* an admission failed locally; its caller will disconnect
    queue,        \* sendQueue: the committed frames
    taken,        \* the frame the send worker has dequeued
    base,         \* holder of the Base lock
    pass,         \* the sending pass of the holder of Base
    todo,         \* list operations left of the feedback packet RX is handling
    tracked,      \* the retained list
    live, refs,   \* allocated entries and their reference counts
    flag,         \* entries by field: ready, sent, nack, wired, late
    gen,          \* feedbackGeneration of an entry
    flight, got,  \* the network, and what the peer has received
    accepted, cancelled, everSent, asked,   \* history
    faults, rejects, nacks                  \* budgets used

admission == << nextId, admitting, failing, queue >>
entries == << live, refs, flag, gen >>
network == << flight, got >>
history == << accepted, cancelled, everSent, asked >>
budgets == << faults, rejects, nacks >>
vars == << connected, admission, taken, base, pass, todo, tracked, entries, network,
           history, budgets >>

\* ready: initialSent: nackPending: nextWireCount > 0: the retry delay elapsed.
Fields == {"ready", "sent", "nack", "wired", "late"}

Init ==
    /\ connected = TRUE
    /\ nextId = 0 /\ admitting = NoFrame /\ failing = FALSE
    /\ queue = << >> /\ taken = NoFrame
    /\ base = Nobody /\ pass = NoPass /\ todo = << >>
    /\ tracked = {} /\ live = {} /\ refs = [n \in Positions |-> 0]
    /\ flag = [f \in Fields |-> {}]
    /\ gen = [n \in Positions |-> 0]
    /\ flight = {} /\ got = {}
    /\ accepted = {} /\ cancelled = {} /\ everSent = {} /\ asked = {}
    /\ faults = 0 /\ rejects = 0 /\ nacks = 0

Run(f) == f.first .. f.first + f.count - 1

\* The peer has everything below this position.
Prefix == Min({n \in 0 .. MaxPackets : n \notin got})

\* The fields with `name' set for the entries of S, or cleared.
Set(fields, name, S) == [fields EXCEPT ![name] = @ \cup S]
Clear(fields, name, S) == [fields EXCEPT ![name] = @ \ S]

\* PendingDestroy of one reference to each entry of S, whose other fields become
\* `fields': the last reference frees the entry, and its fields are gone with it.
Unref(S, fields) ==
    LET freed == {n \in S : refs[n] = 1} IN
    /\ refs' = [n \in Positions |-> IF n \in S THEN refs[n] - 1 ELSE refs[n]]
    /\ live' = live \ freed
    /\ flag' = [f \in Fields |-> fields[f] \ freed]
    /\ gen' = [n \in Positions |-> IF n \in freed THEN 0 ELSE gen[n]]

\* Unlink the entries of S from the retained list and drop the list's reference.
Release(S) ==
    /\ tracked' = tracked \ S
    /\ Unref(S, flag)

-----------------------------------------------------------------------------
(* Producers: IHS_SessionChannelQueueFrameResult, under sendQueueMutex. *)

\* The oldest position an entry or a delayed feedback packet can still name.
Oldest == Min(tracked \cup {Prefix - Stale} \cup {todo[i].at : i \in DOMAIN todo})

\* The first of n ids is reserved for a new frame.  The code has no send window:
\* the bound on the ids in use is this model's.
BeginFrame(n) ==
    /\ connected /\ admitting = NoFrame
    /\ nextId + n <= MaxPackets
    /\ nextId + n - Oldest <= Outstanding
    /\ admitting' = [first |-> nextId, count |-> n]
    /\ UNCHANGED << connected, nextId, failing, queue, taken, base, pass, todo, tracked,
                    entries, network, history, budgets >>

\* IHS_SessionSendBatchBegin finds no memory; no id was reserved.
BatchFails ==
    /\ connected /\ admitting = NoFrame /\ faults < MaxFaults
    /\ faults' = faults + 1
    /\ failing' = TRUE
    /\ UNCHANGED << connected, nextId, admitting, queue, taken, base, pass, todo, tracked,
                    entries, network, history, rejects, nacks >>

\* Mutant: a packet may be sent as soon as it is retained.
TrackReady ==
    /\ connected /\ admitting # NoFrame
    /\ nextId \in Run(admitting)
    /\ nextId' = nextId + 1
    /\ tracked' = tracked \cup {nextId}
    /\ live' = live \cup {nextId}
    /\ refs' = [refs EXCEPT ![nextId] = 1]
    /\ flag' = Set(flag, "ready", {nextId})
    /\ UNCHANGED << connected, admitting, failing, queue, taken, base, pass, todo, gen,
                    network, history, budgets >>

\* One packet is retained, not yet ready, and joins the batch.
Track ==
    /\ connected /\ admitting # NoFrame
    /\ nextId \in Run(admitting)
    /\ nextId' = nextId + 1
    /\ tracked' = tracked \cup {nextId}
    /\ live' = live \cup {nextId}
    /\ refs' = [refs EXCEPT ![nextId] = 1]
    /\ UNCHANGED << connected, admitting, failing, queue, taken, base, pass, todo, flag, gen,
                    network, history, budgets >>

\* Mutant: a failed admission leaves its earlier fragments retained.
RollBackForgets ==
    /\ admitting # NoFrame /\ nextId \in Run(admitting)
    /\ IF connected THEN faults < MaxFaults /\ faults' = faults + 1 /\ failing' = TRUE
       ELSE UNCHANGED << faults, failing >>
    /\ nextId' = nextId + 1
    /\ cancelled' = cancelled \cup (admitting.first .. nextId)
    /\ admitting' = NoFrame
    /\ UNCHANGED << connected, queue, taken, base, pass, todo, tracked, entries, network,
                    accepted, everSent, asked, rejects, nacks >>

\* The next packet finds no memory or the transport closed: every packet of the
\* batch that is neither ready nor sent is cancelled.  Its ids stay consumed.
RollBack ==
    /\ admitting # NoFrame /\ nextId \in Run(admitting)
    /\ IF connected THEN faults < MaxFaults /\ faults' = faults + 1 /\ failing' = TRUE
       ELSE UNCHANGED << faults, failing >>
    /\ nextId' = nextId + 1
    /\ cancelled' = cancelled \cup (admitting.first .. nextId)
    /\ Release((Run(admitting) \cap tracked) \ (flag["ready"] \cup flag["sent"]))
    /\ admitting' = NoFrame
    /\ UNCHANGED << connected, queue, taken, base, pass, todo, network,
                    accepted, everSent, asked, rejects, nacks >>

\* IHS_SessionSendBatchEnd publishes the complete frame.
Commit ==
    /\ admitting # NoFrame /\ nextId \notin Run(admitting)
    /\ queue' = Append(queue, admitting)
    /\ accepted' = accepted \cup Run(admitting)
    /\ admitting' = NoFrame
    /\ UNCHANGED << connected, nextId, failing, taken, base, pass, todo, tracked, entries,
                    network, cancelled, everSent, asked, budgets >>

\* A local failure may have left a hole in the ids: its caller disconnects.
\* Anyone else may end the session at any time.
Close ==
    /\ connected
    /\ connected' = FALSE
    /\ failing' = FALSE
    /\ UNCHANGED << nextId, admitting, queue, taken, base, pass, todo, tracked, entries,
                    network, history, budgets >>

-----------------------------------------------------------------------------
(* The send worker: IHS_SessionDispatchQueued. *)

TakeFrame ==
    /\ taken = NoFrame /\ admitting = NoFrame /\ base # "send"
    /\ queue # << >>
    /\ taken' = Head(queue)
    /\ queue' = Tail(queue)
    /\ UNCHANGED << connected, nextId, admitting, failing, base, pass, todo, tracked, entries,
                    network, history, budgets >>

\* The transport closed meanwhile: the frame is destroyed unsent.
DropFrame ==
    /\ taken # NoFrame /\ base = Nobody
    /\ ~ connected
    /\ taken' = NoFrame
    /\ UNCHANGED << connected, admission, base, pass, todo, tracked, entries, network,
                    history, budgets >>

\* IHS_RetransmissionActivate, under Base: the whole frame becomes ready.
Activate ==
    /\ taken # NoFrame /\ base = Nobody
    /\ connected
    /\ base' = "send"
    /\ flag' = Set(flag, "ready",
                   {n \in tracked : (Id(n) - Id(taken.first)) % IdModulus < taken.count})
    /\ UNCHANGED << connected, admission, taken, pass, todo, tracked, live, refs, gen,
                    network, history, budgets >>

-----------------------------------------------------------------------------
(* A sending pass: Process, with Base held. *)

\* Mutant: a packet that left the socket is not resent without a request.
DueOnce == {n \in tracked \cap flag["ready"] :
               n \notin flag["sent"] \/ n \in flag["nack"] \/ n \notin flag["wired"]}

\* What a pass sends: a first transmission, a packet the peer asked for, one the
\* socket refused, one whose retry delay has elapsed.
Due ==
    {n \in tracked \cap flag["ready"] :
        \/ n \notin flag["sent"]
        \/ n \in flag["nack"]
        \/ n \notin flag["wired"]
        \/ n \in flag["late"]}

\* Who may start one: the send worker after Activate, RX on its network cycle
\* when it is not handling feedback.
MayStart(who) ==
    \/ who = "send" /\ base = "send" /\ pass = NoPass
    \/ who = "rx" /\ base = Nobody /\ connected /\ todo = << >>

\* The due packets are copied, and referenced for the duration of the pass.
Snapshot(who) ==
    /\ MayStart(who) /\ Due # {}
    /\ base' = who
    /\ taken' = IF who = "send" THEN NoFrame ELSE taken
    /\ pass' = [NoPass EXCEPT !.due = Due, !.gen = [n \in Due |-> gen[n]]]
    /\ refs' = [n \in Positions |-> IF n \in Due THEN refs[n] + 1 ELSE refs[n]]
    /\ asked' = asked \ Due
    /\ UNCHANGED << connected, admission, todo, tracked, live, flag, gen, network,
                    accepted, cancelled, everSent, budgets >>

\* Nothing is due, or there is no memory for the copies: the pass is over.  (A
\* pass of RX then changes nothing at all.)
SkipPass ==
    /\ MayStart("send")
    /\ Due # {} => faults < MaxFaults
    /\ faults' = IF Due # {} THEN faults + 1 ELSE faults
    /\ base' = Nobody
    /\ taken' = NoFrame
    /\ UNCHANGED << connected, admission, pass, todo, tracked, entries, network, history,
                    rejects, nacks >>

\* The oldest packet of the pass is attempted if it is still retained and no
\* earlier attempt of the pass failed; otherwise its reference is dropped.
Attempt ==
    /\ pass.due # {} /\ pass.at = -1
    /\ Min(pass.due) \in tracked /\ ~ pass.failed
    /\ pass' = [pass EXCEPT !.at = Min(pass.due), !.io = "check"]
    /\ UNCHANGED << connected, admission, taken, base, todo, tracked, entries, network,
                    history, budgets >>

\* Mutant: a skipped attempt keeps its reference.
SkipAttemptLeaks ==
    /\ pass.due # {} /\ pass.at = -1
    /\ Min(pass.due) \notin tracked \/ pass.failed
    /\ pass' = [pass EXCEPT !.due = @ \ {Min(pass.due)}]
    /\ UNCHANGED << connected, admission, taken, base, todo, tracked, entries, network,
                    history, budgets >>

SkipAttempt ==
    /\ pass.due # {} /\ pass.at = -1
    /\ Min(pass.due) \notin tracked \/ pass.failed
    /\ pass' = [pass EXCEPT !.due = @ \ {Min(pass.due)}]
    /\ Unref({Min(pass.due)}, flag)
    /\ UNCHANGED << connected, admission, taken, base, todo, tracked, network, history, budgets >>

\* The socket accepts the packet, or refuses it; neither lock is held.
SendPacket(ok) ==
    /\ pass.io = "check"
    /\ ok \/ ~ connected \/ rejects < MaxRejects
    /\ rejects' = IF ok \/ ~ connected THEN rejects ELSE rejects + 1
    /\ pass' = [pass EXCEPT !.io = IF ok THEN "sent" ELSE "rejected"]
    /\ flight' = IF ok THEN (flight \cup {pass.at}) \ got ELSE flight
    /\ everSent' = IF ok THEN everSent \cup {pass.at} ELSE everSent
    /\ UNCHANGED << connected, admission, taken, base, todo, tracked, entries, got,
                    accepted, cancelled, asked, faults, nacks >>

\* The fields of entry n after an attempt.
Booked(n) ==
    LET stamped == Clear(Set(flag, "sent", {n}), "late", {n})
        counted == IF pass.io = "sent" THEN Set(stamped, "wired", {n}) ELSE stamped
    IN  IF gen[n] = pass.gen[n] THEN Clear(counted, "nack", {n}) ELSE counted

\* Mutant: the pass does not forget the packet it has booked.
BookBusy ==
    /\ pass.io \in {"sent", "rejected"}
    /\ Unref({pass.at}, IF pass.at \in tracked THEN Booked(pass.at) ELSE flag)
    /\ pass' = [pass EXCEPT !.due = @ \ {pass.at}, !.failed = (pass.io = "rejected"),
                            !.io = "none"]
    /\ UNCHANGED << connected, admission, taken, base, todo, tracked, network, history, budgets >>

\* Mutant: feedback that arrived during the I/O is cleared with the rest.
BookBlind ==
    /\ pass.io \in {"sent", "rejected"}
    /\ Unref({pass.at}, IF pass.at \in tracked
                        THEN Clear(Booked(pass.at), "nack", {pass.at}) ELSE flag)
    /\ pass' = [pass EXCEPT !.due = @ \ {pass.at}, !.failed = (pass.io = "rejected"),
                            !.at = -1, !.io = "none"]
    /\ UNCHANGED << connected, admission, taken, base, todo, tracked, network, history, budgets >>

\* Mutant: one refused packet does not stop the pass.
BookOnward ==
    /\ pass.io \in {"sent", "rejected"}
    /\ Unref({pass.at}, IF pass.at \in tracked THEN Booked(pass.at) ELSE flag)
    /\ pass' = [pass EXCEPT !.due = @ \ {pass.at}, !.at = -1, !.io = "none"]
    /\ UNCHANGED << connected, admission, taken, base, todo, tracked, network, history, budgets >>

\* The attempt is booked on an entry that is still retained; a NACK since the
\* snapshot keeps its request.  The reference of the pass is dropped.
Book ==
    /\ pass.io \in {"sent", "rejected"}
    /\ Unref({pass.at}, IF pass.at \in tracked THEN Booked(pass.at) ELSE flag)
    /\ pass' = [pass EXCEPT !.due = @ \ {pass.at}, !.failed = (pass.io = "rejected"),
                            !.at = -1, !.io = "none"]
    /\ UNCHANGED << connected, admission, taken, base, todo, tracked, network, history, budgets >>

EndPass ==
    /\ pass # NoPass /\ pass.due = {}
    /\ pass' = NoPass
    /\ base' = Nobody
    /\ UNCHANGED << connected, admission, taken, todo, tracked, entries, network, history, budgets >>

-----------------------------------------------------------------------------
(* The RX worker applies feedback.  Every list operation takes `lock' anew. *)

Op(name, n) == [op |-> name, id |-> Id(n), at |-> n]

\* Mutant: ids are compared as plain numbers.
BelowPlain(boundary, n) == Id(n) < boundary

\* Strictly below the boundary, by at most half of the id space.
Below(boundary, n) ==
    LET d == (boundary - Id(n)) % IdModulus IN d # 0 /\ 2 * d < IdModulus

\* An ACK confirms everything below position c: the peer's prefix, or an
\* earlier one if the packet was delayed.
AckArrives(c) ==
    /\ todo = << >> /\ base # "rx"
    /\ c > 0
    /\ todo' = << Op("through", c) >>
    /\ UNCHANGED << connected, admission, taken, base, pass, tracked, entries, network,
                    history, budgets >>

\* An extended NACK: its prefix, then one operation per id of the bitmap from
\* its base up to the last id held, then the ids below the base.
NackArrives(c, held) ==
    /\ todo = << >> /\ base # "rx" /\ nacks < MaxNacks
    /\ c >= 0 /\ held # {}
    /\ todo' = << Op("through", c) >>
                 \o [i \in 1 .. Max(held) - Min(held) + 1 |->
                        LET n == Min(held) + i - 1
                        IN  Op(IF n \in held THEN "ack" ELSE "nack", n)]
                 \o << Op("below", Min(held)) >>
    /\ nacks' = nacks + 1
    /\ UNCHANGED << connected, admission, taken, base, pass, tracked, entries, network,
                    history, faults, rejects >>

\* A header-only NACK: everything below its id is missing.
SimpleNackArrives(n) ==
    /\ todo = << >> /\ base # "rx" /\ nacks < MaxNacks
    /\ n > 0
    /\ todo' = << Op("below", n) >>
    /\ nacks' = nacks + 1
    /\ UNCHANGED << connected, admission, taken, base, pass, tracked, entries, network,
                    history, faults, rejects >>

\* Mutant: an ACK releases the one packet it names.
ThroughExact ==
    /\ todo # << >> /\ Head(todo).op = "through"
    /\ Release({n \in tracked \cap flag["ready"] : Id(n + 1) = Head(todo).id})
    /\ todo' = Tail(todo)
    /\ UNCHANGED << connected, admission, taken, base, pass, network, history, budgets >>

\* IHS_RetransmissionAcknowledgeThrough.
Through ==
    /\ todo # << >> /\ Head(todo).op = "through"
    /\ Release({n \in tracked \cap flag["ready"] : Below(Head(todo).id, n)})
    /\ todo' = Tail(todo)
    /\ UNCHANGED << connected, admission, taken, base, pass, network, history, budgets >>

\* IHS_RetransmissionAcknowledge: the newest entry with this id, if it is ready.
Acknowledge ==
    /\ todo # << >> /\ Head(todo).op = "ack"
    /\ LET same == {n \in tracked : Id(n) = Head(todo).id}
       IN  Release({n \in same \cap flag["ready"] : \A k \in same : k <= n})
    /\ todo' = Tail(todo)
    /\ UNCHANGED << connected, admission, taken, base, pass, network, history, budgets >>

\* IHS_RetransmissionNackBefore: the packets named that were sent, and `young'
\* of them too recently for the cutoff.
NackBefore(young) ==
    /\ todo # << >> /\ Head(todo).op \in {"nack", "below"}
    /\ LET named == {n \in tracked \cap flag["sent"] :
                        IF Head(todo).op = "nack" THEN Id(n) = Head(todo).id
                        ELSE Below(Head(todo).id, n)}
           hit == named \ young
       IN  /\ young \subseteq named
           /\ flag' = Set(flag, "nack", hit)
           /\ gen' = [n \in Positions |-> IF n \in hit THEN gen[n] + 1 ELSE gen[n]]
           /\ asked' = asked \cup hit
    /\ todo' = Tail(todo)
    /\ UNCHANGED << connected, admission, taken, base, pass, tracked, live, refs, network,
                    accepted, cancelled, everSent, budgets >>

-----------------------------------------------------------------------------
(* Time and the network. *)

\* The retry delay of a packet elapses.
Elapse(n) ==
    /\ n \in tracked \cap flag["sent"] /\ n \notin flag["late"]
    /\ flag' = Set(flag, "late", {n})
    /\ UNCHANGED << connected, admission, taken, base, pass, todo, tracked, live, refs, gen,
                    network, history, budgets >>

Arrive(n) ==
    /\ n \in flight
    /\ flight' = flight \ {n}
    /\ got' = got \cup {n}
    /\ UNCHANGED << connected, admission, taken, base, pass, todo, tracked, entries,
                    history, budgets >>

Lose(n) ==
    /\ n \in flight
    /\ flight' = flight \ {n}
    /\ UNCHANGED << connected, admission, taken, base, pass, todo, tracked, entries, got,
                    history, budgets >>

-----------------------------------------------------------------------------
Producer == (\E n \in FrameSizes : BeginFrame(n)) \/ BatchFails \/ Track \/ RollBack \/ Commit

PassStep == Attempt \/ SkipAttempt \/ (\E ok \in BOOLEAN : SendPacket(ok)) \/ Book \/ EndPass

SendWorker == TakeFrame \/ DropFrame \/ Activate \/ Snapshot("send") \/ SkipPass

Apply == Through \/ Acknowledge \/ (\E young \in SUBSET tracked : NackBefore(young))

Feedback ==
    \/ \E c \in (Prefix - Stale) .. Prefix :
          \/ AckArrives(c)
          \/ \E held \in SUBSET {n \in got : n > c} : NackArrives(c, held)
    \/ \E n \in (Prefix - Stale) .. nextId : SimpleNackArrives(n)

Next ==
    \/ Producer \/ Close
    \/ SendWorker \/ Snapshot("rx") \/ PassStep
    \/ Feedback \/ Apply
    \/ \E n \in Positions : Elapse(n) \/ Arrive(n) \/ Lose(n)

\* Admission, the two workers and time do not stop; a packet sent again and again
\* and an ACK sent again and again get through.
Fairness ==
    /\ WF_vars(Track \/ RollBack \/ Commit)
    /\ WF_vars(SendWorker) /\ SF_vars(Snapshot("rx"))
    /\ WF_vars(PassStep) /\ WF_vars(Apply)
    /\ \A n \in Positions : WF_vars(Elapse(n)) /\ SF_vars(Arrive(n))
    /\ SF_vars(AckArrives(Prefix))

Spec == Init /\ [][Next]_vars
FairSpec == Spec /\ Fairness

-----------------------------------------------------------------------------
Frames == [first : 0 .. MaxPackets, count : 0 .. MaxPackets]

\* Every variable keeps its type; the attempt in progress is one of the pass's, and
\* nothing the peer already has is in flight.
TypeOK ==
    /\ {connected, failing, pass.failed} \subseteq BOOLEAN
    /\ nextId \in 0 .. MaxPackets
    /\ {admitting, taken} \subseteq Frames
    /\ base \in {Nobody, "send", "rx"}
    /\ tracked \subseteq Positions /\ live \subseteq Positions /\ got \subseteq Positions
    /\ refs \in [Positions -> Nat] /\ gen \in [Positions -> Nat]
    /\ flag \in [Fields -> SUBSET Positions]
    /\ pass.due \subseteq Positions /\ pass.at \in pass.due \cup {-1}
    /\ flight \subseteq Positions \ got
    /\ accepted \subseteq Positions /\ everSent \subseteq Positions
    /\ cancelled \subseteq 0 .. MaxPackets

\* Memory: an entry is allocated exactly as long as the list or the running pass
\* refers to it, and its count is the number of those references
\* (retransmission.c:61).  ACKs that unlink entries during the pass's I/O neither
\* free them under it nor leak them.
References ==
    /\ live = tracked \cup pass.due
    /\ \A n \in Positions :
          refs[n] = (IF n \in tracked THEN 1 ELSE 0) + (IF n \in pass.due THEN 1 ELSE 0)

\* No accepted packet is lost by the sender: it is retained until the peer has
\* it, whatever ACKs and NACKs are delayed and whatever ids have wrapped.
NothingLost == accepted \subseteq tracked \cup got

\* Packets enter the network in stream order: a packet is sent for the first time
\* only after every earlier one that was not cancelled (retransmission.c:352), so
\* two workers and refused sends never let a frame overtake another.
FirstSendsInOrder ==
    \A n \in everSent : 0 .. n - 1 \subseteq everSent \cup cancelled

\* A frame whose admission failed half-way leaves nothing behind: none of its
\* packets is retained or was sent (session.c:388-396).
CancelledLeavesNothing == cancelled \cap (tracked \cup everSent) = {}

\* A resend request is not lost to a race: a NACK applied after a pass took its
\* copy is still pending when that pass has booked its attempt
\* (retransmission.c:382).
RequestsAreKept == asked \cap tracked \subseteq flag["nack"]

\* A frame is exposed to the passes as a whole and by the send worker only: no
\* packet of a frame that is being admitted, waits in the queue or was just
\* dequeued is ready or was sent, although it is on the retained list that the
\* passes of RX scan (retransmission.c:125).
UnpublishedIsHidden ==
    \A f \in {queue[i] : i \in DOMAIN queue} \cup {admitting}
             \cup {g \in {taken} : base # "send"} :
        Run(f) \cap (flag["ready"] \cup everSent) = {}

\* Every accepted packet reaches the peer, if the session stays connected, however
\* often the network loses it and the socket refuses it.
AcceptedArrives ==
    \A n \in Positions : (n \in accepted) ~> (n \in got \/ ~ connected)

\* And it is released: the retained list does not fill up.
AcceptedReleased ==
    \A n \in Positions : (n \in accepted) ~> (n \notin tracked \/ ~ connected)

=============================================================================
