--------------------------- MODULE ReliableReceiver ---------------------------
(***************************************************************************)
(* The receive half of one reliable channel (src/session/reliable.c) on    *)
(* top of the window of PacketsWindow.  The RX worker stores packets as    *)
(* they arrive, in any order and any number of times, and its Update       *)
(* drains complete frames and emits one coalesced ACK or NACK.             *)
(*                                                                         *)
(* The peer's stream is the sequence of packets 0, 1, 2, ... cut into      *)
(* frames; `layout' describes the ones that can still arrive.              *)
(***************************************************************************)
EXTENDS PacketsWindow

CONSTANTS
    FrameSizes,   \* packets a frame of the peer may have
    MaxPackets,   \* length of the stream explored
    Ahead,        \* packets the peer sends beyond the last one delivered
    Behind        \* how late a duplicate of a delivered packet can arrive

ASSUME ReceiverAssumption ==
    /\ FrameSizes \subseteq Nat \ {0}
    /\ MaxPackets \in Nat /\ Ahead \in Nat /\ Behind \in Nat
    /\ 2 * (Ahead + Behind) < IdModulus

NoWindow == [capacity |-> 0]

VARIABLES
    window,       \* framePacketWindow, NoWindow before the first packet
    dirty,        \* feedbackDirty
    ackPending, watermark,   \* ackPending, ackWatermark
    quiet,        \* the feedback deadline has not passed yet
    draining,     \* Update is between its two halves
    closing,      \* IHS_SessionDisconnect was called for this channel
    wire,         \* the feedback packets of this Update, kept until the next
    layout,       \* the peer: absolute position -> packet
    sent,         \* the peer: length of the stream so far
    delivered,    \* packets handed to the frame dispatcher, in stream order
    arrived       \* positions >= delivered received and not refused

vars == << window, dirty, ackPending, watermark, quiet, draining, closing, wire,
           layout, sent, delivered, arrived >>

peer == << layout, sent >>

Packet(s, n, i) ==
    [seq |-> s, kind |-> IF i = 0 THEN "head" ELSE "frag",
     frag |-> IF i = 0 THEN n - 1 ELSE i - 1, stamp |-> 0]

Init ==
    /\ window = NoWindow /\ dirty = FALSE /\ ackPending = FALSE
    /\ watermark = 0 /\ quiet = FALSE /\ draining = FALSE /\ closing = FALSE
    /\ wire = {}
    /\ layout = << >> /\ sent = 0 /\ delivered = 0 /\ arrived = {}

\* The peer cuts the next frame of its stream into n packets.
PeerSends(n) ==
    /\ sent + n <= MaxPackets
    /\ sent + n - delivered <= Ahead
    /\ layout' = [s \in DOMAIN layout \cup (sent .. sent + n - 1) |->
                     IF s < sent THEN layout[s] ELSE Packet(s, n, s - sent)]
    /\ sent' = sent + n
    /\ UNCHANGED << window, dirty, ackPending, watermark, quiet, draining, closing,
                    wire, delivered, arrived >>

-----------------------------------------------------------------------------
(* IHS_SessionReliableReceived. *)

\* The window a packet meets: the first packet of the channel creates it.
Opened == IF window = NoWindow THEN CreateReliable(InitialCapacity, 0) ELSE window

\* The packet is stored or ignored.  A packet below the head was confirmed
\* before; the peer evidently missed that, so the ACK is owed again.
Receive(s) ==
    /\ ~ closing /\ ~ draining
    /\ s \in DOMAIN layout
    /\ LET p == layout[s]
           add == AddEx(Opened, p, TRUE)
       IN  /\ add.ok
           /\ window' = add.w
           /\ dirty' = TRUE
           /\ ackPending' = (ackPending \/
                             IdDistance(NextNeeded(Opened), s % IdModulus) > 0)
           /\ arrived' = IF add.inserted THEN arrived \cup {s} ELSE arrived
    /\ UNCHANGED << watermark, quiet, draining, closing, wire, peer, delivered >>

\* No memory for the window or for its growth: the session disconnects.
ReceiveFails(s) ==
    /\ ~ closing /\ ~ draining
    /\ s \in DOMAIN layout
    /\ window # NoWindow => NeedsGrowth(window, layout[s])
    /\ dirty' = (window # NoWindow)
    /\ closing' = TRUE
    /\ ackPending' = \/ ackPending
                     \/ window # NoWindow /\ IdDistance(NextNeeded(window), s % IdModulus) > 0
    /\ UNCHANGED << window, watermark, quiet, draining, wire, peer, delivered, arrived >>

-----------------------------------------------------------------------------
(* IHS_SessionReliableUpdateChannelAt, by the same worker. *)

BeginUpdate ==
    /\ ~ closing /\ ~ draining /\ dirty
    /\ dirty' = FALSE
    /\ draining' = TRUE
    /\ wire' = {}
    /\ UNCHANGED << window, ackPending, watermark, quiet, closing, peer, delivered, arrived >>

\* Positions that can still arrive once n packets were delivered.
StillArriving(n) == {s \in DOMAIN layout : s >= n - Behind}

\* One round of ReliableDrainFrames hands the frame at the head to its consumer.
DrainFrame ==
    /\ draining
    /\ LET poll == Poll(window) IN
           /\ poll.ready
           /\ window' = poll.w
           /\ delivered' = delivered + Len(poll.frame)
           /\ arrived' = arrived \ {poll.frame[k] : k \in DOMAIN poll.frame}
           /\ layout' = [s \in StillArriving(delivered') |-> layout[s]]
    /\ UNCHANGED << dirty, ackPending, watermark, quiet, draining, closing, wire, sent >>

\* No memory for the assembled frame: it stays in the window, Update ends.
DrainFails ==
    /\ draining /\ FrameReady(window)
    /\ closing' = TRUE
    /\ draining' = FALSE
    /\ UNCHANGED << window, dirty, ackPending, watermark, quiet, wire, peer, delivered, arrived >>

\* The feedback of one Update.
Packets(ack, nack) ==
    (IF ack THEN {[base |-> -1, confirmed |-> ContiguousId(window), bits |-> {}]} ELSE {})
    \cup (IF nack THEN {Feedback(window)} ELSE {})

\* Mutant: Update delivers one frame at most, whatever is ready behind it.
GiveFeedbackEarly(mature) ==
    /\ draining
    /\ draining' = FALSE
    /\ dirty' = HasGap(window)
    /\ UNCHANGED << window, ackPending, watermark, quiet, closing, wire, peer, delivered, arrived >>

\* Mutant: an ACK that must wait for the deadline is not rescheduled.
GiveFeedbackOnce(mature) ==
    /\ draining /\ ~ Poll(window).ready
    /\ draining' = FALSE
    /\ LET confirmed == ContiguousId(window)
           owed == ackPending \/ confirmed # watermark
           ack == owed /\ ~ quiet
           nack == HasGap(window) /\ mature /\ ~ quiet
       IN  /\ watermark' = confirmed
           /\ ackPending' = (owed /\ quiet)
           /\ dirty' = FALSE
           /\ wire' = Packets(ack, nack)
           /\ quiet' = (quiet \/ ack \/ nack)
    /\ UNCHANGED << window, closing, peer, delivered, arrived >>

\* No further frame: one ACK if the confirmed point moved or is owed, one NACK
\* if a gap is old enough; both wait for the deadline, which they then renew.
GiveFeedback(mature) ==
    /\ draining /\ ~ Poll(window).ready
    /\ draining' = FALSE
    /\ LET confirmed == ContiguousId(window)
           owed == ackPending \/ confirmed # watermark
           ack == owed /\ ~ quiet
           nack == HasGap(window) /\ mature /\ ~ quiet
       IN  /\ watermark' = confirmed
           /\ ackPending' = (owed /\ quiet)
           /\ dirty' = \/ owed /\ quiet
                       \/ HasGap(window) /\ ~ nack
           /\ wire' = Packets(ack, nack)
           /\ quiet' = (quiet \/ ack \/ nack)
    /\ UNCHANGED << window, closing, peer, delivered, arrived >>

\* The feedback deadline passes.
Deadline ==
    /\ quiet /\ quiet' = FALSE
    /\ UNCHANGED << window, dirty, ackPending, watermark, draining, closing, wire, peer,
                    delivered, arrived >>

-----------------------------------------------------------------------------
RxWorker ==
    \/ \E s \in DOMAIN layout : Receive(s) \/ ReceiveFails(s)
    \/ BeginUpdate \/ DrainFrame \/ DrainFails
    \/ \E mature \in BOOLEAN : GiveFeedback(mature)

Next ==
    \/ \E n \in FrameSizes : PeerSends(n)
    \/ RxWorker
    \/ Deadline

\* The RX worker runs Update on every cycle, and time passes.
Fairness ==
    /\ WF_vars(BeginUpdate)
    /\ WF_vars(DrainFrame \/ \E mature \in BOOLEAN : GiveFeedback(mature))
    /\ WF_vars(Deadline)

Spec == Init /\ [][Next]_vars
FairSpec == Spec /\ Fairness

-----------------------------------------------------------------------------
\* The ring's cursors and ids stay in their ranges (the head may rest at capacity,
\* window.c:320), and what arrived lies between the delivered and the sent.
TypeOK ==
    /\ window # NoWindow =>
          /\ window.capacity \in InitialCapacity .. 2 * MaxSpan
          /\ DOMAIN window.data = 0 .. window.capacity - 1
          /\ window.head \in 0 .. window.capacity
          /\ window.tail \in 0 .. window.capacity - 1
          /\ window.tailId \in 0 .. IdModulus - 1
    /\ {dirty, ackPending, quiet, draining, closing} \subseteq BOOLEAN
    /\ watermark \in 0 .. IdModulus - 1
    /\ sent \in 0 .. MaxPackets /\ delivered \in 0 .. sent
    /\ arrived \subseteq delivered .. sent - 1

\* The ring is exactly the set of packets received and not delivered: its size
\* is the span from the next packet to deliver to the highest one received
\* (window.c:360), and the slot at each offset from the head holds the packet of
\* that position or, where none arrived, nothing.  Holds across growth, wrapping
\* of the cursors and wrapping of the ids.
WindowIsSpan ==
    window # NoWindow =>
        /\ Size(window) = IF arrived = {} THEN 0 ELSE Max(arrived) - delivered + 1
        /\ \A i \in 0 .. Size(window) - 1 :
              window.data[Pos(window, i)].seq =
                  IF delivered + i \in arrived THEN delivered + i ELSE -1
        /\ Cardinality({i \in DOMAIN window.data : IsUsed(window.data[i])})
              = Cardinality(arrived)

\* NextNeededPacketId is "the lowest packet id whose delivery is still pending"
\* (window.h:84) even after the 16-bit ids have wrapped.
NextNeededIsPending ==
    window # NoWindow => NextNeeded(window) = delivered % IdModulus

\* Frames reach the dispatcher whole, once and in the order of the stream
\* (ReliableDrainFrames, reliable.c:16): each delivery is exactly the next frame
\* the peer cut, whatever was lost, repeated or reordered.
DeliversNextFrame ==
    [][delivered' # delivered =>
          /\ layout[delivered] = Packet(delivered, delivered' - delivered, 0)
          /\ delivered .. delivered' - 1 \subseteq arrived]_vars

HeadComplete ==
    /\ delivered \in arrived
    /\ delivered .. delivered + layout[delivered].frag \subseteq arrived

\* A frame that can be delivered is never left behind: as long as it is in the
\* window, the channel is marked dirty or Update is on it (reliable.c:55-60 clears
\* the mark before it drains).
NothingForgotten ==
    HeadComplete => dirty \/ draining \/ closing

Prefix == Max({n \in 0 .. Ahead : delivered .. delivered + n - 1 \subseteq arrived})

\* Every ACK and NACK tells the peer the truth: the confirmed id is the last one
\* of the contiguous prefix; the bits of a NACK are ids that are here, its zero
\* bits and the ids below its base are ids that are missing or confirmed.  The
\* peer frees what is confirmed, so a wrong bit loses data for good.
FeedbackIsTrue ==
    [][draining /\ ~ draining' /\ ~ closing' =>
          \A f \in wire' :
             /\ f.confirmed = (delivered + Prefix - 1) % IdModulus
             /\ f.base # -1 =>
                   LET at == delivered + ((f.base - delivered) % IdModulus) IN
                   /\ f.bits = {s - at : s \in {t \in arrived : t >= at /\ t - at < MaskBits}}
                   /\ (delivered + Prefix .. at - 1) \cap arrived = {}]_vars

\* An ACK that is owed is sent once the deadline allows it (reliable.c:76-85),
\* even if the peer falls silent.
OwedAckIsSent == ackPending ~> (closing \/ ~ ackPending)

\* A complete frame at the head is delivered, even if nothing else arrives.
CompleteFrameIsDelivered ==
    \A k \in 0 .. MaxPackets :
        (delivered = k /\ HeadComplete) ~> (closing \/ delivered > k)

=============================================================================
