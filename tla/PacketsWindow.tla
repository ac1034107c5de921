----------------------------- MODULE PacketsWindow -----------------------------
(***************************************************************************)
(* The receive window of src/session/window.c: a ring of packet slots with *)
(* a head cursor, a tail cursor and the 16-bit id of the tail.  Reliable   *)
(* windows grow, media windows are bounded.  The module holds no state: a  *)
(* window is a record and every function of the file is an operator that   *)
(* returns the new record.                                                 *)
(*                                                                         *)
(* A packet's body is abstracted to `seq', the absolute position of the    *)
(* packet in the peer's stream; its id on the wire is seq % IdModulus.     *)
(***************************************************************************)
EXTENDS Integers, Sequences, FiniteSets, FiniteSetsExt

CONSTANTS
    IdModulus,        \* number of packet ids: 65536 in the code
    InitialCapacity,  \* slots of a new reliable window, and its growth unit: 64
    MaxSpan,          \* forward span a reliable window accepts: 16384
    MaskBits          \* packets one NACK bitmap can describe: 320

ASSUME WindowAssumption ==
    /\ IdModulus \in Nat /\ InitialCapacity \in Nat \ {0}
    /\ MaxSpan \in Nat /\ MaskBits \in Nat
    /\ InitialCapacity <= MaxSpan
    /\ 4 * MaxSpan <= IdModulus

\* (int16_t)(a - b): the signed distance from id b to id a.
IdDistance(a, b) ==
    LET d == (a - b) % IdModulus
    IN  IF 2 * d >= IdModulus THEN d - IdModulus ELSE d

\* An all-zero WindowItem: no body, no type, no stamp.
Blank == [seq |-> -1, kind |-> "none", frag |-> 0, stamp |-> 0]

IsUsed(item) == item.seq # -1
IsHead(item) == item.kind = "head"

\* IHS_SessionPacketsWindowCreate: nothing observed yet.
Create(cap, rel) ==
    [data |-> [i \in 0 .. cap - 1 |-> Blank], capacity |-> cap,
     reliable |-> rel, head |-> 0, tail |-> -1, tailId |-> 0]

\* Mutant: the tail already stands on the first packet.
CreateReliablePast(cap, firstId) ==
    [Create(cap, TRUE) EXCEPT !.head = 1, !.tail = 0, !.tailId = firstId]

\* The stream is known to start at firstId, whose slot is 1.
CreateReliable(cap, firstId) ==
    [Create(cap, TRUE) EXCEPT !.head = 1, !.tail = 0,
                              !.tailId = (firstId - 1) % IdModulus]

\* Position of the i-th slot from the head.
Pos(w, i) == (w.head + i) % w.capacity

\* Slots from the head to the tail, holes included.  A full ring and an empty
\* one can have the same cursors; a used tail slot tells them apart.
Size(w) ==
    IF w.tail < 0 THEN 0
    ELSE IF w.tail + 1 = w.head /\ IsUsed(w.data[w.tail]) THEN w.capacity
    ELSE IF w.tail + 1 >= w.head THEN w.tail + 1 - w.head
    ELSE w.capacity - w.head + w.tail + 1

Available(w) == w.capacity - Size(w)

\* Offsets from the head of the slots that hold a packet.
UsedOffsets(w) == {i \in 0 .. Size(w) - 1 : IsUsed(w.data[Pos(w, i)])}

-----------------------------------------------------------------------------
(* Adding a packet. *)

\* The smallest InitialCapacity * 2^k that holds `required' slots.
GrownCapacity(required) ==
    LET double[k \in 0 .. required] ==
            IF k = 0 THEN InitialCapacity ELSE 2 * double[k - 1]
    IN  Min({double[k] : k \in {j \in 0 .. required : double[j] >= required}})

\* Mutant: the ring is copied slot by slot, not from its head.
GrowInPlace(w, required) ==
    LET cap == GrownCapacity(required) IN
    [w EXCEPT !.capacity = cap,
              !.data = [i \in 0 .. cap - 1 |->
                            IF i < w.capacity THEN w.data[i] ELSE Blank],
              !.head = IF Size(w) > 0 THEN 0 ELSE cap,
              !.tail = IF Size(w) > 0 THEN Size(w) - 1 ELSE cap - 1]

\* Reallocation: the occupied run moves to the front, an empty window keeps
\* its sequence origin with both cursors at the end.
Grow(w, required) ==
    LET cap == GrownCapacity(required)
        size == Size(w)
    IN  [w EXCEPT !.capacity = cap,
                  !.data = [i \in 0 .. cap - 1 |->
                                IF i < size THEN w.data[Pos(w, i)] ELSE Blank],
                  !.head = IF size > 0 THEN 0 ELSE cap,
                  !.tail = IF size > 0 THEN size - 1 ELSE cap - 1]

\* Distance of the packet from the tail; a reset media window takes any id.
TailOffset(w, p) == IF w.tail < 0 THEN 1 ELSE IdDistance(p.seq % IdModulus, w.tailId)

\* Already delivered, discarded or given up.
IsOld(w, p) == TailOffset(w, p) <= 0 /\ -TailOffset(w, p) >= Size(w)

\* Too far ahead of a reliable window: ignored, the peer will resend it.
IsBeyondSpan(w, p) ==
    w.reliable /\ TailOffset(w, p) > 0 /\ Size(w) + TailOffset(w, p) > MaxSpan

NeedsGrowth(w, p) ==
    /\ w.reliable /\ ~ IsOld(w, p) /\ ~ IsBeyondSpan(w, p)
    /\ TailOffset(w, p) > 0
    /\ Size(w) + TailOffset(w, p) > w.capacity

\* The stamp of slot `at' spreads to the `before' slots preceding it, until one
\* of them already has an older stamp.
Stamp(w, at, before, stamp) ==
    LET back(n) == (at + w.capacity - n) % w.capacity
        older(n) == w.data[back(n)].stamp # 0 /\ stamp >= w.data[back(n)].stamp
        reached == {n \in 1 .. before : \A k \in 1 .. n : ~ older(k)}
    IN  [w EXCEPT !.data = [i \in DOMAIN w.data |->
            IF \E n \in reached : back(n) = i
            THEN [w.data[i] EXCEPT !.stamp = stamp] ELSE w.data[i]]]

\* Store p at offset `off' from the tail of a window with room for it.
Store(w, p, off) ==
    LET at == (w.tail + off + w.capacity) % w.capacity
        old == w.data[at].stamp
        filled == [w EXCEPT !.data[at] =
                      [seq |-> p.seq, kind |-> p.kind, frag |-> p.frag, stamp |-> old]]
        stamped == IF old = 0 \/ old < p.stamp
                   THEN Stamp([filled EXCEPT !.data[at].stamp = p.stamp],
                              at, Size(filled) + off - 1, p.stamp)
                   ELSE filled
    IN  IF off > 0
        THEN [stamped EXCEPT !.tail = at, !.tailId = p.seq % IdModulus]
        ELSE stamped

\* IHS_SessionPacketsWindowAddEx: [ok, inserted, w].  `room' is the outcome of
\* the reallocation, when one is needed.
AddEx(w0, p, room) ==
    LET w == IF NeedsGrowth(w0, p) /\ room
             THEN Grow(w0, Size(w0) + TailOffset(w0, p)) ELSE w0
        off == TailOffset(w, p)
        at == (w.tail + off + w.capacity) % w.capacity
        Result(ok, ins, win) == [ok |-> ok, inserted |-> ins, w |-> win]
    IN  IF IsOld(w0, p) \/ IsBeyondSpan(w0, p) THEN Result(TRUE, FALSE, w0)
        ELSE IF NeedsGrowth(w0, p) /\ ~ room THEN Result(FALSE, FALSE, w0)
        ELSE IF off > w.capacity \/ off > Available(w) THEN Result(FALSE, FALSE, w)
        ELSE IF IsUsed(w.data[at]) THEN Result(TRUE, FALSE, w)
        ELSE Result(TRUE, TRUE, Store(w, p, off))

-----------------------------------------------------------------------------
(* Taking packets out. *)

\* Recycle the slots at offsets 0 .. n-1 from the head.
RecycleFirst(w, n) ==
    [w EXCEPT !.data = [i \in DOMAIN w.data |->
        IF \E k \in 0 .. n - 1 : Pos(w, k) = i THEN Blank ELSE w.data[i]]]

\* Media only: fragments at the head whose frame start was never seen.
Orphans(w) ==
    IF w.reliable THEN 0
    ELSE Max({n \in 0 .. Size(w) : \A k \in 0 .. n - 1 :
                 IsUsed(w.data[Pos(w, k)]) /\ ~ IsHead(w.data[Pos(w, k)])})

SkipOrphans(w) ==
    IF Orphans(w) = 0 THEN w
    ELSE [RecycleFirst(w, Orphans(w)) EXCEPT !.head = Pos(w, Orphans(w))]

\* Packets of the frame at the head, by its first packet's fragment count.
FrameLength(w) == 1 + w.data[Pos(w, 0)].frag

\* Mutant: the length of the frame counts its fragments only.
FrameReadyShort(w) ==
    /\ Size(w) > 0
    /\ IsHead(w.data[Pos(w, 0)])
    /\ Size(w) >= FrameLength(w)
    /\ \A k \in 0 .. FrameLength(w) - 2 : IsUsed(w.data[Pos(w, k)])

\* A frame starts at the head and all of its packets are here; media also
\* require consecutive fragment numbers.
FrameReady(w) ==
    /\ Size(w) > 0
    /\ IsHead(w.data[Pos(w, 0)])
    /\ Size(w) >= FrameLength(w)
    /\ \A k \in 0 .. FrameLength(w) - 1 :
          LET item == w.data[Pos(w, k)] IN
          /\ IsUsed(item)
          /\ ~ w.reliable /\ k > 0 => item.kind = "frag" /\ item.frag = k - 1

\* Mutant: the head cursor is not wrapped after a frame.
AdvanceUnwrapped(w, n) == [w EXCEPT !.head = @ + n]

\* The head cursor may rest at `capacity': only a larger value is wrapped.
Advance(w, n) ==
    [w EXCEPT !.head = IF @ + n > w.capacity THEN (@ + n) % w.capacity ELSE @ + n]

\* IHS_SessionPacketsWindowPoll: [ready, frame, w].
Poll(w0) ==
    LET w == SkipOrphans(w0)
        n == FrameLength(w)
    IN  IF FrameReady(w)
        THEN [ready |-> TRUE,
              frame |-> [k \in 1 .. n |-> w.data[Pos(w, k - 1)].seq],
              w |-> Advance(RecycleFirst(w, n), n)]
        ELSE [ready |-> FALSE, frame |-> << >>, w |-> w]

-----------------------------------------------------------------------------
(* What the window tells the peer. *)

\* The lowest id still pending at the head.
NextNeeded(w) == (w.tailId + 1 - Size(w)) % IdModulus

\* Length of the run of present packets at the head.
HeadRun(w) == Max({n \in 0 .. Size(w) : 0 .. n - 1 \subseteq UsedOffsets(w)})

\* The last id of the contiguous prefix of the stream.
ContiguousId(w) == (w.tailId - Size(w) + HeadRun(w)) % IdModulus

\* Mutant: the bitmap describes everything held, however far ahead.
HoleBitmapUnbounded(w, startId) ==
    {(NextNeeded(w) + i - startId) % IdModulus : i \in UsedOffsets(w)}

\* Offsets from startId of the ids held, as many as the bitmap has bits.
HoleBitmap(w, startId) ==
    {(NextNeeded(w) + i - startId) % IdModulus : i \in UsedOffsets(w)}
        \cap 0 .. MaskBits - 1

\* There is a hole, and something behind it.
HasGap(w) == \E i \in UsedOffsets(w) : i > HeadRun(w)

\* IHS_SessionPacketsWindowMediaFeedback, for a window with a gap: the base is
\* the first packet present behind the first hole.
Feedback(w) ==
    LET present == Min({i \in UsedOffsets(w) : i > HeadRun(w)})
        base == (NextNeeded(w) + present) % IdModulus
    IN  [base |-> base,
         confirmed |-> (NextNeeded(w) + HeadRun(w) - 1) % IdModulus,
         bits |-> HoleBitmap(w, base)]
=============================================================================
