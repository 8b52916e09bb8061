--------------------------- MODULE TcpReassembly ---------------------------
(***************************************************************************)
(* The TCP stream reassembler of one worker (spi_tcp_reassembly.cpp): it   *)
(* turns segments that arrive reordered, duplicated and overlapping into   *)
(* the contiguous prefix of a stream that DPI inspects, within bounds on   *)
(* streams, segments and bytes.                                            *)
(*                                                                         *)
(* Every direction of every stream carries Content from sequence number    *)
(* Isn on.  Sequence numbers are taken modulo Modulus, 2^32 in the code.   *)
(* Time is abstracted to the set of streams that have been idle for longer *)
(* than the timeout.                                                       *)
(*                                                                         *)
(* StreamKeyHash hashes the whole object representation of a StreamKey,    *)
(* the last byte of which is padding that MakeKey leaves unset.  An entry  *)
(* of streams_ is thus found again only by a key with the same padding.    *)
(***************************************************************************)
EXTENDS Integers, Sequences, FiniteSets, SequencesExt, FiniteSetsExt

CONSTANTS
    Paddings,            \* values that the padding of a StreamKey takes
    Traffic,             \* pairs <<source, destination>> of endpoints
    Content,             \* the bytes that a sender sends
    StartByte,           \* the byte that begins a request: see IsStreamStart
    Segments,            \* pairs <<first, last>> of offsets into Content
    Corruptible,         \* whether a segment may carry other bytes
    Noise,               \* such a byte
    Isn, Modulus,
    MaxStreams, MaxBufferedBytes, MaxOutOfOrder, Budget,
    DropConflictingOverlap,
    None

ASSUME TcpAssumption ==
    /\ Modulus \in Nat /\ 2 * Len(Content) < Modulus /\ Isn \in 0..(Modulus - 1)
    /\ {MaxStreams, MaxBufferedBytes, MaxOutOfOrder, Budget} \subseteq Nat \ {0}
    /\ \A s \in Segments : 1 <= s[1] /\ s[2] <= Len(Content)

VARIABLES
    streams,             \* streams_: per key and padding, a state or None
    buffered_bytes,
    idle,                \* entries whose last_seen_tsc is out of date
    status,              \* what the latest Insert returned
    received             \* per key and direction, the offsets received so far

vars == <<streams, buffered_bytes, idle, status, received>>

-----------------------------------------------------------------------------
(* Keys and directions.                                                     *)

MakeKey(source, destination) ==
    IF source < destination
    THEN [key |-> <<source, destination>>, direction |-> 0]
    ELSE [key |-> <<destination, source>>, direction |-> 1]

Keys == {MakeKey(t[1], t[2]).key : t \in Traffic}
Entries == Keys \X Paddings
Directions == {0, 1}

EmptyDirection ==
    [base_known |-> FALSE, base_sequence |-> 0, next_sequence |-> 0,
     contiguous |-> <<>>, pending |-> <<>>]

Present(s) == {e \in Entries : s[e] # None}

Bytes(direction) ==
    Len(direction.contiguous)
    + FoldLeft(LAMBDA n, segment : n + Len(segment.payload), 0, direction.pending)

StateBytes(state) == Bytes(state[0]) + Bytes(state[1])

Nothing == [d \in Directions |-> {}]

Init ==
    /\ streams = [e \in Entries |-> None]
    /\ buffered_bytes = 0
    /\ idle = {}
    /\ status = "disabled"
    /\ received = [k \in Keys |-> Nothing]

-----------------------------------------------------------------------------
(* One segment of one direction.  Each operator returns the status, the     *)
(* direction after the call and the bytes added to buffered_bytes_.         *)

IsStreamStart(payload) == payload[1] = StartByte

\* The difference as a signed number.
SequenceDistance(lhs, rhs) ==
    LET difference == (lhs - rhs) % Modulus
    IN  IF 2 * difference < Modulus THEN difference ELSE difference - Modulus

HasCapacity(additional, buffered) == additional <= Budget - Min({Budget, buffered})

Outcome(verdict, direction, added) ==
    [status |-> verdict, direction |-> direction, added |-> added]

\* Whether bytes that are buffered already are repeated as they were.
VerifyOverlap(direction, sequence, payload) ==
    LET offset == SequenceDistance(sequence, direction.base_sequence)
        overlap == Min({Len(payload), Len(direction.contiguous) - offset})
        differs == offset < 0
                   \/ \E i \in 1..overlap : payload[i] # direction.contiguous[offset + i]
    IN  IF differs /\ DropConflictingOverlap THEN "conflict" ELSE "waiting"

\* Mutant: one segment too many is queued.
QueuePendingOneMore(direction, sequence, payload, buffered) ==
    IF Len(direction.pending) > MaxOutOfOrder \/ ~HasCapacity(Len(payload), buffered)
    THEN Outcome("limit", direction, 0)
    ELSE Outcome("waiting",
                 [direction EXCEPT !.pending =
                    Append(@, [sequence |-> sequence, payload |-> payload])], Len(payload))

QueuePending(direction, sequence, payload, buffered) ==
    LET same == {i \in DOMAIN direction.pending : direction.pending[i].sequence = sequence}
        segment == [sequence |-> sequence, payload |-> payload]
    IN  IF Len(direction.pending) >= MaxOutOfOrder \/ ~HasCapacity(Len(payload), buffered)
        THEN Outcome("limit", direction, 0)
        ELSE IF same # {}
        THEN Outcome(IF direction.pending[Min(same)].payload = payload
                     THEN "waiting" ELSE "conflict", direction, 0)
        ELSE Outcome("waiting",
                     [direction EXCEPT !.pending = Append(@, segment)], Len(payload))

\* Mutant: any later segment is moved, and counted again.
DrainOneGap(outcome) ==
    LET direction == outcome.direction
    IN  IF direction.pending = <<>> THEN outcome
        ELSE [outcome EXCEPT
                !.added = @ + Len(Head(direction.pending).payload),
                !.direction = [direction EXCEPT
                    !.contiguous = @ \o Head(direction.pending).payload,
                    !.pending = Tail(@)]]

\* One turn of the loop that moves pending segments: none fits, the first
\* that does is too long, or it is appended.
DrainOne(outcome) ==
    LET direction == outcome.direction
        fitting == {i \in DOMAIN direction.pending :
                        direction.pending[i].sequence = direction.next_sequence}
        first == Min(fitting)
        payload == direction.pending[first].payload
    IN  IF fitting = {} \/ outcome.status = "limit" THEN outcome
        ELSE IF Len(direction.contiguous) + Len(payload) > MaxBufferedBytes
        THEN [outcome EXCEPT !.status = "limit"]
        ELSE [outcome EXCEPT !.direction =
                [direction EXCEPT
                    !.contiguous = @ \o payload,
                    !.next_sequence = (@ + Len(payload)) % Modulus,
                    !.pending = RemoveAt(@, first)]]

\* Mutant: pending segments are not moved.
AppendOnly(direction, sequence, payload, buffered) ==
    IF \/ ~HasCapacity(Len(payload), buffered)
       \/ Len(direction.contiguous) + Len(payload) > MaxBufferedBytes
    THEN Outcome("limit", direction, 0)
    ELSE Outcome("ready", [direction EXCEPT
            !.contiguous = @ \o payload,
            !.next_sequence = (sequence + Len(payload)) % Modulus], Len(payload))

AppendAndDrain(direction, sequence, payload, buffered) ==
    LET appended == [direction EXCEPT
            !.contiguous = @ \o payload,
            !.next_sequence = (sequence + Len(payload)) % Modulus]
    IN  IF \/ ~HasCapacity(Len(payload), buffered)
           \/ Len(direction.contiguous) + Len(payload) > MaxBufferedBytes
        THEN Outcome("limit", direction, 0)
        ELSE FoldLeft(LAMBDA outcome, segment : DrainOne(outcome),
                      Outcome("ready", appended, Len(payload)), direction.pending)

\* Mutant: a retransmission is appended without being trimmed.
AddUntrimmed(direction, sequence, payload, buffered) ==
    IF SequenceDistance(sequence, direction.next_sequence) > 0
    THEN QueuePending(direction, sequence, payload, buffered)
    ELSE AppendAndDrain(direction, sequence, payload, buffered)

AddInStream(direction, sequence, payload, buffered) ==
    LET distance == SequenceDistance(sequence, direction.next_sequence)
        end == (sequence + Len(payload)) % Modulus
    IN  CASE distance = 0 -> AppendAndDrain(direction, sequence, payload, buffered)
          [] distance > 0 -> QueuePending(direction, sequence, payload, buffered)
          [] distance < 0 ->
               IF VerifyOverlap(direction, sequence, payload) = "conflict"
               THEN Outcome("conflict", direction, 0)
               ELSE IF SequenceDistance(end, direction.next_sequence) <= 0
               THEN Outcome("waiting", direction, 0)
               ELSE AppendAndDrain(direction, direction.next_sequence,
                                   SubSeq(payload, 1 - distance, Len(payload)), buffered)

AddSegment(direction, sequence, payload, buffered) ==
    IF payload = <<>> THEN Outcome("waiting", direction, 0)
    ELSE IF direction.base_known
    THEN AddInStream(direction, sequence, payload, buffered)
    ELSE IF IsStreamStart(payload)
    THEN AddInStream([direction EXCEPT !.base_known = TRUE, !.base_sequence = sequence,
                                       !.next_sequence = sequence],
                     sequence, payload, buffered)
    ELSE QueuePending(direction, sequence, payload, buffered)

-----------------------------------------------------------------------------
(* Insert.                                                                  *)

\* PurgeExpired: what remains of streams_, buffered_bytes_ and received.
Expired == idle \cap Present(streams)

Kept == [e \in Entries |-> IF e \in Expired THEN None ELSE streams[e]]

KeptBytes ==
    LET bytes == FoldSet(LAMBDA e, n : n + StateBytes(streams[e]), 0, Expired)
    IN  buffered_bytes - Min({buffered_bytes, bytes})

Heard == [k \in Keys |-> IF \E e \in Expired : e[1] = k THEN Nothing ELSE received[k]]

\* A SYN takes a sequence number of its own.
DataSequence(tcp_sequence, syn) == (tcp_sequence + (IF syn THEN 1 ELSE 0)) % Modulus

\* A segment of the direction of t, with the bytes first..last of Content or,
\* if corrupted, another byte in front.  PurgeExpired comes first.
Insert(t, padding, first, last, syn, corrupted) ==
    LET key == MakeKey(t[1], t[2]).key
        direction == MakeKey(t[1], t[2]).direction
        entry == <<key, padding>>
        slice == SubSeq(Content, first, last)
        payload == IF corrupted THEN [slice EXCEPT ![1] = Noise] ELSE slice
        tcp_sequence == Isn + first - 1 - (IF syn THEN 1 ELSE 0)
        state == IF Kept[entry] = None THEN [d \in Directions |-> EmptyDirection]
                 ELSE Kept[entry]
        outcome == AddSegment(state[direction], DataSequence(tcp_sequence, syn), payload,
                              KeptBytes)
        updated == [state EXCEPT ![direction] = outcome.direction]
        total == KeptBytes + outcome.added
    IN  IF Kept[entry] = None /\ Cardinality(Present(Kept)) >= MaxStreams
        THEN /\ streams' = Kept /\ buffered_bytes' = KeptBytes
             /\ received' = Heard
             /\ status' = "limit"
             /\ idle' = idle \ Expired
        ELSE IF outcome.status \in {"conflict", "limit"}
        THEN /\ streams' = [Kept EXCEPT ![entry] = None]
             /\ buffered_bytes' = total - Min({total, StateBytes(updated)})
             /\ received' = [Heard EXCEPT ![key] = Nothing]
             /\ status' = outcome.status
             /\ idle' = idle \ (Expired \cup {entry})
        ELSE /\ streams' = [Kept EXCEPT ![entry] = updated]
             /\ buffered_bytes' = total
             /\ received' = [Heard EXCEPT ![key][direction] = @ \cup first..last]
             /\ status' = outcome.status
             /\ idle' = idle \ (Expired \cup {entry})

\* A segment with a payload arrives, or one without.
Arrival ==
    \E t \in Traffic, padding \in Paddings :
        \/ \E s \in Segments, syn \in BOOLEAN, corrupted \in {FALSE, Corruptible} :
               /\ syn => s[1] = 1
               /\ Insert(t, padding, s[1], s[2], syn, corrupted)
        \/ Insert(t, padding, 1, 0, TRUE, FALSE)

\* idle_timeout_sec have passed since the latest segment of some streams.
Idle ==
    /\ \E quiet \in SUBSET Present(streams) : idle' = idle \cup quiet
    /\ UNCHANGED <<streams, buffered_bytes, status, received>>

\* CleanupExpiredFragments purges too, at most once a second.
Cleanup ==
    /\ streams' = Kept /\ buffered_bytes' = KeptBytes
    /\ received' = Heard
    /\ idle' = idle \ Expired
    /\ UNCHANGED status

Next == Arrival \/ Idle \/ Cleanup

Spec == Init /\ [][Next]_vars

-----------------------------------------------------------------------------
(* Properties.                                                              *)

Direction == Present(streams) \X Directions
At(p) == streams[p[1]][p[2]]

\* The offset into Content of the first byte that is not contiguous yet.
NextOffset(p) ==
    ((At(p).base_sequence - Isn) % Modulus) + Len(At(p).contiguous) + 1

\* buffered_bytes_ is the number of bytes held, through purges, conflicts and
\* limits, one of which may strike in the middle of a drain.
AccountingExact ==
    buffered_bytes = FoldSet(LAMBDA e, n : n + StateBytes(streams[e]), 0, Present(streams))

\* The limits of TcpReassemblyConfig hold at all times.
WithinLimits ==
    /\ Cardinality(Present(streams)) <= MaxStreams
    /\ buffered_bytes <= Budget
    /\ \A p \in Direction : /\ Len(At(p).contiguous) <= MaxBufferedBytes
                            /\ Len(At(p).pending) <= MaxOutOfOrder

\* What DPI inspects is what was sent: in whatever order segments arrive and
\* however they overlap, the contiguous payload is a run of the stream, each
\* byte at the offset it was sent for (corrupted or not), without gap or
\* repetition, also across the wrap of the numbers.
PayloadIntact ==
    \A p \in Direction : At(p).base_known =>
        LET before == NextOffset(p) - Len(At(p).contiguous) - 1
        IN  /\ At(p).next_sequence = (Isn + NextOffset(p) - 1) % Modulus
            /\ \A i \in DOMAIN At(p).contiguous :
                   /\ before + i \in DOMAIN Content
                   /\ At(p).contiguous[i] \in {Content[before + i], Noise}

\* No byte is lost while a stream is kept: what was received is part of the
\* contiguous payload, precedes it, or is in a queued segment, and no queued
\* segment could have been moved to the payload yet.
NoByteLost ==
    \A p \in Direction :
        LET offsets(segment) ==
                LET first == ((segment.sequence - Isn) % Modulus) + 1
                IN  first..(first + Len(segment.payload) - 1)
        IN  \A offset \in received[p[1][1]][p[2]] :
                \/ At(p).base_known /\ offset < NextOffset(p)
                \/ \E segment \in Range(At(p).pending) :
                        /\ offset \in offsets(segment)
                        /\ At(p).base_known => segment.sequence # At(p).next_sequence

\* Inspection is independent of segmentation: a byte that was received, and
\* that continues the contiguous payload, is part of it.  The code does not
\* keep this (see the README): a queued segment that is overtaken is not used,
\* and a key whose padding differs opens a second stream.
Independent ==
    \A p \in Direction : At(p).base_known => NextOffset(p) \notin received[p[1][1]][p[2]]
=============================================================================
