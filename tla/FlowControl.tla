---------------------------- MODULE FlowControl ----------------------------
(***************************************************************************)
(* Flow control between the two ends of one connection: data and system    *)
(* frames, acknowledgements that also count as traffic, and keep alives.   *)
(* Counters are compared only after masking (0xFFFF serial, 0xFFFFFF       *)
(* socket), so they are kept modulo Wrap = mask + 1.                       *)
(*                                                                         *)
(* The stream carries single bytes.  The last byte of an acknowledgement   *)
(* carries its value, every other byte is Plain: both ends count bytes as  *)
(* they are written and read, also those of a partly moved frame.          *)
(***************************************************************************)
EXTENDS Integers, Sequences

CONSTANTS Wrap,          \* mask + 1
          AckSz,         \* IOC_SERIAL_ACK_SIZE / IOC_SOCKET_ACK_SIZE
          MaxFrame,      \* largest frame (dst_frame_sz)
          AckLimit,      \* con->unacknogledged_limit
          MaxInAir,      \* con->max_in_air
          MaxAckInAir,   \* con->max_ack_in_air
          InitAck,       \* bytes_acknowledged after a reset (0xA0A000)
          MaxKeepalive   \* keep alives an end sends while the other end does
                         \* not read: silence time / keep alive time

ASSUME FlowAssumption ==
    /\ Wrap \in Nat /\ AckSz \in Nat \ {0} /\ MaxFrame \in Nat \ {0}
    /\ AckLimit \in Nat \ {0} /\ MaxInAir \in Nat /\ MaxAckInAir \in Nat
    /\ InitAck \in 0 .. Wrap - 1 /\ MaxKeepalive \in Nat
    /\ MaxInAir < MaxAckInAir
    /\ AckSz <= MaxInAir /\ AckLimit <= MaxAckInAir
    \* keep alives that no flow control stops do not wrap the counters
    /\ MaxAckInAir + MaxKeepalive * AckSz < Wrap
    \* the first acknowledgement is due at once, whatever arrives before it
    /\ MaxInAir + MaxKeepalive * AckSz < InitAck
    /\ InitAck + AckLimit <= Wrap

End == {"a", "b"}
Other(e) == IF e = "a" THEN "b" ELSE "a"

Counter == 0 .. Wrap - 1
Plain == -1
Token == Counter \union {Plain}

VARIABLES bytes_sent, processed_bytes,         \* what an end knows as sender
          bytes_received, bytes_acknowledged,  \* what it knows as receiver
          want,     \* size of the next data or system frame, 0 = none
          left,     \* frame_out.used - frame_out.pos
          outack,   \* last byte of frame_out: a value or Plain
          stream,   \* bytes written by an end and not read by the other
          kept      \* keep alives sent since the line was settled

vars == <<bytes_sent, processed_bytes, bytes_received, bytes_acknowledged,
          want, left, outack, stream, kept>>

\* Mutants of WSub and WInc: no mask.
SubNoMask(x, y) == x - y
IncNoMask(x) == x + 1

\* Unsigned subtraction and addition under the mask.
WSub(x, y) == IF x >= y THEN x - y ELSE x - y + Wrap
WInc(x) == IF x + 1 < Wrap THEN x + 1 ELSE x + 1 - Wrap

\* Bytes sent and not known to be processed, as the code computes it.
InAir(e) == WSub(bytes_sent[e], processed_bytes[e])
Unacknowledged(e) == WSub(bytes_received[e], bytes_acknowledged[e])

\* ioc_reset_connection_state at both ends of a new stream.
Init ==
    /\ bytes_sent = [e \in End |-> 0]
    /\ processed_bytes = [e \in End |-> 0]
    /\ bytes_received = [e \in End |-> 0]
    /\ bytes_acknowledged = [e \in End |-> InitAck]
    /\ want = [e \in End |-> 0]
    /\ left = [e \in End |-> 0]
    /\ outack = [e \in End |-> Plain]
    /\ stream = [e \in End |-> <<>>]
    /\ kept = [e \in End |-> 0]

\* A source buffer, memory block info or authentication waits to be sent.
NewData(e, n) ==
    /\ want[e] = 0
    /\ want' = [want EXCEPT ![e] = n]
    /\ UNCHANGED <<bytes_sent, processed_bytes, bytes_received,
                   bytes_acknowledged, left, outack, stream, kept>>

\* ioc_send_acknowledge into the free frame_out.
PutAck(e) ==
    /\ left' = [left EXCEPT ![e] = AckSz]
    /\ outack' = [outack EXCEPT ![e] = bytes_received[e]]
    /\ bytes_acknowledged' = [bytes_acknowledged EXCEPT ![e] = bytes_received[e]]

\* ioc_acknowledge_as_needed: room for an acknowledgement, and enough
\* received to be worth one.
RoomForAck(e) == MaxAckInAir - InAir(e) >= AckSz
AckNeeded(e) == Unacknowledged(e) >= AckLimit

AcknowledgeAsNeeded(e) ==
    /\ left[e] = 0
    /\ RoomForAck(e) /\ AckNeeded(e)
    /\ PutAck(e)
    /\ UNCHANGED <<bytes_sent, processed_bytes, bytes_received, want, stream, kept>>

\* Mutant of FitsInAir: the space reserved for acknowledgements is used.
FitsInReserve(e, n) == n <= MaxAckInAir - InAir(e)

\* ioc_make_data_frame and ioc_finish_frame: the frame fits in the air.
FitsInAir(e, n) == n <= MaxInAir - InAir(e)

\* Mutant of MakeFrame: a sent frame is not taken off the queue.
MakeFrameAgain(e) ==
    /\ left[e] = 0
    /\ RoomForAck(e) /\ ~AckNeeded(e)
    /\ want[e] # 0 /\ FitsInAir(e, want[e])
    /\ left' = [left EXCEPT ![e] = want[e]]
    /\ outack' = [outack EXCEPT ![e] = Plain]
    /\ UNCHANGED <<bytes_sent, processed_bytes, bytes_received,
                   bytes_acknowledged, want, stream, kept>>

MakeFrame(e) ==
    /\ left[e] = 0
    /\ RoomForAck(e) /\ ~AckNeeded(e)
    /\ want[e] # 0 /\ FitsInAir(e, want[e])
    /\ left' = [left EXCEPT ![e] = want[e]]
    /\ outack' = [outack EXCEPT ![e] = Plain]
    /\ want' = [want EXCEPT ![e] = 0]
    /\ UNCHANGED <<bytes_sent, processed_bytes, bytes_received,
                   bytes_acknowledged, stream, kept>>

\* The other end has read everything, owes no acknowledgement, and what it
\* sent has been read.
Settled(e) ==
    /\ stream[e] = <<>> /\ stream[Other(e)] = <<>>
    /\ left[Other(e)] = 0 /\ ~AckNeeded(Other(e))

\* ioc_send_timed_keepalive: no check of the space in the air.  The keep
\* alive time is long against one round of the other end's loop, so the line
\* has settled unless the other end is stalled; a stalled end sends nothing,
\* and after the silence time this end closes the connection instead.
SendKeepalive(e) ==
    /\ left[e] = 0
    /\ LET k == IF Settled(e) THEN 0 ELSE kept[e]
       IN  k < MaxKeepalive /\ kept' = [kept EXCEPT ![e] = k + 1]
    /\ PutAck(e)
    /\ UNCHANGED <<bytes_sent, processed_bytes, bytes_received, want, stream>>

\* ioc_write_to_stream, one byte (the stream may take any number of them).
WriteByte(e) ==
    /\ left[e] > 0
    /\ left' = [left EXCEPT ![e] = @ - 1]
    /\ bytes_sent' = [bytes_sent EXCEPT ![e] = WInc(@)]
    /\ stream' = [stream EXCEPT ![e] =
                    Append(@, IF left[e] = 1 THEN outack[e] ELSE Plain)]
    /\ outack' = [outack EXCEPT ![e] = IF left[e] = 1 THEN Plain ELSE @]
    /\ UNCHANGED <<processed_bytes, bytes_received, bytes_acknowledged, want, kept>>

\* ioc_connection_receive, one byte; the last byte of an acknowledgement
\* tells how much the other end has processed.
ReadByte(e) ==
    /\ stream[Other(e)] # <<>>
    /\ stream' = [stream EXCEPT ![Other(e)] = Tail(@)]
    /\ bytes_received' = [bytes_received EXCEPT ![e] = WInc(@)]
    /\ processed_bytes' = [processed_bytes EXCEPT ![e] =
          IF Head(stream[Other(e)]) = Plain THEN @ ELSE Head(stream[Other(e)])]
    /\ UNCHANGED <<bytes_sent, bytes_acknowledged, want, left, outack, kept>>

Next ==
    \E e \in End :
        \/ \E n \in 1 .. MaxFrame : NewData(e, n)
        \/ AcknowledgeAsNeeded(e)
        \/ MakeFrame(e)
        \/ SendKeepalive(e)
        \/ WriteByte(e)
        \/ ReadByte(e)

Spec == Init /\ [][Next]_vars

\* The worker thread of each end loops for ever over receive and send; keep
\* alives and new data are never needed for progress.  A frame is tried in
\* the same ioc_connection_send call that wrote an acknowledgement, so
\* acknowledgements cannot pass it by for ever: strong fairness.
Fairness ==
    \A e \in End : /\ WF_vars(AcknowledgeAsNeeded(e))
                   /\ SF_vars(MakeFrame(e))
                   /\ WF_vars(WriteByte(e))
                   /\ WF_vars(ReadByte(e))

LiveSpec == Spec /\ Fairness

----------------------------------------------------------------------------
\* Every variable has its type; counters stay under the mask.
TypeOK ==
    /\ bytes_sent \in [End -> Counter] /\ processed_bytes \in [End -> Counter]
    /\ bytes_received \in [End -> Counter]
    /\ bytes_acknowledged \in [End -> Counter]
    /\ want \in [End -> 0 .. MaxFrame]
    /\ left \in [End -> 0 .. (MaxFrame + AckSz)]
    /\ outack \in [End -> Token]
    /\ stream \in [End -> Seq(Token)]
    /\ kept \in [End -> 0 .. MaxKeepalive]

\* The masked subtraction of the code is the number of bytes really on their
\* way or read but not acknowledged: the counters never wrap past each other.
\* If they did, a full line would look empty.
InAirExact ==
    \A e \in End :
        InAir(e) = Len(stream[e]) + WSub(bytes_received[Other(e)], processed_bytes[e])

\* The receive buffer of the other end holds everything that was written and
\* not read, keep alives that no flow control stops included
\* (IOC_SERIAL_RX_BUF_MIN_SZ "holds 255 bytes of data").
RxBufferBound == \A e \in End : Len(stream[e]) <= MaxAckInAir

\* The space between max_in_air and max_ack_in_air holds all the
\* acknowledgements that can be unread: the first, the keep alives, and one for
\* each ackLimit bytes the other end may send before it has news of them.
Reserve(ackSz, ackLimit, maxInAir, maxAckInAir, keepalives) ==
    LET owed == (maxAckInAir + keepalives * ackSz) \div ackLimit
    IN  maxInAir + ackSz * (keepalives + 1 + owed) <= maxAckInAir

ReserveEnough == Reserve(AckSz, AckLimit, MaxInAir, MaxAckInAir, MaxKeepalive)

\* A data or system frame that waits is sent, whatever the two ends send
\* each other: they never wait for each other's acknowledgements for ever
\* (the lockup IOC_SERIAL_NRO_ACKS_TO_RESEVE is there to prevent).
NoLockup == \A e \in End : want[e] # 0 ~> want[e] = 0
============================================================================
