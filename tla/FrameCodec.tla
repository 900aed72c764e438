----------------------------- MODULE FrameCodec -----------------------------
(***************************************************************************)
(* The data of one snapshot as the frames of ioc_make_data_frame carry it: *)
(* the range start .. end of the delta buffer is cut into frames, each     *)
(* compressed by ioc_compress or, when that does not help, copied, and     *)
(* ioc_uncompress adds or copies it into newdata at the other end.         *)
(*                                                                         *)
(* Compressed data is a sequence of runs: a count of literal bytes, the    *)
(* bytes, a count of zero bytes.  A count is one byte: 0 .. MaxRun.        *)
(* SyncBuffer abstracts this module to "a frame carries the next n bytes". *)
(***************************************************************************)
EXTENDS Integers, Sequences, FiniteSetsExt

CONSTANTS NBytes,    \* size of the buffers
          ByteMod,   \* values of a data byte
          MaxRun,    \* longest run, largest value of a count byte (255)
          MaxData    \* most data bytes a frame can hold (dst_frame_sz - header)

ASSUME CodecAssumption ==
    /\ NBytes \in Nat \ {0} /\ ByteMod \in Nat \ {0}
    /\ MaxRun \in Nat \ {0} /\ MaxData \in Nat \ {0}

Addr == 0 .. NBytes - 1
Byte == 0 .. ByteMod - 1

VARIABLES delta,         \* syncbuf.delta of the source buffer
          start, end,    \* syncbuf.start_addr and .end_addr
          first,         \* history: start_addr of the snapshot
          base,          \* history: newdata before the snapshot
          isdelta,       \* IOC_DELTA_ENCODED
          frame,         \* data of the frame in the stream and its flags
          newdata        \* syncbuf.newdata of the target buffer

vars == <<delta, start, end, first, base, isdelta, frame, newdata>>

NoFrame == [addr |-> 0, data |-> <<>>, compressed |-> FALSE]

----------------------------------------------------------------------------
(* ioc_compress.                                                           *)

Bytes(buf, a, n) == [i \in 1 .. n |-> buf[a + i - 1]]
Zeros(n) == [i \in 1 .. n |-> 0]
AtMost(x, limit) == IF x > limit THEN limit ELSE x

\* Mutant of LiteralRun: max_count is not limited to what a byte holds.
LiteralRunUnbounded(buf, p, n) ==
    Min({c \in 0 .. n : c = n \/ (buf[p + c] = 0 /\ (c = n - 1 \/ buf[p + c + 1] = 0))})

\* Literal bytes from p: up to two zero bytes in a row, or to the last of
\* the n bytes left if that is zero.
LiteralRun(buf, p, n) ==
    LET max == AtMost(n, MaxRun)
    IN  Min({c \in 0 .. max :
               c = max \/ (buf[p + c] = 0 /\ (c = max - 1 \/ buf[p + c + 1] = 0))})

ZeroRun(buf, p, n) ==
    LET max == AtMost(n, MaxRun)
    IN  Min({c \in 0 .. max : c = max \/ buf[p + c] # 0})

\* Mutant of Turn: room for the literals but not for their count.
TurnOverflow(buf, e, sz, r) ==
    LET n == LiteralRun(buf, r.next, e - r.next + 1)
        p == r.next + n
        z == ZeroRun(buf, p, e - p + 1)
        literals == Append(r.dst, n % (MaxRun + 1)) \o Bytes(buf, r.next, n)
    IN  IF Len(r.dst) + n > sz THEN [r EXCEPT !.done = TRUE]
        ELSE IF p > e \/ Len(literals) >= sz
        THEN [next |-> p, dst |-> literals, done |-> TRUE]
        ELSE [next |-> p + z, dst |-> Append(literals, z % (MaxRun + 1)), done |-> FALSE]

\* One turn of the loop of ioc_compress, a literal run and a zero run as far
\* as there is room for them in sz bytes: r.dst has been stored, and r.next
\* is the first byte it does not stand for.
Turn(buf, e, sz, r) ==
    LET n == LiteralRun(buf, r.next, e - r.next + 1)
        p == r.next + n
        z == ZeroRun(buf, p, e - p + 1)
        literals == Append(r.dst, n % (MaxRun + 1)) \o Bytes(buf, r.next, n)
    IN  IF Len(r.dst) + n >= sz THEN [r EXCEPT !.done = TRUE]
        ELSE IF p > e \/ Len(literals) >= sz
        THEN [next |-> p, dst |-> literals, done |-> TRUE]
        ELSE [next |-> p + z, dst |-> Append(literals, z % (MaxRun + 1)), done |-> FALSE]

\* The loop: what it ends with, from any state of it.
Turns(buf, s, e, sz) ==
    LET loop[r \in [next : s .. e + 1, dst : Seq(Nat), done : BOOLEAN]] ==
          IF r.done \/ r.next > e THEN r ELSE loop[Turn(buf, e, sz, r)]
    IN  loop

\* The runs from address s to e that fit in sz bytes.
Runs(buf, s, e, sz) ==
    Turns(buf, s, e, sz)[[next |-> s, dst |-> <<>>, done |-> FALSE]]

\* ioc_compress: shorter than the bytes it stands for, or not used (-1).
Compressible(buf, s, e, sz) ==
    LET r == Runs(buf, s, e, sz)
    IN  e - s >= 3 /\ Len(r.dst) < r.next - s

----------------------------------------------------------------------------
(* ioc_uncompress.                                                         *)

\* One turn of the loop: d.i is the place of the next count in src, d.out the
\* bytes it stands for so far.  A literal run longer than the data that is
\* left is an error.
DecodeTurn(src, d) ==
    LET z == d.i + src[d.i] + 1
        literals == d.out \o SubSeq(src, d.i + 1, z - 1)
    IN  IF z - 1 > Len(src) THEN [d EXCEPT !.ok = FALSE]
        ELSE IF z > Len(src) THEN [i |-> z, out |-> literals, ok |-> TRUE]
        ELSE [i |-> z + 1, out |-> literals \o Zeros(src[z]), ok |-> TRUE]

DecodeTurns(src) ==
    LET loop[d \in [i : 1 .. Len(src) + 1, out : Seq(Nat), ok : BOOLEAN]] ==
          IF d.i > Len(src) \/ ~d.ok THEN d ELSE loop[DecodeTurn(src, d)]
    IN  loop

Decoded(src) == DecodeTurns(src)[[i |-> 1, out |-> <<>>, ok |-> TRUE]]
WellFormed(src) == Decoded(src).ok
Decode(src) == Decoded(src).out

\* Bytes d, at most up to the end of the buffer, added to or copied into x.
Store(x, a, d, add) ==
    [b \in Addr |->
        IF b \in a .. a + Len(d) - 1
        THEN IF add THEN (x[b] + d[b - a + 1]) % ByteMod ELSE d[b - a + 1]
        ELSE x[b]]

----------------------------------------------------------------------------
\* A snapshot is pending: a delta over a part of the block, or a key frame
\* over the whole of it.
Init ==
    /\ delta \in [Addr -> Byte] /\ base \in [Addr -> Byte]
    /\ start \in Addr /\ end \in start .. NBytes - 1
    /\ isdelta \in BOOLEAN
    /\ ~isdelta => start = 0 /\ end = NBytes - 1
    /\ first = start /\ newdata = base
    /\ frame = NoFrame

\* Mutant of Pending: the last byte alone is not sent.
PendingOffByOne == start < end

\* syncbuf.used: there are bytes to send.
Pending == start <= end

\* ioc_make_data_frame with room for sz bytes of data in the frame.
MakeDataFrame(sz) ==
    /\ frame = NoFrame
    /\ Pending
    /\ LET r == Runs(delta, start, end, sz)
           n == AtMost(end - start + 1, sz)
       IN  IF Compressible(delta, start, end, sz)
           THEN /\ frame' = [addr |-> start, data |-> r.dst, compressed |-> TRUE]
                /\ start' = r.next
           ELSE /\ frame' = [addr |-> start, data |-> Bytes(delta, start, n),
                             compressed |-> FALSE]
                /\ start' = start + n
    /\ UNCHANGED <<delta, end, first, base, isdelta, newdata>>

\* ioc_store_data_frame: corrupt compressed data closes the connection, which
\* leaves the frame in the stream for ever.
StoreDataFrame ==
    /\ frame # NoFrame
    /\ frame.compressed => WellFormed(frame.data)
    /\ newdata' = Store(newdata, frame.addr,
                        IF frame.compressed THEN Decode(frame.data) ELSE frame.data,
                        isdelta)
    /\ frame' = NoFrame
    /\ UNCHANGED <<delta, start, end, first, base, isdelta>>

Next == (\E sz \in 1 .. MaxData : MakeDataFrame(sz)) \/ StoreDataFrame

Spec == Init /\ [][Next]_vars

\* The worker threads keep sending and receiving.
Fairness == /\ WF_vars(\E sz \in 1 .. MaxData : MakeDataFrame(sz))
            /\ WF_vars(StoreDataFrame)

----------------------------------------------------------------------------
\* What the target must have when the bytes first .. a - 1 have arrived.
Expected(a) == Store(base, first, Bytes(delta, first, a - first), isdelta)

\* Frames, however they are cut and compressed, carry exactly the bytes the
\* source takes off its pending range: no byte is sent twice (a delta would
\* be added twice), none is skipped, and none outside the range is touched.
CarriesRange ==
    /\ frame = NoFrame => newdata = Expected(start)
    /\ frame # NoFrame => newdata = Expected(frame.addr)

\* A frame never holds more than its data area, and one sent compressed is
\* shorter than the bytes it stands for.
FrameFits ==
    /\ Len(frame.data) <= MaxData
    /\ frame.compressed => Len(frame.data) < start - frame.addr

\* Every frame takes at least one byte off the pending range, and all of
\* the range arrives: a run that does not fit never stalls the transfer.
RangeArrives == <>[](start = end + 1 /\ newdata = Expected(end + 1))
=============================================================================
