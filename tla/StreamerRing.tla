---------------------------- MODULE StreamerRing ----------------------------
(***************************************************************************)
(* The ring buffer of a streamer: the computations of                      *)
(* ioc_streamer_write_internal and ioc_streamer_read_internal.  Head and   *)
(* tail are the signals of the same names; one byte stays unused, so that  *)
(* head = tail means empty.                                                *)
(***************************************************************************)
EXTENDS Integers, Sequences

CONSTANT BufSz   \* size of the ring, signals->buf->n

ASSUME BufSzAssumption == BufSz \in Nat /\ BufSz > 1

Position == 0 .. BufSz - 1

LesserOf(a, b) == IF a < b THEN a ELSE b

\* An index that reaches the end of the ring starts again.
Wrapped(i) == IF i >= BufSz THEN 0 ELSE i

\* Bytes ioc_streamer_write_internal stores up to the end of the ring.
WriteToEnd(head, tail, n) ==
    IF head >= tail
    THEN LesserOf(n, BufSz - head - (IF tail = 0 THEN 1 ELSE 0))
    ELSE 0

\* Bytes it stores in all: then those in front of the tail.
WriteCount(head, tail, n) ==
    LET k == WriteToEnd(head, tail, n)
        h == Wrapped(head + k)
    IN  k + (IF h < tail THEN LesserOf(n - k, tail - h - 1) ELSE 0)

\* Mutant of ReadToEnd: an empty ring is taken for a full one.
ReadToEndEager(head, tail, n) == IF tail >= head THEN LesserOf(n, BufSz - tail) ELSE 0

\* Bytes ioc_streamer_read_internal takes up to the end of the ring.
ReadToEnd(head, tail, n) == IF tail > head THEN LesserOf(n, BufSz - tail) ELSE 0

\* Bytes it takes in all.
ReadCount(head, tail, n) ==
    LET k == ReadToEnd(head, tail, n)
        t == Wrapped(tail + k)
    IN  k + (IF t < head THEN LesserOf(n - k, head - t) ELSE 0)

\* ioc_move_array in both directions.
Stored(buf, head, bytes) ==
    [i \in Position |-> LET k == (i - head) % BufSz
                        IN  IF k < Len(bytes) THEN bytes[k + 1] ELSE buf[i]]
Fetched(buf, tail, n) == [k \in 1 .. n |-> buf[(tail + k - 1) % BufSz]]

\* ioc_streamer_tx_available for a connected stream.
TxAvailable(head, tail) ==
    LET buffered == IF head < tail THEN head - tail + BufSz ELSE head - tail
    IN  BufSz - buffered - 1
=============================================================================
