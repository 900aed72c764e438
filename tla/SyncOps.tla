------------------------------ MODULE SyncOps ------------------------------
(***************************************************************************)
(* The pure part of the synchronisation buffers of iocom: what             *)
(* ioc_sbuf_invalidate, ioc_sbuf_synchronize, ioc_make_data_frame,         *)
(* ioc_store_data_frame and ioc_tbuf_synchronize compute, as operators on  *)
(* records that stand for iocSourceBuffer and iocTargetBuffer.             *)
(*                                                                         *)
(* A pair (flag, start address, end address) of the C structures is one    *)
(* range: the flag is FALSE exactly when the range is NoRange.             *)
(*   changed  changed.range_set, .start_addr, .end_addr                    *)
(*   pend     syncbuf.used, .start_addr, .end_addr                         *)
(*   new      syncbuf.has_new_data, .newdata_start_addr, .newdata_end_addr *)
(*   got      syncbuf.buf_used, .buf_start_addr, .buf_end_addr             *)
(***************************************************************************)
EXTENDS Integers, FiniteSets

CONSTANTS NBytes,     \* size of the memory block
          ByteMod,    \* values of one byte (256 in the code)
          CheckLimit  \* widest range ioc_sbuf_invalidate compares (256)

ASSUME SyncOpsAssumption ==
    /\ NBytes \in Nat \ {0}
    /\ ByteMod \in Nat \ {0}
    /\ CheckLimit \in Nat

Addr == 0 .. NBytes - 1
Byte == 0 .. ByteMod - 1
Image == [Addr -> Byte]

NoRange == [lo |-> 0, hi |-> -1]
AddrRange == {r \in [lo : Addr, hi : Addr] : r.lo <= r.hi}
In(r) == r.lo .. r.hi

\* Arithmetic of os_char: it wraps at ByteMod.
AddByte(x, y) == IF x + y < ByteMod THEN x + y ELSE x + y - ByteMod
SubByte(x, y) == IF x >= y THEN x - y ELSE x - y + ByteMod

\* x with the bytes of r copied from y: os_memcpy of a range.
Copy(x, y, r) == [a \in Addr |-> IF a \in In(r) THEN y[a] ELSE x[a]]

\* Mutant of Merge: the low end of the range is not lowered.
MergeKeepsLow(r, q) ==
    IF r = NoRange THEN q
    ELSE [lo |-> r.lo, hi |-> IF q.hi > r.hi THEN q.hi ELSE r.hi]

\* The smallest range that holds r and q (q is not empty).
Merge(r, q) ==
    IF r = NoRange THEN q
    ELSE [lo |-> IF q.lo < r.lo THEN q.lo ELSE r.lo,
          hi |-> IF q.hi > r.hi THEN q.hi ELSE r.hi]

\* r without the bytes at its two ends that are equal in x and y.
Shrink(r, x, y) ==
    LET diff == {a \in In(r) : x[a] # y[a]}
    IN  IF diff = {} THEN NoRange
        ELSE CHOOSE s \in AddrRange :
                /\ s.lo \in diff /\ s.hi \in diff
                /\ diff \subseteq In(s)

----------------------------------------------------------------------------
(* Source buffer.                                                          *)

\* ioc_initialize_source_buffer, before the synchronisation that follows it.
NewSbuf == [changed |-> NoRange, pend |-> NoRange,
            make_keyframe |-> TRUE, is_keyframe |-> FALSE,
            buf |-> [a \in Addr |-> 0], delta |-> [a \in In(NoRange) |-> 0]]

\* Mutant of Invalidate: the new range replaces the one marked before.
InvalidateReplaces(sb, m, r) ==
    LET q == IF r.hi - r.lo < CheckLimit THEN Shrink(r, m, sb.buf) ELSE r
    IN  IF q = NoRange THEN sb ELSE [sb EXCEPT !.changed = q]

\* ioc_sbuf_invalidate: the bytes r of the memory block m were written.
Invalidate(sb, m, r) ==
    LET q == IF r.hi - r.lo < CheckLimit THEN Shrink(r, m, sb.buf) ELSE r
    IN  IF q = NoRange THEN sb
        ELSE [sb EXCEPT !.changed = Merge(sb.changed, q)]

\* Mutant of MaySynchronize: "<" for "<=", a change of one byte is not seen.
MaySynchronizeOffByOne(sb) ==
    /\ sb.pend = NoRange
    /\ sb.changed.lo < sb.changed.hi \/ sb.make_keyframe

\* Whether ioc_sbuf_synchronize has something to do and may do it.
MaySynchronize(sb) ==
    /\ sb.pend = NoRange
    /\ sb.changed # NoRange \/ sb.make_keyframe

\* Mutant of Synchronize: syncbuf.is_keyframe is not set.
SynchronizeAsDelta(sb, m) ==
    LET r == IF sb.make_keyframe THEN [lo |-> 0, hi |-> NBytes - 1]
             ELSE Shrink(sb.changed, m, sb.buf)
        delta == [a \in In(r) |-> IF sb.make_keyframe THEN m[a]
                                  ELSE SubByte(m[a], sb.buf[a])]
    IN  IF ~MaySynchronize(sb) THEN sb
        ELSE IF r = NoRange THEN [sb EXCEPT !.changed = NoRange]
        ELSE [changed |-> NoRange, pend |-> r, make_keyframe |-> FALSE,
              is_keyframe |-> FALSE,
              buf |-> Copy(sb.buf, m, r), delta |-> delta]

\* ioc_sbuf_synchronize: take a snapshot of the memory block m.
Synchronize(sb, m) ==
    LET r == IF sb.make_keyframe THEN [lo |-> 0, hi |-> NBytes - 1]
             ELSE Shrink(sb.changed, m, sb.buf)
        delta == [a \in In(r) |-> IF sb.make_keyframe THEN m[a]
                                  ELSE SubByte(m[a], sb.buf[a])]
    IN  IF ~MaySynchronize(sb) THEN sb
        ELSE IF r = NoRange THEN [sb EXCEPT !.changed = NoRange]
        ELSE [changed |-> NoRange, pend |-> r, make_keyframe |-> FALSE,
              is_keyframe |-> sb.make_keyframe,
              buf |-> Copy(sb.buf, m, r), delta |-> delta]

\* The part of the pending range a frame with n bytes carries, and the rest.
Chunk(sb, n) == [lo |-> sb.pend.lo, hi |-> sb.pend.lo + n - 1]

\* Mutant of Rest: start_addr may pass end_addr by one.
RestOffByOne(sb, n) == IF sb.pend.lo + n > sb.pend.hi + 1 THEN NoRange
                       ELSE [lo |-> sb.pend.lo + n, hi |-> sb.pend.hi]

Rest(sb, n) == IF sb.pend.lo + n > sb.pend.hi THEN NoRange
               ELSE [lo |-> sb.pend.lo + n, hi |-> sb.pend.hi]

\* Mutants of DataFrame: IOC_SYNC_COMPLETE is set one byte early, or only at
\* the end of the memory block.
DataFrameEarly(sb, n, after) ==
    [range |-> Chunk(sb, n), data |-> [a \in In(Chunk(sb, n)) |-> sb.delta[a]],
     delta |-> ~sb.is_keyframe, complete |-> sb.pend.lo + n >= sb.pend.hi,
     after |-> after]
DataFrameAtEnd(sb, n, after) ==
    [range |-> Chunk(sb, n), data |-> [a \in In(Chunk(sb, n)) |-> sb.delta[a]],
     delta |-> ~sb.is_keyframe, complete |-> sb.pend.lo + n = NBytes,
     after |-> after]

\* ioc_make_data_frame, when flow control lets the frame go.  The frame's
\* field "after" is history: what newdata holds once the frame is applied.
DataFrame(sb, n, after) ==
    [range |-> Chunk(sb, n), data |-> [a \in In(Chunk(sb, n)) |-> sb.delta[a]],
     delta |-> ~sb.is_keyframe, complete |-> Rest(sb, n) = NoRange,
     after |-> after]

AfterDataFrame(sb, n) ==
    [sb EXCEPT !.pend = Rest(sb, n),
               !.delta = [a \in In(Rest(sb, n)) |-> sb.delta[a]]]

\* ioc_reset_connection_state, the loop over source buffers.
ResetSbuf(sb) ==
    [sb EXCEPT !.pend = NoRange, !.make_keyframe = TRUE, !.is_keyframe = TRUE,
               !.delta = [a \in In(NoRange) |-> 0]]

----------------------------------------------------------------------------
(* Target buffer.                                                          *)

\* ioc_initialize_target_buffer: both buffers start as the memory block m.
NewTbuf(m) == [buf |-> m, newdata |-> m, new |-> NoRange, got |-> NoRange]

\* ioc_uncompress into newdata: add a delta frame, copy a key frame.
Apply(x, range, data, isdelta) ==
    [a \in Addr |->
        IF a \in In(range)
        THEN IF isdelta THEN AddByte(x[a], data[a]) ELSE data[a]
        ELSE x[a]]

\* Mutant of TbufSynchronize: the range not received yet is forgotten.
TbufSynchronizeReplaces(tb) ==
    LET r == Shrink(tb.new, tb.buf, tb.newdata)
    IN  IF r = NoRange THEN [tb EXCEPT !.new = NoRange]
        ELSE [newdata |-> tb.newdata, buf |-> Copy(tb.buf, tb.newdata, r),
              new |-> NoRange, got |-> r]

\* ioc_tbuf_synchronize: newdata is a complete snapshot, publish it.
TbufSynchronize(tb) ==
    LET r == Shrink(tb.new, tb.buf, tb.newdata)
    IN  IF r = NoRange THEN [tb EXCEPT !.new = NoRange]
        ELSE [newdata |-> tb.newdata, buf |-> Copy(tb.buf, tb.newdata, r),
              new |-> NoRange, got |-> Merge(tb.got, r)]

\* ioc_store_data_frame with ioc_tbuf_invalidate.
StoreDataFrame(tb, f) ==
    LET tb1 == [tb EXCEPT
                  !.newdata = Apply(tb.newdata, f.range, f.data, f.delta),
                  !.new = Merge(tb.new, f.range)]
    IN  IF f.complete THEN TbufSynchronize(tb1) ELSE tb1

\* ioc_reset_connection_state, the loop over target buffers.
ResetTbuf(tb) == [tb EXCEPT !.new = NoRange, !.got = NoRange]
============================================================================
