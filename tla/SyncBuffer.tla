----------------------------- MODULE SyncBuffer -----------------------------
(***************************************************************************)
(* One memory block transferred one way over one connection: the source    *)
(* end (application, source buffer, frames), the stream, and the target    *)
(* end (frames, target buffer, application).  The two ends open, link,     *)
(* reset and close their side of the connection at different times.        *)
(*                                                                         *)
(* Every action runs under the root's mutex in the code (ioc_lock).        *)
(* ioc_run_connection resets the buffers, calls the application's          *)
(* connection callback, which may write, send and receive, and then        *)
(* releases them: reset and release are two actions here.                  *)
(***************************************************************************)
EXTENDS SyncOps, Sequences

CONSTANT MaxFrames    \* flow control: frames in the stream at one time

ASSUME SyncBufferAssumption == MaxFrames \in Nat \ {0}

VARIABLES smblk,      \* mblk->buf at the source
          sbuf,       \* the source buffer, when scon is "linked" or "reset"
          scon,       \* state of the source's end of the connection
          chan,       \* frames in the stream
          tmblk,      \* mblk->buf at the target
          tbuf,       \* the target buffer, when tcon is "linked" or "reset"
          tcon        \* state of the target's end of the connection

srcVars == <<smblk, sbuf, scon>>
tgtVars == <<tmblk, tbuf, tcon>>
vars == <<smblk, sbuf, scon, chan, tmblk, tbuf, tcon>>

\* closed: no stream.  open: stream, but this block not linked yet.
\* linked: buffer exists.  reset: ioc_reset_connection_state done, buffer
\* not released yet.
ConState == {"closed", "open", "linked", "reset"}
HasBuf(c) == c \in {"linked", "reset"}

\* What newdata is before the first frame in the stream is applied.
Base == IF HasBuf(tcon) THEN tbuf.newdata ELSE tmblk

\* What newdata is, or will be, when every frame in the stream is applied.
Wire == IF chan # <<>> THEN chan[Len(chan)].after ELSE Base

Init ==
    /\ smblk \in Image /\ tmblk \in Image
    /\ sbuf = NewSbuf /\ tbuf = NewTbuf(tmblk)
    /\ scon = "closed" /\ tcon = "closed"
    /\ chan = <<>>

----------------------------------------------------------------------------
(* Application at the source.                                              *)

\* ioc_write of the bytes r: store, then invalidate the source buffer.
Write(r, v) ==
    /\ smblk' = Copy(smblk, v, r)
    /\ sbuf' = IF HasBuf(scon) THEN Invalidate(sbuf, smblk', r) ELSE sbuf
    /\ UNCHANGED <<scon, chan>> /\ UNCHANGED tgtVars

\* ioc_send: synchronise the source buffer of the block.
Send ==
    /\ HasBuf(scon)
    /\ sbuf' = Synchronize(sbuf, smblk)
    /\ UNCHANGED <<smblk, scon, chan>> /\ UNCHANGED tgtVars

----------------------------------------------------------------------------
(* Connection thread at the source.                                        *)

\* ioc_connection_send with a used source buffer.  n is the number of bytes
\* that fit into the frame, which depends on how well they compress.  Frames
\* written to a stream nobody reads any more are lost.
MakeDataFrame(n) ==
    /\ scon = "linked"
    /\ sbuf.pend # NoRange
    /\ n \in 1 .. (sbuf.pend.hi - sbuf.pend.lo + 1)
    /\ Len(chan) < MaxFrames
    /\ LET c == Chunk(sbuf, n)
           after == Apply(Wire, c, sbuf.delta, ~sbuf.is_keyframe)
       IN  chan' = IF tcon \in {"open", "linked"}
                   THEN Append(chan, DataFrame(sbuf, n, after))
                   ELSE chan
    /\ sbuf' = AfterDataFrame(sbuf, n)
    /\ UNCHANGED <<smblk, scon>> /\ UNCHANGED tgtVars

\* ioc_mbinfo_new_sbuf: create the source buffer and synchronise it.
LinkSource ==
    /\ scon = "open"
    /\ scon' = "linked"
    /\ sbuf' = Synchronize(NewSbuf, smblk)
    /\ UNCHANGED <<smblk, chan>> /\ UNCHANGED tgtVars

\* ioc_run_connection at "failed": ioc_reset_connection_state, before the
\* callback with IOC_CONNECTION_DROPPED.
ResetSource ==
    /\ scon = "linked"
    /\ scon' = "reset"
    /\ sbuf' = ResetSbuf(sbuf)
    /\ UNCHANGED <<smblk, chan>> /\ UNCHANGED tgtVars

\* ioc_free_source_and_target_bufs and ioc_close_stream (the connection
\* thread does not reset first).
CloseSource ==
    /\ scon # "closed"
    /\ scon' = "closed"
    /\ sbuf' = NewSbuf
    /\ UNCHANGED <<smblk, chan>> /\ UNCHANGED tgtVars

----------------------------------------------------------------------------
(* Connection thread at the target.                                        *)

\* ioc_process_received_data_frame.
ReceiveDataFrame ==
    /\ tcon = "linked"
    /\ chan # <<>>
    /\ tbuf' = StoreDataFrame(tbuf, Head(chan))
    /\ chan' = Tail(chan)
    /\ UNCHANGED <<tmblk, tcon>> /\ UNCHANGED srcVars

\* ioc_mbinfo_new_tbuf.
LinkTarget ==
    /\ tcon = "open"
    /\ tcon' = "linked"
    /\ tbuf' = NewTbuf(tmblk)
    /\ UNCHANGED <<tmblk, chan>> /\ UNCHANGED srcVars

\* As ResetSource; frames not read yet are never read.
ResetTarget ==
    /\ tcon = "linked"
    /\ tcon' = "reset"
    /\ tbuf' = ResetTbuf(tbuf)
    /\ chan' = <<>>
    /\ UNCHANGED tmblk /\ UNCHANGED srcVars

CloseTarget ==
    /\ tcon # "closed"
    /\ tcon' = "closed"
    /\ tbuf' = NewTbuf(tmblk)
    /\ chan' = <<>>
    /\ UNCHANGED tmblk /\ UNCHANGED srcVars

----------------------------------------------------------------------------
(* Application at the target, and the transport.                           *)

\* ioc_receive_nolock for a one directional target buffer.
Receive ==
    /\ HasBuf(tcon)
    /\ tbuf.got # NoRange
    /\ tmblk' = Copy(tmblk, tbuf.buf, tbuf.got)
    /\ tbuf' = [tbuf EXCEPT !.got = NoRange]
    /\ UNCHANGED <<tcon, chan>> /\ UNCHANGED srcVars

\* ioc_try_to_connect and ioc_reset_connection_state at both ends.
Connect ==
    /\ scon = "closed" /\ tcon = "closed"
    /\ scon' = "open" /\ tcon' = "open"
    /\ chan' = <<>>
    /\ UNCHANGED <<smblk, sbuf, tmblk, tbuf>>

Next ==
    \/ \E r \in AddrRange : \E v \in [In(r) -> Byte] : Write(r, v)
    \/ Send
    \/ \E n \in 1 .. NBytes : MakeDataFrame(n)
    \/ LinkSource
    \/ ResetSource
    \/ CloseSource
    \/ ReceiveDataFrame
    \/ LinkTarget
    \/ ResetTarget
    \/ CloseTarget
    \/ Receive
    \/ Connect

Spec == Init /\ [][Next]_vars

\* The two worker threads and the two applications keep running their loops
\* (ioc_connection_thread; "Call ioc_send() function repeatedly" in ioc_send's
\* header), connections are retried by ioc_try_to_connect, and an end whose
\* peer is gone closes after the silence timeout of ioc_connection_thread.
Fairness ==
    /\ WF_vars(Send) /\ WF_vars(Receive)
    /\ WF_vars(\E n \in 1 .. NBytes : MakeDataFrame(n))
    /\ WF_vars(ReceiveDataFrame)
    /\ WF_vars(Connect) /\ WF_vars(LinkSource) /\ WF_vars(LinkTarget)
    /\ WF_vars(tcon \in {"closed", "reset"} /\ CloseSource)
    /\ WF_vars(scon \in {"closed", "reset"} /\ CloseTarget)
    /\ WF_vars(scon = "reset" /\ CloseSource)
    /\ WF_vars(tcon = "reset" /\ CloseTarget)

LiveSpec == Spec /\ Fairness

----------------------------------------------------------------------------
(* Types.                                                                  *)

Ranges == AddrRange \union {NoRange}

SbufType == [changed : Ranges, pend : Ranges, make_keyframe : BOOLEAN,
             is_keyframe : BOOLEAN, buf : Image,
             delta : UNION {[In(r) -> Byte] : r \in Ranges}]

TbufType == [buf : Image, newdata : Image, new : Ranges, got : Ranges]

FrameType == [range : AddrRange, delta : BOOLEAN, complete : BOOLEAN,
              data : UNION {[In(r) -> Byte] : r \in AddrRange},
              after : Image]

\* Every variable has its type, and delta and the data of a frame hold
\* exactly the bytes of their ranges (no byte outside the buffer is used by
\* ioc_make_data_frame or ioc_store_data_frame).
TypeOK ==
    /\ smblk \in Image /\ tmblk \in Image
    /\ sbuf \in SbufType /\ sbuf.delta \in [In(sbuf.pend) -> Byte]
    /\ tbuf \in TbufType
    /\ scon \in ConState /\ tcon \in ConState
    /\ chan \in Seq(FrameType)
    /\ \A i \in 1 .. Len(chan) : chan[i].data \in [In(chan[i].range) -> Byte]

----------------------------------------------------------------------------
(* Safety.                                                                 *)

\* No write is lost: a byte that differs from the last snapshot is inside
\* the changed range, however writes that restore the old value and the
\* narrowing in ioc_sbuf_invalidate and ioc_sbuf_synchronize interleave.
NoLostWrite ==
    HasBuf(scon) /\ ~sbuf.make_keyframe =>
        \A a \in Addr : smblk[a] # sbuf.buf[a] => a \in In(sbuf.changed)

\* Deltas add up: when the target has applied the frames in the stream and
\* the part of the delta that is not sent yet, it has exactly the source's
\* last snapshot.  Deltas are relative, so one error would stay for ever.
DeltaCoherence ==
    scon = "linked" /\ tcon \in {"open", "linked"} =>
        Apply(Wire, sbuf.pend, sbuf.delta, ~sbuf.is_keyframe) = sbuf.buf

\* The target never publishes half a snapshot: outside newdata's range the
\* received data equals the published buffer, and outside the published
\* range the memory block does, so the range copies of ioc_tbuf_synchronize
\* and ioc_receive move whole snapshots.
TargetRangesCover ==
    tcon = "linked" =>
        \A a \in Addr :
            /\ tbuf.newdata[a] # tbuf.buf[a] => a \in In(tbuf.new)
            /\ tmblk[a] # tbuf.buf[a] => a \in In(tbuf.got)

\* When nothing is marked, pending or in the stream, the blocks are equal:
\* no state of the flags claims "all sent" while the ends differ.
QuiescentEqual ==
    (/\ scon = "linked" /\ tcon = "linked"
     /\ sbuf.changed = NoRange /\ sbuf.pend = NoRange
     /\ chan = <<>> /\ tbuf.got = NoRange) => tmblk = smblk

\* The first snapshot of a link is a key frame and has been taken.
KeyframeTaken == scon = "linked" => ~sbuf.make_keyframe

\* Frames are only in a stream that somebody reads.
StreamRead == chan # <<>> => tcon \in {"open", "linked"}

\* Each frame in the stream takes what the previous one leaves to its "after".
FramesChain ==
    \A i \in 1 .. Len(chan) :
        chan[i].after = Apply(IF i = 1 THEN Base ELSE chan[i - 1].after,
                              chan[i].range, chan[i].data, chan[i].delta)

\* With nothing pending, the last frame in the stream ends a snapshot, and
\* with an empty stream the target is between two snapshots.
LastComplete ==
    scon = "linked" /\ sbuf.pend = NoRange =>
        /\ chan # <<>> => chan[Len(chan)].complete
        /\ chan = <<>> /\ tcon = "linked" => tbuf.new = NoRange

\* The stream continues what the target has: the strengthening that makes
\* the invariants above inductive.
StreamInv == KeyframeTaken /\ StreamRead /\ FramesChain /\ LastComplete

\* The inductive invariant.
IInv == TypeOK /\ NoLostWrite /\ DeltaCoherence /\ TargetRangesCover /\ StreamInv

----------------------------------------------------------------------------
(* Refinement and liveness.                                                *)

\* The snapshots that the first i frames of s end, in order, and those of all
\* of s.
SnapshotsUpTo(s) ==
    LET F[i \in 0 .. Len(s)] ==
            IF i = 0 THEN <<>>
            ELSE IF s[i].complete THEN Append(F[i - 1], s[i].after)
            ELSE F[i - 1]
    IN  F

Snapshots(s) == SnapshotsUpTo(s)[Len(s)]

\* The snapshot the source is sending, if any.
BeingSent == IF scon = "linked" /\ sbuf.pend # NoRange THEN <<sbuf.buf>> ELSE <<>>

TransitSnapshots == Snapshots(chan) \o BeingSent

Channel == INSTANCE SnapshotChannel
    WITH Images <- Image, src <- smblk, transit <- TransitSnapshots,
         rcv <- (IF tcon = "linked" THEN tbuf.buf ELSE tmblk), tgt <- tmblk

\* Buffers, deltas, key frames, frames and range copies together implement
\* ordered delivery of whole snapshots: what ioc_send's and ioc_receive's
\* headers promise ("receives all data matching to one ioc_send() call").
SnapshotsInOrder == Channel!ChSpec

\* A step that neither changes the source's block nor takes a link down.
Calm == /\ smblk' = smblk
        /\ HasBuf(scon) => scon' = scon
        /\ HasBuf(tcon) => tcon' = tcon

\* Once writes and disconnections stop, the target gets the final value,
\* whatever state earlier disconnections left the two ends in.
EventuallyEqual == <>[][Calm]_vars => <>[](tmblk = smblk)

============================================================================
