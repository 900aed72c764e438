# Verification of iocom

iocom moves memory blocks between IO devices and servers over sockets and serial
lines. An application writes bytes into a memory block and calls `ioc_send`; the other
end calls `ioc_receive` and gets, as a whole, what one `ioc_send` published. In between
are source and target buffers with deltas and key frames, compressed frames, a byte
counting flow control, and connections that come and go on their own at each end. On
top of memory blocks run the streamer (files through a ring of bytes in a block) and
the brick buffer (camera pictures); below them lie serial establishment, handshakes and
the switchbox, which carries many connections over one. This project models these
protocols in TLA+, checks them with TLC on small instances and proves with TLAPS, for
every size of the instance, that the memory block transfer implements a channel of whole
snapshots, that compressed frames carry exactly the bytes they stand for, and that flow
control, block info, the streamer, the brick buffer and the switchbox keep their main
invariants.

## 1. Inventory

| Part (source) | State | Operations | Interacts with | What is hard | What makes it correct |
|---|---|---|---|---|---|
| Memory block (`ioc_memory_block.c`) | bytes, lists of source and target buffers | `ioc_write`, `ioc_read`, `ioc_send`, `ioc_receive`, resize, delete | buffers, callbacks, handles | application threads against connection threads | reads see whole snapshots |
| Source buffer (`ioc_source_buffer.c`) | changed range, last snapshot, delta, pending range, key frame flags | initialise, invalidate, synchronise, release | block, connection | writes while a snapshot is half sent; narrowing of ranges | no write is lost; deltas add up |
| Target buffer (`ioc_target_buffer.c`) | newdata and its range, published data and its range | initialise, invalidate, synchronise, release | block, connection | two snapshots before one receive | nothing half received is published |
| Frames and compression (`ioc_connection_send.c`, `ioc_connection_receive.c`, `ioc_compress.c`) | frame in, frame out, frame numbers | make, send, read and store frames | stream, buffers | frame limits, runs cut by a frame, partial reads and writes | the bytes of the range, each once |
| Flow control (`ioc_connection_send.c`, `ioc_connection.h`) | four byte counters | acknowledge, keep alive, hold back a frame | the other end | wrap around, acknowledgements that count as traffic | no overrun of the receive buffer, no lockup |
| Connection (`ioc_connection.c`, `ioc_end_point.c`) | stream, timers, authentication, buffer lists | connect, run, reset, terminate, worker thread | everything above | ends fail at different times; reset without a lock | a reconnection repairs everything |
| Block info (`ioc_memory_block_info.c`) | cursors into block and buffer lists | announce, answer, link | connection, blocks | order of info and data; blocks that come and go | both ends link, data never comes first |
| Serial establishment (`ioc_establish_serial_connection.c`, `ioc_authentication.c`) | step and timer of each end | exchange of control characters and authentication frames | connection | restarts and lost characters at any step | both ends in one connection, no frame of another one |
| Handshake (`ioc_handshake.c`, `ioc_switchbox_auth_frame.c`) | positions in messages of both directions | mark byte, client message, certificate, authentication frame | sockets, switchbox | parts of messages in every call | server acts on what the client sent; framing kept |
| Streamer, control stream (`ioc_streamer.c`, `ioc_dyn_stream.c`) | transfer step, ring head and tail, check sum at each end | open, read, write, close, run | signals in two blocks, persistent storage | each end sees an old value of the other's state | whole transfer or an error at both ends |
| Brick buffer (`ioc_brick.c`) | picture, size, check sum, frame count; request count | store, send, receive, enable | signals in two blocks, camera | five writes make one brick; requests get lost | bricks are whole and keep coming |
| Switchbox (`ioc_switchbox_socket.c`, `extensions/switchbox`) | rings of the shared socket and of each client, client ids | connect, collect, distribute, drop, keep alive | sockets, threads | full rings, leaving clients, reused ids | streams are kept apart and get through |
| Handles, root events, dynamic IO, automatic device numbers | lists and queues | add, remove, terminate, deliver | blocks, application | deletion while in use | no dangling reference, events in order |
| Extensions (lighthouse, gazerbeam, io server, node configuration, Python) | various | various | | | |

The hazards of these parts, each with the line where it bites and the properties that
cover it, are in `PROJECT.json`.

## 2. Modules

| Module | Models |
|---|---|
| `SyncOps` | the pure computations on source and target buffers, as operators on records |
| `SyncBuffer` | one block, one direction, one connection: application, worker threads, stream |
| `SnapshotChannel` | abstract: whole snapshots, published, delivered in order, lost only on failure |
| `FlowControl` | byte counters, acknowledgements and keep alives of both ends |
| `FrameCodec` | cutting a range into frames, `ioc_compress`, `ioc_uncompress` |
| `MbInfo` | announcing, linking and removing the blocks of the two ends of a connection |
| `StreamerRing` | the streamer's ring of bytes, as operators |
| `StreamerFrd` | a persistent block read from a device by a controller |
| `StreamerTod` | a persistent block or a program written to a device by a controller |
| `Brick` | pictures from a camera at a device to a controller |
| `SerialLink` | a serial connection from control characters to data frames |
| `Handshake` | the first bytes of a socket connection, with the switchbox's authentication |
| `Switchbox` | client connections over one shared connection, both ends |
| `MC...` | bounds for TLC |
| `..._proofs` | theorems about `SyncBuffer`, `FlowControl`, `FrameCodec`, `MbInfo`, `StreamerFrd`, `StreamerTod`, `Brick` and `Switchbox` |

How they build on each other: `SyncBuffer` implements `SnapshotChannel`; `StreamerFrd`,
`StreamerTod` and `Brick` take the promise of `SnapshotChannel` for the two blocks in
which their signals travel, and use it as the medium. `FrameCodec` and `FlowControl`
justify that `SyncBuffer` may take any part of a range into a frame. `SerialLink` gives
the connection in which frames arrive in order, each once, which `SyncBuffer` and
`MbInfo` assume of their stream; `Handshake` comes before a `Switchbox`.

### SyncOps and SyncBuffer

A C flag with a start and an end address is one range (`changed`, `pend`, `new`, `got`);
`NoRange` is the cleared flag. `Write`, `Send`, `Receive` are the application's calls;
`MakeDataFrame` and `ReceiveDataFrame` are what the worker threads do with this block;
`LinkSource` and `LinkTarget` are `ioc_mbinfo_new_sbuf` and `ioc_mbinfo_new_tbuf`;
`ResetSource`, `ResetTarget`, `CloseSource`, `CloseTarget` and `Connect` are the life of
the connection at each end. Every action runs under the root's lock in the code:
`ioc_run` holds it around `ioc_run_connection`, and the worker thread takes it. When a
connection fails, `ioc_run_connection` resets the buffers, calls the application's
connection callback with `IOC_CONNECTION_DROPPED`, and only then releases them; what a
callback writes, sends and receives acts on buffers that are reset, hence the state
`"reset"`. The reset itself is one step: it only clears flags of a connection on which, by
then, this same thread sends nothing more.

How many bytes a frame takes depends on compression and on flow control; `SyncBuffer`
takes any number from 1 up. A frame carries a history field `after`, the content newdata
has once the frame is applied; no guard reads it. Frames wait in the stream until the
target is linked: the block info that links it travels ahead of them on the same stream.

The content of both blocks may be anything when a connection is made (`Init` in the
proofs); TLC starts with cleared blocks and reaches other contents through disconnections.

### SnapshotChannel

The abstract promise: `Publish` takes the whole block, `Arrive` moves the oldest snapshot
to the receiver, `Obtain` makes it the block's value. A failure loses snapshots at one
end of the line and never reorders or mixes them. The mapping: snapshots in transit are
the ones whose last frame is in the stream plus the one still being sent; the received
snapshot is the target buffer's published data while it is linked.

### FlowControl

The stream carries single bytes, so partial writes and reads are every interleaving.
Counters are kept modulo the mask. Keep alives are the one message flow control does not
hold back. Time is abstracted: an end sends at most `MaxKeepalive` of them while the
other end does not answer (the silence timeout is a few keep alive periods), and the
count starts again when the line has settled, since a keep alive period is long against
a round of the worker's loop.

### FrameCodec

A compressed frame is a sequence of counts and bytes, as in the code; a count is kept
modulo `MaxRun + 1`, so a run that is too long shows. Room in the frame is any size from
1 to `MaxData`: header sizes vary. `Turn` and `DecodeTurn` are one turn of the loops of
`ioc_compress` and `ioc_uncompress`; `Turns` and `DecodeTurns` are what these loops end
with, as recursive functions of the state of the loop (a pointer is an address or a
place, `dst` what has been stored). `Store` is what `ioc_uncompress` does with the bytes.

### MbInfo

The lower end `"L"` is an intermediate server: a device below brings a block (`AddMblk`)
and takes it away again (`DeviceDropped`, one block at a time). The upper end `"U"` creates
the blocks it is told of. `current`, `scur` and `tcur` are `sinfo.current_mblk` and the two
`mbinfo_down` pointers; a pointer is the id of what it points to. `SendRemove`, `SendInfo`
and `SendData` are the three things `ioc_connection_send` may do with a free frame, in
that order of precedence; `ReceiveInfo`, `IgnoreInfo`, `ReceiveData` and `ReceiveRemove`
are the receiver's branches. A data frame is only the id it is addressed to. The
connection upwards is one without `IOC_DYNAMIC_MBLKS`, so the lower end ignores info of a
block it does not have. Note that `ioc_remove_mblk_by_request` does not ask whether a
block is dynamic: a removal takes away an application's own block too.

### StreamerRing, StreamerFrd, StreamerTod

`StreamerRing` has the arithmetic of `ioc_streamer_read_internal` and
`ioc_streamer_write_internal`: one or two pieces, one byte of the ring always free.

In both transfer modules `dev` and `exp` are the device's streamer with its control stream
and its signals, `ctl` and `imp` the controller's; a change of signals goes into `expLine`
or `impLine` as a whole snapshot when `ioc_send` runs and into `expSeen` or `impSeen` when
`ioc_receive` does. The actions are calls: `RunControlStream` at the device (open with the
selection of the block, one call of the step machine with its loop, close and error
signalling in it), `Read` or `Write` at the controller (one `ioc_run_stream`), `OpenRead`,
`CloseRead`, `OpenWrite`, `CloseWrite`. A call works through the steps in order as the
`switch` in the code falls through; operators named for the steps (`AwaitStart`,
`TransferData`, `ControllerWaits`, ...) take and return the state of one end. `late` tells
that the timer of the step has run out. A check sum is the sequence of bytes it was computed
of. `disk` in `StreamerTod` is what the storage layer holds and how it was closed
(external).

`select` travels in `imp.sel`. The controller sets it when its transfer starts
(`selected`), the device reads it when it opens and at no other time (`opened`).

`env` is a constant of a behaviour: the content of each block, the buffer sizes, which
timers may run out and which faults happen. One run so covers undisturbed transfers, where
success is promised, and disturbed ones, where only honesty and an end are.

### Brick

The device's `StorePicture` and `StoreFrameCount` are the two halves of
`ioc_compress_brick_flat` under the lock (`storing`): `ioc_send` takes its
snapshot under the lock too, so `MaySync` refuses between the halves. `RunBrickSend`
and `RunBrickReceive` are the functions the two main loops call; `elapsed` is the ten
and the three second timer. A brick is `<<epoch, frame count>>`; header, size and check
sum fit a picture when both name the same brick.

### SerialLink

`Client1` to `Client3` and `Server1` to `Server4` are the steps of
`ioc_establish_serial_connection`; `Send` and `Receive` are the connected ends, with frame
numbers and authentication; `Fail`, `Silence`, `Restart` lead back. `Lose` and `Garble`
act on any item of a line. With `mimics` a byte of a frame left in a line may be taken
for a control character. What was sent has arrived before a timer runs out or a port is
opened or flushed: lines are prompt against timers of hundreds of milliseconds.

### Handshake

Bytes are numbers on two streams; each call finds any part of what has arrived and room
for any part of what it writes. `ClientEnd` and `ServerEnd` run the code's sequence
(mark, message, certificate, then `Authenticate` for a service). The first part of a
call that is not finished ends it; the state record keeps what the code keeps between
calls. An authentication frame is frame number, size and content. `authCut` is no variable
of the code: it remembers that a stream took a part of an authentication frame, after
which the code writes something that is no frame (section 5). Of the checks on what is
received, the upper bounds are left out (a name longer than `OSAL_NETWORK_NAME_SZ`, a frame
longer than its buffer): no instance has such sizes.

### Switchbox

`Run(s)` is one pass of the loop of either side: announcements (`Announced`), one message
from every client's ring (`Collected`), incoming headers and bytes (`Distributed`). The
sides run almost the same code (`switchbox_connection.c` and `ioc_switchbox_socket.c`). The
loops over the list of clients are recursive functions of how far they have come
(`FoundUpTo`, `AnnouncedUpTo`, `CollectedUpTo`). An id is given to a client as
`ioc_new_switchbox_client_id` does: the next number that no connection of the box has,
whatever the service and the rings still hold. How many ids there are is part of the
environment. `hung` marks the loop that never ends (see Disagreements). A header is one
item, so that a header read in two parts is not covered. Bytes name the connection they were
written to and their number there, so a mixed up stream shows.

## 3. Runs

| Run | Bounds | Shows |
|---|---|---|
| `sync` | 2 bytes of 3 values, compared ranges of 1 byte, 2 frames in the stream, 3 writes and 1 failure or 2 and 2 | `NoLostWrite`, `DeltaCoherence`, `TargetRangesCover`, `StreamInv`, `QuiescentEqual`, refinement of `SnapshotChannel`, `EventuallyEqual` |
| `flow` | mask 8, acknowledgements and frames of 1 byte, one keep alive | `InAirExact`, `RxBufferBound`, `NoLockup` |
| `codec` | every buffer of 9 bytes of 2 values, runs up to 3, frames up to 7 bytes | `CarriesRange`, `FrameFits`, `RangeArrives` |
| `mbinfo` | 3 blocks brought, names up only and up and down, an own block at the top, 2 frames each way, 1 close; devices patient and not | `NoCrossWiring`, cursors do not dangle (`TypeOK`); of patient devices `PatientRemovals`, `PatientData`, `PatientLinked` |
| `mbinfo_hasty` | 2 blocks, no close, devices at any speed | `RemovalsReachTop` is violated |
| `frd` | ring of 3, two blocks of 3 or 4 bytes each, reads of 1, 2 and 3, two transfers, 1 break | `CompletedIsWhole`, `RingHoldsUnread`, `CleanTransferSucceeds`, `TransfersEnd` |
| `tod` | ring of 2, a program and a block of 2 or 3 bytes each, two transfers, 1 break | `KeptIsWhole`, `StoredIsBeginning`, `CompletedIsKept`, `TransfersEnd` |
| `serial` | frame numbers to 4, 6 frames in a connection, 3 items in a line, 3 disturbances | `FramesInTurn`, `Reconnects` |
| `switchbox` | two clients with 2 ids or with one, rings of 2, 3, 4 and 8 items, up to 3 bytes each way, 1 break, 1 or 2 closings, 1 keep alive | `StreamsApart`, `RingsFramed` while ids are reused cleanly; `Arrives` while the lock is released |
| `switchbox_lock` | the same | `LockReleased` is violated |
| `handshake` | names of 0 to 2 characters, with and without TLS mark and certificate, any cut of the messages, streams that take all, nothing or a part of an authentication frame | `NameArrives`, `InStep`, `AuthIntact`, `Completes` |
| `brick` | frame counts to 3, request counts to 2, 2 breaks, restarts or switchings | `PicturesWhole`, `BricksKeepComing`, `CameraStops` |

Why the bounds are enough.

- `sync`: with 2 bytes a range can grow at either end and a snapshot needs two frames.
  Three values make a delta differ from its inverse. A comparison limit of 1 makes some
  writes compared and some not. Two failures allow a failure during the recovery from the
  first. The theorems of section 4 hold for every size.
- `flow`: the instance is as tight as the assumptions of the module allow, so the counters
  wrap within a few bytes, and `MaxAckInAir - MaxInAir` keeps the code's proportion of an
  unacknowledged limit and some acknowledgements. The reserve is needed: with a mask of 6,
  `AckLimit = 2`, `MaxInAir = 3` and `MaxAckInAir = 4`, a reserve of a single
  acknowledgement, TLC finds the lockup that the comment above
  `IOC_SERIAL_NRO_ACKS_TO_RESEVE` describes. `InitAck` must be beyond the bytes that can
  arrive before the first acknowledgement, and the longest frame within `MaxInAir -
  (AckLimit - 1)`; the code's sizes keep both with a wide margin.
- `codec`: nine bytes hold two full runs and a cut run; seven bytes of frame hold fewer
  bytes than the buffer. It is one transfer, which ends: deadlock is not checked.
- `mbinfo`: three blocks allow one that waits in the cursor, one that is linked, and one
  that returns under a name used before. Without devices there is nothing to do, so
  deadlock is not checked.
- `frd`, `tod`: content longer than the ring, so that it wraps and both ends wait for each
  other; a second transfer starts among the snapshots of the first. One snapshot under
  way in a direction is the worst case for age together with the one last received, since
  a later one replaces the earlier. When the last transfer has ended nothing happens.
- `serial`: the numbers wrap within a connection. `MaxFrameNr` must exceed the number of
  frames that can be lost in a row: otherwise a number comes round and a gap goes
  unnoticed, at 200 lost frames in the code. Where frames vanish, a bound on sessions
  keeps the state space finite.
- `switchbox`: a ring of two items holds one header and one byte, the least with which
  anything moves; three, four and eight leave room for two clients. Where nobody leaves,
  there are an instance in which the loop of `switchbox_lock` does hang (ring of four),
  one with space for all that is sent, and one client with a ring that is full all the
  time; `Arrives` says of the first only that all arrives unless the loop hangs. With one
  id the second client gets the id of the first. Clients are alike, the first to connect is
  called `"c1"`.
- `handshake`: the longest case has each part of a message cut in two; sizes beyond a byte
  are not reached, see Disagreements on the certificate's size.
- `brick`: frame counts to 3 is the least at which "changed" and "next" differ after a
  restart; two events allow a restart during recovery.

`mbinfo_hasty` ends in a counterexample of seven steps: bring a block, connect, send its
info, the device goes, the upper end creates the block and answers, the answer is
ignored. `ioc_generate_del_mblk_request` finds the connections to inform through the
block's buffers, and before the answer has arrived there are none; the upper end keeps
the block until the connection closes, against the purpose `ioc_remove_mblk_list.c`
states. The same race in the other direction, a block of the same name that returns
before the removal has reached the top, leaves a link to the old id. The three properties
called `Patient...` therefore speak of behaviours in which a device goes only when its
blocks are linked (or the connection is closed) and returns only when the upper end has
forgotten them. `NoCrossWiring` needs no such assumption, because ids are never used twice.

`switchbox` lets an id be given again only when it is out of use at both ends
(`CleanReuse`); the code does not look. Without the condition TLC finds, in 13 to 15
states, a client that leaves while its bytes are in the rings and another that gets its id
and reads them: `StreamsApart` fails. With 65535 ids this takes a connection that outlives
as many others.

`switchbox_lock` ends with the loop of `ioc_switchbox_run_shared_socket` repeating for ever
under the lock, with nobody leaving and the connection up: `continue` in the `do` loop over
the clients goes to `while (c != current_c)` without advancing `c`. It takes a ring that has
room for a header and a byte at the first client and none at a later one.

### Fairness

Worker threads and main loops go round for ever, and applications call `ioc_send`,
`ioc_receive` and the `run` functions repeatedly, so each of these actions is weakly
fair; writes, failures, restarts and devices coming and going are not. An end whose peer
is gone closes after the silence timeout, and `ioc_try_to_connect` is retried. Particular
cases:

- `FlowControl`: a frame is tried in the same call of `ioc_connection_send` in which an
  acknowledgement went out, so acknowledgements do not pass it by for ever: `MakeFrame` is
  strongly fair. Keep alives are never needed.
- `MbInfo`: every step of the workers, reconnecting, and closing after the peer has closed
  are weakly fair.
- `StreamerFrd`, `StreamerTod`, `Switchbox`, `Handshake`: the fairness of a call is
  written out, `[]<>~Can \/ []<><<Call>>_vars`, with `Can` the condition that a call would
  change something; this is `WF_vars(Call)`, in a form TLC evaluates without enumerating
  successors. A call whose timer has run out is strongly fair
  (`<>[]~Can \/ ...`): a timer that is waited for runs out, though the other end's may
  do so first.
- `SerialLink`: timers strongly fair, as above; nothing makes a line work, so disturbances
  are bounded instead.
- `Brick`: whoever waits for the lock gets it in the end, hence `SF` for what needs it.
  `StorePicture` is strongly fair because a camera takes many frames in the ten seconds
  after a request. The three second timer runs out only when the request before it has
  reached the device (`Settled`), and between two looks of the controller the device's count
  does not come round to the same value (`NotLapped`; the count has 16 bits). The `ENABLED`
  of these actions is cheap, so `WF` and `SF` are used as they are.

`EventuallyEqual` assumes that writes and failures stop; it is stated for the last of
them, wherever it leaves the two ends.

## 4. Proofs

| Module | Theorems | Run property shown for every size |
|---|---|---|
| `SyncBuffer_proofs` | `Invariance`, `TypeCorrect`, `WritesKept`, `DeltasCoherent`, `TargetCovers`, `StreamContinues`, `QuiescentEquality`, `ImplementsChannel` | `TypeOK`, `NoLostWrite`, `DeltaCoherence`, `TargetRangesCover`, `StreamInv`, `QuiescentEqual`, `SnapshotsInOrder` |
| `FlowControl_proofs` | `FlowInvariance`, `FlowTypeOK`, `MaskedCountsExact`, `StreamBounded`, `LoadInvariance`, `ReceiveBufferHolds` | `TypeOK`, `InAirExact`, `RxBufferBound` where the reserve is enough |
| `MbInfo_proofs` | `MbInfoInvariance`, `ListsConsistent`, `BuffersNeverCross`, `DownDataArrives`, `PatientInvariance`, `PatientDataArrives`, `PatientBlocksRemoved` | `TypeOK`, `NoCrossWiring`, `PatientData`, `PatientRemovals` |
| `StreamerFrd_proofs` | `FrdInvariance`, `CompletedTransferWhole`, `CleanInvariance`, `NothingOverwritten`, `CleanTransfersSucceed` | `CompletedIsWhole`, of devices that do not give up; `RingHoldsUnread`; `CleanTransferSucceeds`, of buffers for the whole ring |
| `StreamerTod_proofs` | `TodInvariance`, `KeptTransferWhole`, `CleanInvariance`, `StoredFollows`, `CompletedTransferKept` | `KeptIsWhole`, `StoredIsBeginning`, `CompletedIsKept` |
| `Brick_proofs` | `BrickInvariance`, `PicturesStayWhole` | `PicturesWhole` |
| `FrameCodec_proofs` | `CompressRoundTrip`, `CodecInvariance`, `RangeIsCarried`, `FramesFit`, `CompressedIsWellFormed`, `FramesAdvance` | `CarriesRange`, `FrameFits` |
| `Switchbox_proofs` | `SwitchInvariance`, `StreamsStayApart`, `RingsStayFramed` | `StreamsApart`, `RingsFramed` |

Each inductive invariant was checked with TLC on the run's instance before it was proved.
Each proof has a lemma per action, below it lemmas on what the operators of the action
return, and the theorems at the end.

### SyncBuffer

    IInv == TypeOK /\ NoLostWrite /\ DeltaCoherence /\ TargetRangesCover /\ StreamInv

is inductive for every `NBytes`, `ByteMod`, `CheckLimit` and `MaxFrames` (assumptions
`SyncOpsAssumption` and `SyncBufferAssumption`: positive sizes, a natural limit).
`DeltaCoherence` says that what the stream leads to (`Wire`) plus what is left to send is
the last snapshot. To preserve it when a frame is received, every frame in the stream must
be known to continue what the frame before it leaves (`FramesChain`), starting from the
target's newdata. `QuiescentEqual` needs in addition that the last frame in the stream
ends its snapshot when nothing is pending (`LastComplete`), or newdata might never be
published. The key frame that starts a link makes `Wire` irrelevant (`KeyframeTaken`),
which is why whatever an earlier connection left behind does no harm.

`ImplementsChannel` is the refinement of `SnapshotChannel`, step by step: every action of
`SyncBuffer` is, under the mapping of section 2, one action of the channel or a stutter.
The snapshots in transit are read off the stream by a recursive function
(`SnapshotsUpTo`); the lemmas `SnapshotsAppend` and those after it say what it gives when a
frame is added, taken or lost. That a received frame which ends a snapshot carries exactly
the snapshot the channel delivers is `FramesChain` again.

### FlowControl

The counters are known modulo `Wrap` only, so `InAirExact`, a difference of counters, is
not inductive. `FlowInv` adds, for each direction: the receiver's count is the sender's
minus the length of the stream; the counts in the acknowledgements under way, those
already applied and the receiver's own come in this order on the way back from
`bytes_sent` (`AcksInOrder`); and what is in the air plus the rest of a message half
written stays below the limit plus the keep alives (`AirBound`), hence below `Wrap`.
`Fresh` and `LastAck` cover the start, where the receiver pretends to have acknowledged
`InitAck` so that the first acknowledgement is due at once.

`FlowAssumption` has what the proof uses, and the sizes of the code satisfy it. For
serial lines `Wrap` is 65536, `InitAck` 0xA000, `MaxInAir` 200, `MaxAckInAir` 255,
`AckLimit` 40, an acknowledgement 3 bytes. For sockets `Wrap` is 2^24, `InitAck` 0xA0A000,
`AckLimit` 500, an acknowledgement 4 bytes, `MaxInAir` is 44 frames and `MaxAckInAir` 520
more. Both leave room for far more keep alives than fit in the silence timeout.

`StreamBounded` bounds the stream by `MaxAckInAir` and the keep alives on top of it, which
flow control does not hold back. That the receive buffer holds them too
(`RxBufferBound`) is a matter of the space the code keeps between `max_in_air` and
`max_ack_in_air`: `ReceiveBufferHolds` proves it where that space has room for all the
acknowledgements that can be unread, the first one, the keep alives, and one for each
`AckLimit` bytes the other end may send before it has news of them (`ReserveEnough`).
`LoadInv` counts them. A frame is made only when it fits below `max_in_air` with all that
is unread, so whatever exceeds that is acknowledgements, and each of these is a keep alive or
stands for `AckLimit` bytes acknowledged beyond what the other end knows. Reading an
acknowledgement changes what the other end knows and takes one off the count; for this to
be inductive the same is said of what is behind each acknowledgement in the stream (`Load`).
`BeyondInAir` bounds the bytes acknowledged beyond what the other end knows by what it has
in the air. `CodeReserves` in `MCFlowControl` has TLC evaluate the condition for
the sizes of the code: it holds for serial lines with up to ten keep alives unread and for
sockets with up to six (about two periods fit in the silence timeout, see `ioc_timing.h`;
with the long timeouts of a trace build there may be more, and then the proof says
nothing). The instance of the run is smaller than the condition, to leave TLC its
liveness property; there the bound is checked directly. `LoadInv` was checked with TLC on
two instances that meet the condition (limit 3, `MaxInAir` 3, `MaxAckInAir` 7).

### MbInfo

`NoCrossWiring` speaks of buffers and blocks that exist now; to be preserved it needs to
know what the ids still on the way mean. `Means(e, id, n)`: the id is not above the last
one given at `e`, and a block that has it is called `n`. `FramesOK` says it of every
info frame, `LinksOK` of the remote id of every buffer. Ids are given upwards and never
twice, so `Means` is stable (`MeansStay`) under all that happens to the blocks, closing and
connecting included. This is why the theorem needs no assumption on the order in which
removals, answers and new blocks pass each other, and why the mutant that gives the
lowest free id breaks it.

What the run says of patient devices has the stronger invariant `PatientInv`, which is
`MbInv`, `StructOK` and `DownOK`, and `UpOK` and `RemOK` in patient behaviours. `StructOK`:
a closed end has no buffers, a dynamic block of the upper end has its buffers and no
namesake, and the lower end's blocks are in the order of their ids. `DownOK`: a source
buffer of the upper end is tied to a block whose target buffer the lower end has, or will
make before it reads data, since the info is on the way or the cursor that sends it is still
ahead of the buffer. It needs no patience, and `DownDataArrives` is proved of every
behaviour. `UpOK`: what the lower end is tied to or is about to be tied to exists at the
upper end and is not about to be removed (`Pending`: asked for or on the way), and data on
the way up has its target. `RemOK`: a dynamic block of the upper end is to be removed or
still has its namesake below, because an answer is never on the way about a block that was
not announced. Patience enters at two places only: a block goes only when it is linked, so
that its removal is asked for, and it returns only when the upper end has forgotten it, so
that the removal cannot meet the new one. These are the two places of `mbinfo_hasty`.

The lists are treated as sets of elements; `WithoutFacts`,
`AdvanceFacts` and `AddRequestsType` say what the recursive list functions return. The
assumption is `MbInfoAssumption`.

### StreamerFrd and StreamerTod

The contents of the blocks, ring size, buffer sizes and faults are any; the medium between
the ends may hold any number of snapshots, and each transfer may be of another block. The
argument for both directions is that a check sum that travels is the one of the whole
content of one block or none at all, at each place where it may be: in the sender, in its
block, under way, and in the receiver's copy. For this the sender's sum has to be known to
be the one of the beginning of the content up to its position (`DevOK`, `CtlOK`). The rest
is done by the comparison at the receiver.

`CompletedTransferWhole` is stated for `"dev" \notin env.late`. A device whose timer runs
out while it waits for space closes the transfer as completed with the check sum of a
part (see section 5); that the controller still does not take it for whole depends on
what it has itself read, and is left to the run.

What an undisturbed transfer from the device promises has an invariant of its own.
`CleanInv` says that both ends are in one of five stages together (`Resting`, `Asked`,
`Flowing`, `Taken`, `Over`), and for each what the snapshots under way may hold, taken in
order from the copy at the receiver to the block itself (`ExpAt`, `ImpAt`). In `Flowing`,
the stage with the data, three facts about positions carry the proof. The bytes of any
snapshot of the ring, from the controller's tail to the head in that snapshot, are those of
the content that follow what the controller has (`Unread`). A newer snapshot has no fewer of
them. The distance from a snapshot's tail to the device's head does not grow from an older
snapshot to a newer one (`ImpGranting`), so the room the device sees, in the oldest, is no
more than there is. Positions are compared by their distance
round the ring (`Dist`, `Onward`); `HeadMoves`, `TailMoves` and `FromTail` are the
arithmetic. A snapshot that only moves on changes no stage (`StagesKept`). `CleanInv`
gives `RingHoldsUnread` as it is, and `CleanTransferSucceeds` for buffers of at least
`BufSz - 1` bytes: `ioc_run_stream` allocates that much (`ioc_dyn_stream.c:545`), and with
less the end may be lost (`ioc_streamer.c:1124` in section 5).

`KeptTransferWhole` states the run's property. What the device has stored is what it has
summed as long as no write has failed; a failed write leaves its error in the signal, where
only the polled status of a program replaces it (`WriteErrors`; `ioc_streamer.c:1546` in
section 5).

Neither theorem says that the block is the one asked for: where something disturbs a
transfer it need not be (`ioc_streamer.c:1504` in section 5). Of undisturbed ones
`CompletedTransferWhole` and `CompletedTransferKept` say it: `CleanInv` carries the
selection through the stages, since the device opens only in `Asked`, where every snapshot
with the command has it.

The undisturbed transfer to the device has a `CleanInv` of its own, with the roles of the two
signals swapped: the data and the head are the controller's, in `imp`, and the tail is the
device's, in `exp`. There are four stages, `Resting`, `Asked`, `Flowing` and `Over`; the
device opens and closes its storage in the pass in which it sees the request or the end, so
none lies between. In `Flowing` the bytes of any snapshot of the ring from the device's tail
on are those of the content that follow what the device has stored (`Unread`), and a newer
snapshot has no fewer (`FlowsTo`); the tail in a newer snapshot from the device is no further
from the controller's head (`ExpGranting`); and what the controller has sent is what the
device has stored and what is in the ring (`Level`). The mark of the end carries the head
and the check sum, so a device that sees it and an empty ring has the whole content: it
closes normally, and `Over` says that it has kept all while the controller does not know yet.
`StoredIsBeginning` follows from what the device has summed, and `CompletedIsKept` from `Over`
being the only stage in which the controller can see the device idle at the end. The
invariant was checked with TLC before its proof, with a ring of 3, two snapshots under way in
each direction and three opens.

### Brick

`BrickInv` says of the device's block, the snapshots under way and the controller's copy
that a frame count other than zero stands beside the picture it was stored for
(`BlocksWhole`). The half stored picture at the device is the exception; the lock keeps it
from being sent.

### FrameCodec

The library's induction rules cannot be instantiated, so the loops are proved about with
sets instead of predicates. `LoopExists`, `LoopTyped` and `LoopInduction` say of any loop
each turn of which makes a measure smaller (`CountsDown`): the recursive function exists,
what it gives is a state in which the loop stops, and a set of states that holds those
and goes back over every turn holds all. They rest on `LeastNat`, the well-foundedness of
the naturals. `TurnsCountDown` is the point where termination of `ioc_compress` is
proved: a turn takes at least one byte, because a literal run is empty only in front of a
zero byte.

`TurnIsMade` lists the three ways a turn may go: no room, room for the literals only, room
for both; `DecodeLast` and `DecodeBoth` say what `ioc_uncompress` reads of the last two.
`Carries(r)`: from state `r` of the loop, whatever is stored from there on is read by
`ioc_uncompress`, started at that place with any output, as the bytes that were passed
over meanwhile. It holds where the loop ends and goes back over each kind of turn
(`CarriesNoRoom`, `CarriesLiterals`, `CarriesBoth`), so it holds at the start, which is
`CompressRoundTrip`. `CodecInv` then says that the frame in the stream stands for the bytes
taken off the range since it was made, and that the target has everything before them;
`StretchJoin`, that two stretches stored one after the other are one, is what keeps a delta
from being added twice. The assumption is `CodecAssumption`: sizes are positive.

### Switchbox

`StreamsApart` is about bytes that have arrived and `RingsFramed` about one ring; what keeps
both true is all on the way. `SwitchInv` takes the outgoing ring of one side and the incoming
one of the other as one line (`Line`) and says of each line: headers and the bytes they
announce follow each other (`Framed`), with the count of bytes still due (`n`) and the
current id at the receiving end; each item has the id of the client it is for (`Owned`);
a client is announced once, before its bytes (`News`); and its bytes on the line are, in
order, exactly those between what has come and what was sent off (`Bound`, `Flow`). `Stage`
says how far each client is, so that nothing of one that has not been announced can
be on the way, and `Ends` what its rings at both sides hold.

A client that ends loses its place while its bytes are still on the line, so `Flow` is
claimed only where somebody expects the bytes (`Expects`), and completeness only while the
sender is live. That an id found in a header
is not that of another client is `Numbered`: no two clients have one id, where a client
whose id has been given to another counts as having none. Ids come round and there may be
fewer of them than clients; what the theorems assume is `CleanReuse`, that an id given again
is in use at neither end and in no ring (`CleanSpec`). `UnusedFacts` shows that then nothing
on a line is for the id, and `Renumbered` that the old client's share of the invariant is
not missed.

A pass of the loop makes many changes, so the invariant is a predicate `Good` of the values
of the variables and is proved for each intermediate state of the pass; the loops over the
clients are proved with `RecursionUpTo` and `Upwards`, the same induction with sets as above.

### Model-checked only

- Every property under fairness: `EventuallyEqual`, `NoLockup`, `RangeArrives`,
  `PatientLinked`, `TransfersEnd`, `Reconnects`, `Arrives`, `Completes`,
  `BricksKeepComing`, `CameraStops`. The prover has no rules for fairness.
- The invariants of `SerialLink` and `Handshake`, not yet proved.

## 5. Disagreements between code and comments, and limits met

Two have runs, `mbinfo_hasty` and `switchbox_lock`. The others were met while modelling;
the models do what the code does and the properties are stated so that they are about
the rest.

- `ioc_streamer.c:1640`: when the device's timer runs out while it waits for space, the
  transfer is closed as if completed; the controller notices by the check sum.
- `ioc_streamer.c:1678` asserts that all that was read from storage fits in the ring. A
  transfer cut short makes the assertion false.
- `ioc_streamer.c:1124`: a controller that reads with a buffer smaller than what the ring
  holds leaves the data phase as soon as it sees COMPLETED, and loses the end. One
  environment of `frd` reads that way: its transfers fail, none is taken for complete.
- `ioc_streamer.c:1504` and `1559`: the device reads `select` only when it opens a block. A
  controller that releases its stream and asks for another block before a snapshot with
  IDLE was sent finds the device still at the first block, and takes the whole of that for
  the second: check sum and status are right. (Stated as an invariant, TLC shows it in 20
  steps.) In the other direction the device stores the content of the second block as the
  first. `CompletedIsWhole` and `KeptIsWhole` say that it is the content of one block, not a
  mix; which block, only where nothing disturbs.
- `ioc_streamer.c:947`: the controller reports COMPLETED for a write which the device had
  interrupted after the last byte went into the ring. `ioc_streamer.c:1837` tells the
  device's application BLOCK_WRITTEN for an interrupted transfer too.
  `CompletedIsKept` is therefore stated for undisturbed transfers.
- `ioc_streamer.c:1546`: `get_device_programming_status` is polled while the next transfer
  runs and writes its result to the error signal of that transfer. A block that follows a
  program and whose write fails is so stored in part, closed normally and shown with
  COMPLETED instead of WRITING_FILE_FAILED. `KeptIsWhole` names this case.
- `ioc_switchbox_socket.c:1096`: the message of a dropped client is compared with
  `incoming_client_id`, the id of the last data message, not of this one: another client
  may be dropped. `StreamsApart` holds all the same; `Arrives` is about behaviours
  in which nobody leaves, and in which the loop of `switchbox_lock` does not hang.
- `switchbox_root.c:228`: "Unique (unused) client ID" looks at the connections of the box
  only, not at the service's nor at messages on their way; see `CleanReuse` in section 3.
- `ioc_switchbox_auth_frame.c:79`: after a partial write the rest of an authentication
  frame is written from the buffer's beginning. In `handshake` streams do take parts of a
  frame; `AuthIntact`, `InStep` and `Completes` say that they are about frames written as a
  whole (`FramesUncut`). Without that, TLC finds an end that takes something else for the
  frame after four calls.
- `ioc_handshake.c:644`: the second byte of the certificate's size replaces the first.
  All callers pass FALSE for the certificate request; the certificate of the instance is
  empty.
- `ioc_brick.c:117`: "previous has been processed", but the flag stays set after a
  brick was stored. `ioc_brick.c:391`: an uncompressed flat brick is refused because the
  buffer size is zero at that point.
- A whole authentication frame lost on a serial line leaves both ends connected and
  waiting for each other; acknowledgements keep them alive. `Reconnects` is about lines
  that lose less than a frame.
- In the switchbox `current_individual_socket_ix` only counts up, and two services with the
  same name put an end to each other.

## 6. Plan

In this order:

1. Proofs: `InStep` and `NameArrives` of `Handshake`; `FramesInTurn` of `SerialLink`.
2. `MbInfo`, extended: two connections to one block (the old target buffer is dropped),
   resize on info, cloud connections and their cursor, an upward connection that creates
   blocks.
3. Worker start and termination, end point.
4. Bidirectional blocks and relays: one block that is target of one connection and source
   of another (`ioc_receive` invalidates the source buffers), built from `SyncOps`.
5. Handles, root event queue, dynamic block queue, automatic device numbers, memory pool.
6. Persistent writer, gazerbeam, signals as pure operators.

## 7. Not modelled

- Bidirectional change bits, `IOC_STATIC` blocks, resizing, and string and byte-order
  variants of reads and writes of a memory block.
- In block info: cloud connections and two connections to one block at a time (their
  hazards are listed, without a property).
- The start and stop of worker threads, the end point, the root's event queue, handles,
  automatic device numbers, the static memory pool: next in the plan.
- The ring variant of the brick buffer is a client of the streamer; JPEG quality control
  is arithmetic on floating point numbers.
- Signals and signal addresses, parameters, nick names, lighthouse and gazerbeam are
  formats and conversions with little state.
- The io server's authorisation and persistent writer, the node configuration and the IO
  board helper are sequential programs over files and JSON.
- Operating system layers (eosal), TLS, JSON configuration, directory listings and the
  Python binding hold no protocol state.
- Most lines of the repository are none of these: retired examples with vendor headers,
  board support, generated signal tables and example applications. There is no logic
  of iocom in them to model.

`PROJECT.json` lists every part with its status.
