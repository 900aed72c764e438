-------------------------- MODULE SnapshotChannel --------------------------
(***************************************************************************)
(* What ioc_send and ioc_receive promise, without buffers, frames, deltas  *)
(* or key frames: ioc_send publishes the whole memory block as a snapshot, *)
(* snapshots arrive one by one in the order they were published, and       *)
(* ioc_receive makes the last arrived snapshot, as a whole, the value of   *)
(* the memory block at the other end.  Losing the connection loses         *)
(* snapshots from the end of the line, never one in the middle.            *)
(***************************************************************************)
EXTENDS Sequences, Naturals

CONSTANT Images       \* values of a whole memory block

VARIABLES src,        \* memory block at the source
          transit,    \* published snapshots that have not arrived
          rcv,        \* last arrived snapshot
          tgt         \* memory block at the target

chVars == <<src, transit, rcv, tgt>>

ChInit == /\ src \in Images
          /\ transit = <<>>
          /\ tgt \in Images
          /\ rcv = tgt

ChWrite == /\ src' \in Images
           /\ UNCHANGED <<transit, rcv, tgt>>

Publish == /\ transit' = Append(transit, src)
           /\ UNCHANGED <<src, rcv, tgt>>

Arrive == /\ transit # <<>>
          /\ rcv' = Head(transit)
          /\ transit' = Tail(transit)
          /\ UNCHANGED <<src, tgt>>

Obtain == /\ tgt' = rcv
          /\ UNCHANGED <<src, transit, rcv>>

\* The source's end closes: snapshots it had not sent in full are lost.
LoseTail == /\ \E n \in 0 .. Len(transit) : transit' = SubSeq(transit, 1, n)
            /\ UNCHANGED <<src, rcv, tgt>>

\* The target's end closes: what has not been obtained is lost.
LoseAll == /\ transit' = <<>>
           /\ rcv' = tgt
           /\ UNCHANGED <<src, tgt>>

\* Only snapshots sent or being sent when the target closed can be lost: one
\* still being sent by the source stays in the line.
LoseArrived == /\ \E n \in 0 .. Len(transit) :
                    transit' = SubSeq(transit, n + 1, Len(transit))
               /\ rcv' = tgt
               /\ UNCHANGED <<src, tgt>>

ChNext == ChWrite \/ Publish \/ Arrive \/ Obtain \/ LoseTail \/ LoseAll
            \/ LoseArrived

ChSpec == ChInit /\ [][ChNext]_chVars
============================================================================
