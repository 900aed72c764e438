--------------------------- MODULE MCFrameCodec ---------------------------
(***************************************************************************)
(* Model-checking instance of FrameCodec: every delta buffer of NBytes     *)
(* bytes and every pending range in it, onto one target buffer.  A         *)
(* behaviour is the transfer of one snapshot and ends with it.             *)
(***************************************************************************)
EXTENDS FrameCodec

\* What the target had before: not zero anywhere, so that a zero run of a
\* key frame and one of a delta frame differ.
MCInit == Init /\ base = [a \in Addr |-> 1]

MCSpec == MCInit /\ [][Next]_vars /\ Fairness
=============================================================================
