--------------------------- MODULE MCFlowControl ---------------------------
(* Model-checking instance of FlowControl; the bounds are in the cfg.      *)
EXTENDS FlowControl

\* The sizes of the code (ioc_connection.h) keep enough space for a serial line
\* with up to 10 keep alives unread, and for a socket with up to 6.
ASSUME CodeReserves ==
    /\ Reserve(3, 40, 200, 255, 10)
    /\ \A frame \in {464, 1392} : Reserve(4, 500, 44 * frame, 44 * frame + 520, 6)
============================================================================
