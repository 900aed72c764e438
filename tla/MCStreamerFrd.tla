---------------------------- MODULE MCStreamerFrd ---------------------------
(***************************************************************************)
(* Model-checking instance of StreamerFrd.  MaxOpens bounds how many       *)
(* transfers the controller starts, MaxBreaks how often the connection is  *)
(* lost.                                                                   *)
(***************************************************************************)
EXTENDS StreamerFrd

CONSTANTS MaxOpens, MaxBreaks

VARIABLES opens, breaks

mcVars == <<vars, opens, breaks>>

\* Block 1 is a persistent block, 2 the default configuration; each has n bytes
\* that are in no other.
MCContent(n) == [b \in Block |-> IF b = 0 THEN <<>> ELSE [i \in 1 .. n |-> 10 * b + i]]

MCEnvironments == {
    \* Undisturbed, more than the ring holds at a time.
    [content |-> MCContent(4), sizes |-> {2, 3}, late |-> {}, prompt |-> FALSE, faults |-> {}],
    \* The controller gives up at any time, storage and connection fail.
    [content |-> MCContent(3), sizes |-> {2}, late |-> {"ctl"}, prompt |-> FALSE,
     faults |-> {"read", "interrupt", "break"}],
    \* The same with a buffer smaller than the ring, and a block that is not there.
    [content |-> MCContent(3), sizes |-> {1}, late |-> {"ctl"}, prompt |-> FALSE,
     faults |-> {"open", "interrupt"}],
    \* Timers run out when nothing else can happen.
    [content |-> MCContent(3), sizes |-> {2}, late |-> {"dev", "ctl"}, prompt |-> TRUE,
     faults |-> {"open", "interrupt"}]}

MCInit == Init /\ opens = 0 /\ breaks = 0

\* The first transfer is of block 1.
MCOpen ==
    /\ opens < MaxOpens /\ opens' = opens + 1
    /\ Open /\ (opens = 0 => selected' = 1)
    /\ UNCHANGED breaks

MCBreak == breaks < MaxBreaks /\ Break /\ breaks' = breaks + 1 /\ UNCHANGED opens

MCWork ==
    /\ Device \/ Controller \/ CloseRead \/ Blocks \/ Notice \/ Relink
    /\ UNCHANGED <<opens, breaks>>

MCNext == MCOpen \/ MCBreak \/ MCWork

MCSpec == MCInit /\ [][MCNext]_mcVars

MCLiveSpec == MCSpec /\ Fairness
=============================================================================
