---------------------------- MODULE MCStreamerTod ---------------------------
(***************************************************************************)
(* Model-checking instance of StreamerTod.  MaxOpens bounds how many       *)
(* transfers the controller starts, MaxBreaks how often the connection is  *)
(* lost.                                                                   *)
(***************************************************************************)
EXTENDS StreamerTod

CONSTANTS MaxOpens, MaxBreaks

VARIABLES opens, breaks

mcVars == <<vars, opens, breaks>>

\* Block 1 is the program.
MCContent == [b \in Block |-> CASE b = 1 -> <<1, 2>> [] b = 2 -> <<3, 4>> [] OTHER -> <<>>]

MCEnvironments == {
    \* Undisturbed, more than the ring holds.
    [content |-> [b \in Block |-> CASE b = 1 -> <<1, 2, 3>> [] b = 2 -> <<4, 5>> [] OTHER -> <<>>],
     blocks |-> {1, 2}, late |-> {}, prompt |-> FALSE, faults |-> {}],
    \* A persistent block: the application interrupts, the connection breaks.
    [content |-> MCContent, blocks |-> {2}, late |-> {}, prompt |-> FALSE,
     faults |-> {"interrupt", "break"}],
    \* A program and a block: writes fail, the application interrupts.
    [content |-> MCContent, blocks |-> {1, 2}, late |-> {}, prompt |-> FALSE,
     faults |-> {"write", "interrupt"}],
    \* Timers run out when nothing else can happen.
    [content |-> MCContent, blocks |-> {2}, late |-> {"dev", "ctl"}, prompt |-> TRUE,
     faults |-> {"open", "interrupt"}]}

MCInit == Init /\ opens = 0 /\ breaks = 0

MCOpen == opens < MaxOpens /\ Open /\ opens' = opens + 1 /\ UNCHANGED breaks

MCBreak == breaks < MaxBreaks /\ Break /\ breaks' = breaks + 1 /\ UNCHANGED opens

MCWork ==
    /\ Device \/ Controller \/ CloseWrite \/ Blocks \/ Notice \/ Relink
    /\ UNCHANGED <<opens, breaks>>

MCNext == MCOpen \/ MCBreak \/ MCWork

MCSpec == MCInit /\ [][MCNext]_mcVars

MCLiveSpec == MCSpec /\ Fairness
=============================================================================
