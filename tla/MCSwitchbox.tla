---------------------------- MODULE MCSwitchbox ----------------------------
(* Switchbox with bounded disturbances.                                    *)
EXTENDS Switchbox

CONSTANTS MaxBreaks, MaxKeepAlives

VARIABLES breaks, leaves, keepAlives

mcvars == <<vars, breaks, leaves, keepAlives>>

\* leaves: how many times an end of a connection is closed by its user.
MCEnvironments == {
    \* Two clients, one of which may leave, and a shared connection that breaks.
    [clients |-> {"c1", "c2"}, ids |-> 2, cap |-> 3, conCap |-> 1, send |-> 1, disturbed |-> TRUE,
     leaves |-> 1, idle |-> FALSE],
    \* One id for two clients: the second can have it when the first is over.
    [clients |-> {"c1", "c2"}, ids |-> 1, cap |-> 4, conCap |-> 1, send |-> 1, disturbed |-> TRUE,
     leaves |-> 2, idle |-> FALSE],
    \* Two clients at work, with little space and with space for all they send.
    [clients |-> {"c1", "c2"}, ids |-> 2, cap |-> 4, conCap |-> 1, send |-> 1, disturbed |-> FALSE,
     leaves |-> 0, idle |-> FALSE],
    [clients |-> {"c1", "c2"}, ids |-> 2, cap |-> 8, conCap |-> 1, send |-> 1, disturbed |-> FALSE,
     leaves |-> 0, idle |-> FALSE],
    \* One client whose bytes go one at a time through a ring that is full.
    [clients |-> {"c1"}, ids |-> 1, cap |-> 2, conCap |-> 2, send |-> 3, disturbed |-> FALSE,
     leaves |-> 0, idle |-> TRUE]}

MCInit == Init /\ breaks = 0 /\ leaves = 0 /\ keepAlives = 0

Quiet == \/ Relink
         \/ \E s \in Side : Run(s) \/ Transfer(s)
         \/ \E c \in Client : UserStep(c)

\* Clients are alike: "c1" is the one that connects first.
InOrder == con'["box"]["c2"].st # "none" => con["box"]["c1"].st # "none"

MCNext ==
    \/ Quiet /\ InOrder /\ CleanReuse /\ UNCHANGED <<breaks, leaves, keepAlives>>
    \/ /\ breaks < MaxBreaks /\ breaks' = breaks + 1
       /\ \E s \in Side : Break(s)
       /\ UNCHANGED <<leaves, keepAlives>>
    \/ /\ leaves < env.leaves /\ leaves' = leaves + 1
       /\ \E c \in Client : Leave(c) \/ CloseSocket(c)
       /\ UNCHANGED <<breaks, keepAlives>>
    \/ /\ keepAlives < MaxKeepAlives /\ keepAlives' = keepAlives + 1
       /\ \E s \in Side : SendKeepAlive(s)
       /\ UNCHANGED <<breaks, leaves>>

MCSpec == MCInit /\ [][MCNext]_mcvars
FairSpec == MCSpec /\ Fairness
=============================================================================
