---------------------------- MODULE MCSerialLink ----------------------------
(* SerialLink with a bounded number of disturbances.                       *)
EXTENDS SerialLink

CONSTANTS MaxDisturbs, MaxSessions

VARIABLE disturbs   \* restarts, lost and garbled items and refusals so far

mcvars == <<vars, disturbs>>

Disturbance == Refuse \/ \E e \in End : Disturb(e)

MCEnvironments == {
    [clientUp |-> FALSE, loseFrames |-> TRUE, mimics |-> TRUE],
    [clientUp |-> TRUE, loseFrames |-> FALSE, mimics |-> FALSE]}

MCInit == Init /\ disturbs = 0

\* Where frames vanish the ends may connect again and again.
FewSessions == env.loseFrames => sessions' <= MaxSessions

MCNext ==
    \/ Undisturbed /\ FewSessions /\ UNCHANGED disturbs
    \/ disturbs < MaxDisturbs /\ Disturbance /\ disturbs' = disturbs + 1

MCSpec == MCInit /\ [][MCNext]_mcvars
FairSpec == MCSpec /\ Fairness
=============================================================================
