---------------------------- MODULE MCSyncBuffer ----------------------------
(***************************************************************************)
(* Model-checking instance of SyncBuffer.  A budget bounds how often the   *)
(* application writes and how often an end of the connection goes down;    *)
(* everything else is unbounded.  Memory blocks start cleared, as          *)
(* ioc_initialize_memory_block leaves them.                                *)
(***************************************************************************)
EXTENDS SyncBuffer

CONSTANT Budgets

MCBudgets == {[writes |-> 3, drops |-> 1], [writes |-> 2, drops |-> 2]}

VARIABLES writes, drops   \* what is left

mcVars == <<vars, writes, drops>>

MCInit == /\ Init
          /\ smblk = [a \in Addr |-> 0] /\ tmblk = [a \in Addr |-> 0]
          /\ \E b \in Budgets : writes = b.writes /\ drops = b.drops

MCWrite == /\ writes > 0 /\ writes' = writes - 1
           /\ \E r \in AddrRange : \E v \in [In(r) -> Byte] : Write(r, v)
           /\ UNCHANGED drops

\* An end goes down on its own; the other end follows without a budget.
MCDrop == /\ drops > 0 /\ drops' = drops - 1
          /\ \/ ResetSource
             \/ ResetTarget
             \/ scon # "reset" /\ CloseSource
             \/ tcon # "reset" /\ CloseTarget
          /\ UNCHANGED writes

MCFollow == /\ \/ scon = "reset" /\ CloseSource
               \/ tcon = "reset" /\ CloseTarget
               \/ tcon \in {"closed", "reset"} /\ CloseSource
               \/ scon \in {"closed", "reset"} /\ CloseTarget
            /\ UNCHANGED <<writes, drops>>

MCOther == /\ \/ Send
              \/ \E n \in 1 .. NBytes : MakeDataFrame(n)
              \/ LinkSource
              \/ ReceiveDataFrame
              \/ LinkTarget
              \/ Receive
              \/ Connect
           /\ UNCHANGED <<writes, drops>>

MCNext == MCWrite \/ MCDrop \/ MCFollow \/ MCOther

MCSpec == MCInit /\ [][MCNext]_mcVars

MCLiveSpec == MCSpec /\ Fairness
============================================================================
