------------------------------ MODULE MCMbInfo ------------------------------
(***************************************************************************)
(* Model-checking instance of MbInfo.  MaxAdds bounds how many blocks      *)
(* devices bring and MaxCloses how often an end closes on its own.         *)
(* patient: a device goes away only when the upper end's answer to its     *)
(* blocks has arrived, and comes back only when the upper end has removed  *)
(* them; Patience holds the values it may have.  The upper end has a block *)
(* "y" of its own.                                                         *)
(***************************************************************************)
EXTENDS MbInfo

CONSTANTS MaxAdds, MaxCloses, Patience

VARIABLES closes, patient

mcVars == <<vars, closes, patient>>

MCOwnNames == <<"y">>

Answered(id) ==
    \/ ~open["L"]
    \/ /\ CanSend("L", NameOf("L", id)) => id \in Ids(sbuf["L"])
       /\ CanReceive("L", NameOf("L", id)) => id \in Ids(tbuf["L"])

Forgotten(n) ==
    /\ \A id \in Ids(sbuf["U"]) \union Ids(tbuf["U"]) : NameOf("U", id) # n
    /\ \A f \in Range(line["U"]) : f.t = "info" => f.name # n

MCInit == Init /\ closes = 0 /\ patient \in Patience

MCAdd == /\ lastId["L"] < MaxAdds
         /\ \E n \in Names : (patient => Forgotten(n)) /\ AddMblk(n)
         /\ UNCHANGED <<closes, patient>>

MCDrop == /\ \E id \in Ids(mblk["L"]) :
                (patient => Answered(id)) /\ DeviceDropped(id)
          /\ UNCHANGED <<closes, patient>>

MCSend == /\ \E e \in End : \E i \in DOMAIN sbuf[e] : Send(e, i)
          /\ UNCHANGED <<closes, patient>>

MCClose == /\ closes < MaxCloses /\ closes' = closes + 1
           /\ \E e \in End : Close(e)
           /\ UNCHANGED patient

MCFollow == /\ \E e \in End : ~open[Other(e)] /\ Close(e)
            /\ UNCHANGED <<closes, patient>>

MCWork == (Work \/ Connect) /\ UNCHANGED <<closes, patient>>

MCNext == MCAdd \/ MCDrop \/ MCSend \/ MCClose \/ MCFollow \/ MCWork

MCSpec == MCInit /\ [][MCNext]_mcVars

MCLiveSpec == MCSpec /\ Fairness

----------------------------------------------------------------------------
\* Of patient devices: a removed block is gone at the upper end too
\* (ioc_generate_del_mblk_request).
PatientRemovals == patient => RemovalsReachTop

\* Of patient devices: no data frame is dropped by
\* ioc_process_received_data_frame as "data for unlinked memory block".
PatientData == patient => DataFindsTarget

\* Of patient devices: once devices and connections stay, every block becomes
\* linked both ways, whatever the cursors of ioc_get_mbinfo_to_send went
\* through before.
PatientLinked == patient => EventuallyLinked
=============================================================================
