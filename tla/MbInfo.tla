------------------------------- MODULE MbInfo -------------------------------
(***************************************************************************)
(* How memory blocks of the two ends of a connection find each other:      *)
(* memory block info, the source and target buffers it creates, and the    *)
(* requests that remove blocks again.  "L" is the lower end, which         *)
(* connects up (IOC_CONNECT_UP); its blocks come and go with the devices   *)
(* below it.  "U" is the upper end, which creates blocks it does not have  *)
(* (IOC_DYNAMIC_MBLKS).                                                    *)
(*                                                                         *)
(* A buffer is a link: id of the block here, rid = remote_mblk_id, and for *)
(* a source buffer used = syncbuf.used.  What the data is, is modelled in  *)
(* SyncBuffer; here a data frame is the id it is addressed to.             *)
(***************************************************************************)
EXTENDS Integers, Sequences, SequencesExt

CONSTANTS UpNames,     \* names of blocks with IOC_MBLK_UP
          DownNames,   \* names of blocks with IOC_MBLK_DOWN
          OwnNames,    \* sequence of the names of U's own blocks
          PackN,       \* IOC_PACK_N_REQUESTS
          MaxFrames    \* frames of one direction in the stream

ASSUME MbInfoAssumption ==
    /\ OwnNames \in Seq(UpNames \union DownNames)
    /\ PackN \in Nat \ {0} /\ MaxFrames \in Nat \ {0}

Names == UpNames \union DownNames
End == {"L", "U"}
Other(e) == IF e = "L" THEN "U" ELSE "L"

VARIABLES mblk,      \* memory blocks of an end, in the order of root->mblk
          lastId,    \* root->next_unique_mblk_id - 1
          sbuf,      \* con->sbuf: source buffers of an end, in order
          tbuf,      \* con->tbuf
          current,   \* L: con->sinfo.current_mblk, 0 = NULL
          scur,      \* U: block of con->sbuf.mbinfo_down, 0 = NULL
          tcur,      \* U: block of con->tbuf.mbinfo_down, 0 = NULL
          reqs,      \* L: con->del_mlk_req_list
          line,      \* frames an end has sent and the other has not read
          open       \* whether an end has the stream open

cursors == <<current, scur, tcur>>
vars == <<mblk, lastId, sbuf, tbuf, current, scur, tcur, reqs, line, open>>

\* Block flags against the direction of the connection.
CanSend(e, n) == n \in (IF e = "L" THEN UpNames ELSE DownNames)
CanReceive(e, n) == n \in (IF e = "L" THEN DownNames ELSE UpNames)

Ids(list) == {list[i].id : i \in 1 .. Len(list)}

\* The elements of a list that are not gone, in order.
KeptUpTo(list, gone) ==
    LET kept[k \in 0 .. Len(list)] ==
            IF k = 0 THEN <<>>
            ELSE IF list[k].id \in gone THEN kept[k - 1]
            ELSE Append(kept[k - 1], list[k])
    IN  kept
Without(list, gone) == KeptUpTo(list, gone)[Len(list)]

\* Mutant of Advance: the cursor is left where it is.
StayAt(list, cur, gone) == cur

\* Where a cursor at "cur" is when the elements "gone" of the list are done
\* or deleted.
Advance(list, cur, gone) ==
    LET kept == {i \in 1 .. Len(list) :
                    /\ \E j \in 1 .. i : list[j].id = cur
                    /\ list[i].id \notin gone}
    IN  IF kept = {} THEN 0
        ELSE list[CHOOSE i \in kept : \A j \in kept : i <= j].id

\* Mutant of UniqueId: the lowest number that no block has.
LowestFreeId(e) == CHOOSE i \in 1 .. Len(mblk[e]) + 1 :
                      /\ i \notin Ids(mblk[e])
                      /\ \A j \in 1 .. i - 1 : j \in Ids(mblk[e])

\* ioc_get_unique_mblk_id.
UniqueId(e) == lastId[e] + 1

Init ==
    /\ mblk = [e \in End |->
                 IF e = "L" THEN <<>>
                 ELSE [i \in 1 .. Len(OwnNames) |->
                         [id |-> i, name |-> OwnNames[i], dyn |-> FALSE]]]
    /\ lastId = [e \in End |-> IF e = "L" THEN 0 ELSE Len(OwnNames)]
    /\ sbuf = [e \in End |-> <<>>] /\ tbuf = [e \in End |-> <<>>]
    /\ current = 0 /\ scur = 0 /\ tcur = 0
    /\ reqs = <<>>
    /\ line = [e \in End |-> <<>>]
    /\ open = [e \in End |-> FALSE]

----------------------------------------------------------------------------
(* Blocks of the lower end.                                                *)

\* Mutant of CursorToNew: the cursor moves to the new block.
CursorToNewAlways(id) == id

\* ioc_add_mblk_to_global_mbinfo: blocks before the new one come first.
CursorToNew(id) == IF current = 0 THEN id ELSE current

\* ioc_initialize_memory_block: a device's block appears.
AddMblk(n) ==
    /\ \A b \in Range(mblk["L"]) : b.name # n
    /\ LET id == UniqueId("L")
       IN  /\ mblk' = [mblk EXCEPT !["L"] = Append(@, [id |-> id, name |-> n, dyn |-> TRUE])]
           /\ lastId' = [lastId EXCEPT !["L"] = id]
           /\ current' = CursorToNew(id)
    /\ UNCHANGED <<sbuf, tbuf, scur, tcur, reqs, line, open>>

\* ioc_add_request_to_remove_mblk.
AddRequest(p, id) ==
    IF p # <<>> /\ Len(p[Len(p)]) < PackN
    THEN [p EXCEPT ![Len(p)] = Append(@, id)]
    ELSE Append(p, <<id>>)

\* Requests for each id of the sequence.
RequestsUpTo(q, ids) ==
    LET add[k \in 0 .. Len(ids)] == IF k = 0 THEN q ELSE AddRequest(add[k - 1], ids[k])
    IN  add
AddRequests(q, ids) == RequestsUpTo(q, ids)[Len(ids)]

RemoteIds(list, id) ==
    LET ls == Without(list, Ids(list) \ {id})
    IN  [i \in 1 .. Len(ls) |-> ls[i].rid]

\* Mutant of DelRequests: source buffers are forgotten.
DelRequestsTargetOnly(id) == AddRequests(reqs, RemoteIds(tbuf["L"], id))

\* ioc_generate_del_mblk_request: a request for each buffer of the block.
DelRequests(id) ==
    AddRequests(reqs, RemoteIds(sbuf["L"], id) \o RemoteIds(tbuf["L"], id))

\* ioc_free_source_and_target_bufs of the connection to the device below:
\* requests to the upper end, then ioc_release_memory_block.
DeviceDropped(id) ==
    /\ id \in Ids(mblk["L"])
    /\ reqs' = DelRequests(id)
    /\ current' = Advance(mblk["L"], current, {id})
    /\ mblk' = [mblk EXCEPT !["L"] = Without(@, {id})]
    /\ sbuf' = [sbuf EXCEPT !["L"] = Without(@, {id})]
    /\ tbuf' = [tbuf EXCEPT !["L"] = Without(@, {id})]
    /\ UNCHANGED <<lastId, scur, tcur, line, open>>

----------------------------------------------------------------------------
(* ioc_connection_send.                                                    *)

MayPut(e) == open[e] /\ Len(line[e]) < MaxFrames

\* A frame to an end that has closed is lost.
Put(e, f) == line' = [line EXCEPT ![e] = IF open[Other(e)] THEN Append(@, f) ELSE @]

NothingToRemove(e) == e = "U" \/ reqs = <<>>

\* ioc_get_mbinfo_to_send.
InfoTurn(e) == IF e = "L" THEN current
               ELSE IF scur # 0 THEN scur ELSE tcur

SendRemove ==
    /\ MayPut("L") /\ reqs # <<>>
    /\ Put("L", [t |-> "remove", ids |-> reqs[1]])
    /\ reqs' = Tail(reqs)
    /\ UNCHANGED <<mblk, lastId, sbuf, tbuf, open>> /\ UNCHANGED cursors

\* ioc_make_mblk_info_frame and ioc_mbinfo_sent.
SendInfo(e) ==
    /\ MayPut(e) /\ NothingToRemove(e)
    /\ InfoTurn(e) # 0
    /\ LET id == InfoTurn(e)
           b == CHOOSE x \in Range(mblk[e]) : x.id = id
       IN  /\ Put(e, [t |-> "info", id |-> id, name |-> b.name])
           /\ current' = IF e = "L" THEN Advance(mblk["L"], id, {id}) ELSE current
           /\ scur' = IF e = "U" /\ scur = id THEN Advance(sbuf["U"], id, {id}) ELSE scur
           /\ tcur' = IF e = "U" /\ tcur = id THEN Advance(tbuf["U"], id, {id}) ELSE tcur
    /\ UNCHANGED <<mblk, lastId, sbuf, tbuf, reqs, open>>

\* Mutant of DataTurn: data goes before memory block info.
DataTurnAny(e) == NothingToRemove(e)

\* Data is sent only when no request and no info waits.
DataTurn(e) == NothingToRemove(e) /\ InfoTurn(e) = 0

SendData(e, i) ==
    /\ MayPut(e) /\ DataTurn(e)
    /\ i \in DOMAIN sbuf[e] /\ sbuf[e][i].used
    /\ Put(e, [t |-> "data", id |-> sbuf[e][i].rid])
    /\ sbuf' = [sbuf EXCEPT ![e][i].used = FALSE]
    /\ UNCHANGED <<mblk, lastId, tbuf, reqs, open>> /\ UNCHANGED cursors

\* ioc_send of a changed block.
Send(e, i) ==
    /\ i \in DOMAIN sbuf[e]
    /\ sbuf' = [sbuf EXCEPT ![e][i].used = TRUE]
    /\ UNCHANGED <<mblk, lastId, tbuf, reqs, line, open>> /\ UNCHANGED cursors

----------------------------------------------------------------------------
(* ioc_connection_receive.                                                 *)

Incoming(e, t) ==
    /\ open[e] /\ line[Other(e)] # <<>>
    /\ Head(line[Other(e)]).t = t
Take(e) == line' = [line EXCEPT ![Other(e)] = Tail(@)]

\* "Memory block already has source buffer for the connection".
Linked(list, id) == id \in Ids(list)

\* ioc_mbinfo_received for a block this end has or creates:
\* ioc_mbinfo_new_sbuf and ioc_mbinfo_new_tbuf.  U must answer with info.
ReceiveInfo(e) ==
    /\ Incoming(e, "info") /\ Take(e)
    /\ LET f == Head(line[Other(e)])
           same == {b \in Range(mblk[e]) : b.name = f.name}
           b == IF same # {} THEN CHOOSE x \in same : TRUE
                ELSE [id |-> UniqueId(e), name |-> f.name, dyn |-> TRUE]
           newS == CanSend(e, b.name) /\ ~Linked(sbuf[e], b.id)
           newT == CanReceive(e, b.name) /\ ~Linked(tbuf[e], b.id)
       IN  /\ same # {} \/ e = "U"
           /\ IF same # {} THEN UNCHANGED <<mblk, lastId>>
              ELSE /\ mblk' = [mblk EXCEPT ![e] = Append(@, b)]
                   /\ lastId' = [lastId EXCEPT ![e] = b.id]
           /\ sbuf' = IF ~newS THEN sbuf
                      ELSE [sbuf EXCEPT ![e] =
                              Append(@, [id |-> b.id, rid |-> f.id, used |-> TRUE])]
           /\ tbuf' = IF ~newT THEN tbuf
                      ELSE [tbuf EXCEPT ![e] = Append(@, [id |-> b.id, rid |-> f.id])]
           /\ scur' = IF newS /\ e = "U" /\ scur = 0 THEN b.id ELSE scur
           /\ tcur' = IF newT /\ e = "U" /\ tcur = 0 THEN b.id ELSE tcur
    /\ UNCHANGED <<current, reqs, open>>

\* "No matching memory block": the lower end does not create blocks.
IgnoreInfo ==
    /\ Incoming("L", "info") /\ Take("L")
    /\ \A b \in Range(mblk["L"]) : b.name # Head(line["U"]).name
    /\ UNCHANGED <<mblk, lastId, sbuf, tbuf, reqs, open>> /\ UNCHANGED cursors

\* ioc_process_received_data_frame; what it stores is in SyncBuffer.
ReceiveData(e) ==
    /\ Incoming(e, "data") /\ Take(e)
    /\ UNCHANGED <<mblk, lastId, sbuf, tbuf, reqs, open>> /\ UNCHANGED cursors

\* ioc_process_remove_mblk_req_frame: blocks with a buffer on this
\* connection are released.
ReceiveRemove ==
    /\ Incoming("U", "remove") /\ Take("U")
    /\ LET gone == Range(Head(line["L"]).ids)
                     \intersect (Ids(sbuf["U"]) \union Ids(tbuf["U"]))
       IN  /\ mblk' = [mblk EXCEPT !["U"] = Without(@, gone)]
           /\ sbuf' = [sbuf EXCEPT !["U"] = Without(@, gone)]
           /\ tbuf' = [tbuf EXCEPT !["U"] = Without(@, gone)]
           /\ scur' = Advance(sbuf["U"], scur, gone)
           /\ tcur' = Advance(tbuf["U"], tcur, gone)
    /\ UNCHANGED <<lastId, current, reqs, open>>

----------------------------------------------------------------------------
(* The connection.                                                         *)

\* Both ends connected; ioc_add_con_to_global_mbinfo at the lower end.
Connect ==
    /\ \A e \in End : ~open[e]
    /\ open' = [e \in End |-> TRUE]
    /\ line' = [e \in End |-> <<>>]
    /\ current' = IF mblk["L"] = <<>> THEN 0 ELSE mblk["L"][1].id
    /\ UNCHANGED <<mblk, lastId, sbuf, tbuf, scur, tcur, reqs>>

\* ioc_reset_connection_state, ioc_free_source_and_target_bufs and
\* ioc_mbinfo_con_is_closed.  Dynamic blocks of the lower end stay, they are
\* attached to a device below; those of the upper end go.
Close(e) ==
    /\ open[e]
    /\ open' = [open EXCEPT ![e] = FALSE]
    /\ line' = [line EXCEPT ![Other(e)] = <<>>]
    /\ sbuf' = [sbuf EXCEPT ![e] = <<>>] /\ tbuf' = [tbuf EXCEPT ![e] = <<>>]
    /\ IF e = "L"
       THEN reqs' = <<>> /\ current' = 0 /\ UNCHANGED <<mblk, scur, tcur>>
       ELSE /\ scur' = 0 /\ tcur' = 0
            /\ mblk' = [mblk EXCEPT !["U"] = Without(@,
                  {b.id : b \in {x \in Range(@) : x.dyn}}
                     \intersect (Ids(sbuf["U"]) \union Ids(tbuf["U"])))]
            /\ UNCHANGED <<reqs, current>>
    /\ UNCHANGED lastId

Work ==
    \/ SendRemove
    \/ \E e \in End :
          \/ SendInfo(e)
          \/ \E i \in DOMAIN sbuf[e] : SendData(e, i)
          \/ ReceiveInfo(e)
          \/ ReceiveData(e)
    \/ IgnoreInfo
    \/ ReceiveRemove

Next ==
    \/ Work
    \/ \E n \in Names : AddMblk(n)
    \/ \E id \in Ids(mblk["L"]) : DeviceDropped(id)
    \/ \E e \in End : \E i \in DOMAIN sbuf[e] : Send(e, i)
    \/ Connect
    \/ \E e \in End : Close(e)

Spec == Init /\ [][Next]_vars

\* The worker threads of both ends loop over receive and send, lost
\* connections are made again, and an end whose peer closed closes.
Fairness ==
    /\ WF_vars(SendRemove) /\ WF_vars(IgnoreInfo) /\ WF_vars(ReceiveRemove)
    /\ WF_vars(Connect)
    /\ \A e \in End : /\ WF_vars(SendInfo(e))
                      /\ WF_vars(\E i \in DOMAIN sbuf[e] : SendData(e, i))
                      /\ WF_vars(ReceiveInfo(e)) /\ WF_vars(ReceiveData(e))
                      /\ WF_vars(~open[Other(e)] /\ Close(e))

----------------------------------------------------------------------------
BlockType == [id : Nat, name : Names, dyn : BOOLEAN]

\* Every variable has its type, a cursor points to a block or buffer that
\* exists (ioc_mbinfo_mblk_is_deleted and ioc_release_source_buffer leave no
\* dangling pointer), and each buffer belongs to a block of its end.
TypeOK ==
    /\ mblk \in [End -> Seq(BlockType)] /\ lastId \in [End -> Nat]
    /\ \A e \in End :
          /\ Ids(sbuf[e]) \union Ids(tbuf[e]) \subseteq Ids(mblk[e])
          /\ \A i, j \in 1 .. Len(mblk[e]) : mblk[e][i].id = mblk[e][j].id => i = j
    /\ current \in Ids(mblk["L"]) \union {0}
    /\ scur \in Ids(sbuf["U"]) \union {0}
    /\ tcur \in Ids(tbuf["U"]) \union {0}
    /\ \A i \in 1 .. Len(reqs) : Len(reqs[i]) \in 1 .. PackN
    /\ open \in [End -> BOOLEAN]

NameOf(e, id) == (CHOOSE b \in Range(mblk[e]) : b.id = id).name

\* Data never arrives before the block it is for is linked:
\* ioc_process_received_data_frame would drop it ("data for unlinked memory
\* block"), and deltas that follow would never repair the loss.  At the
\* lower end the block may have been deleted meanwhile.
DataFindsTarget ==
    \A e \in End :
        Incoming(e, "data") =>
            LET id == Head(line[Other(e)]).id
            IN  \/ id \in Ids(tbuf[e])
                \/ e = "L" /\ id \notin Ids(mblk["L"])

\* No source or target buffer (ioc_mbinfo_new_sbuf, ioc_mbinfo_new_tbuf) is
\* ever tied to a block of another name, however blocks are deleted and
\* created again while ids of the old ones are on the way: data would be
\* written to, and removals take away, the wrong device's block.
NoCrossWiring ==
    (\A e \in End : open[e]) =>
    \A e \in End : \A list \in {sbuf[e], tbuf[e]} : \A i \in 1 .. Len(list) :
        list[i].rid \in Ids(mblk[Other(e)]) =>
            NameOf(Other(e), list[i].rid) = NameOf(e, list[i].id)

\* Nothing waits and nothing is on its way.
Quiet ==
    /\ \A e \in End : open[e] /\ line[e] = <<>> /\ InfoTurn(e) = 0
    /\ reqs = <<>>

\* When nothing is left to do, a block whose device is gone is gone at the
\* upper end too: ioc_generate_del_mblk_request asked for its removal.
RemovalsReachTop ==
    Quiet => \A b \in Range(mblk["U"]) :
                b.dyn => \E a \in Range(mblk["L"]) : a.name = b.name

Tie(a, b) ==
    /\ CanSend("L", a.name) =>
          /\ \E s \in Range(sbuf["L"]) : s.id = a.id /\ s.rid = b.id
          /\ \E s \in Range(tbuf["U"]) : s.id = b.id /\ s.rid = a.id
    /\ CanReceive("L", a.name) =>
          /\ \E s \in Range(tbuf["L"]) : s.id = a.id /\ s.rid = b.id
          /\ \E s \in Range(sbuf["U"]) : s.id = b.id /\ s.rid = a.id

\* Every block of the lower end is tied, both ways, to its namesake.
AllLinked == \A a \in Range(mblk["L"]) :
                \E b \in Range(mblk["U"]) : a.name = b.name /\ Tie(a, b)

Calm == /\ mblk'["L"] = mblk["L"]
        /\ \A e \in End : open[e] => open'[e]

\* Once devices and connections stay, all blocks become linked: no cursor of
\* ioc_get_mbinfo_to_send skips a block, whatever was added, deleted or
\* lost before.
EventuallyLinked == <>[][Calm]_vars => <>[]AllLinked
=============================================================================
