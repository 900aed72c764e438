----------------------------- MODULE Switchbox -----------------------------
(***************************************************************************)
(* Routing of many client connections over one shared connection.  Remote  *)
(* clients connect to the switchbox service ("box",                        *)
(* extensions/switchbox/code/switchbox_connection.c), which moves their    *)
(* bytes, with message headers, over the one TLS connection an IO service  *)
(* has opened ("srv", code/ioc_switchbox_socket.c).  There every client    *)
(* appears as a stream of its own.  The two ends run the same loop on the  *)
(* same kind of ring buffers.                                              *)
(*                                                                         *)
(* A header is one item of a ring and a byte is one item; the operating    *)
(* system's socket is merged with the ring it is read into.  A byte tells  *)
(* which connection it was written to and its number there.                *)
(***************************************************************************)
EXTENDS Integers, Sequences, FiniteSets, SequencesExt

CONSTANTS Client,        \* remote connections, each made at most once
          MaxIx,         \* bound of current_individual_socket_ix
          Environments   \* the circumstances a behaviour may have, see below

\* An environment: the clients that connect; the greatest client_id (65535 in
\* the code, fewer so that the ids come round); how many items a ring of the
\* shared connection holds; how many bytes a ring of one client holds; how many
\* bytes are written into each end of a connection; whether somebody may leave
\* and the shared connection may break; whether an end is ever idle for the
\* keep alive time.
ASSUME SwitchboxAssumption ==
    /\ IsFiniteSet(Client)
    /\ MaxIx \in Nat /\ MaxIx >= Cardinality(Client)
    /\ \A v \in Environments :
          /\ v.clients \subseteq Client /\ {v.disturbed, v.idle} \subseteq BOOLEAN
          /\ {v.ids, v.cap, v.conCap, v.send} \subseteq Nat \ {0}

Side == {"box", "srv"}
Other(s) == IF s = "box" THEN "srv" ELSE "box"

VARIABLES hub,     \* the shared connection at each side
          con,     \* the connection of each client at each side
          user,    \* what the remote client ("box") and the application ("srv") did
          lastId,  \* root->current_client_id
          env      \* the environment of this behaviour

vars == <<hub, con, user, lastId, env>>

MaxId == env.ids
Cap == env.cap
ConCap == env.conCap
MaxSend == env.send

Closed == [up |-> FALSE, in |-> <<>>, out |-> <<>>, id |-> 0, n |-> 0, list |-> <<>>, ix |-> 0, hung |-> FALSE]

\* st: "run" (status good, thread not asked to stop), "stop", or not there;
\* newSent, dropDone: the connection was announced, or its end need not be.
NoCon == [st |-> "none", id |-> 0, newSent |-> FALSE, dropDone |-> FALSE, in |-> <<>>, out |-> <<>>]

Init ==
    /\ hub = [s \in Side |-> [Closed EXCEPT !.up = TRUE]]
    /\ con = [s \in Side |-> [c \in Client |-> NoCon]]
    /\ user = [s \in Side |-> [c \in Client |-> [sent |-> 0, got |-> <<>>, left |-> FALSE]]]
    /\ lastId = 0
    /\ env \in Environments

Hdr(id, c, len) == [t |-> "hdr", id |-> id, c |-> c, len |-> len]
Byte(c, n) == [t |-> "byte", id |-> 0, c |-> c, len |-> n]

NewConnection == -1
Dropped == -2
KeepAlive == -3

\* What a walk through a list of connections finds in set S, in the order of
\* the list.
FoundUpTo(list, S) ==
    LET f[k \in 0 .. Len(list)] ==
          IF k = 0 THEN <<>>
          ELSE IF list[k] \in S THEN Append(f[k - 1], list[k])
          ELSE f[k - 1]
    IN  f

Found(list, S) == FoundUpTo(list, S)[Len(list)]

\* ioc_switchbox_store_msg_header_to_ringbuf: nothing is stored without space.
StoreHeader(ring, hdr) == IF Len(ring) < Cap THEN Append(ring, hdr) ELSE ring

----------------------------------------------------------------------------
(* The loop run by ioc_switchbox_service_con_run and                       *)
(* ioc_switchbox_run_shared_socket, with the lock held.  A state of it is  *)
(* [h |-> hub of the side, k |-> its connections].                         *)

\* Only the box announces connections; a full ring leaves one for later.
Announce(x, c) ==
    IF x.k[c].newSent \/ Len(x.h.out) >= Cap THEN x
    ELSE [x EXCEPT !.h.out = Append(@, Hdr(x.k[c].id, c, NewConnection)), !.k[c].newSent = TRUE]

AnnouncedUpTo(x, list) ==
    LET f[i \in 0 .. Len(list)] == IF i = 0 THEN x ELSE Announce(f[i - 1], list[i])
    IN  f

Announced(x) == AnnouncedUpTo(x, x.h.list)[Len(x.h.list)]

\* Connections in the list that were announced.
Served(x) == {c \in Range(x.h.list) : x.k[c].newSent}

\* Mutant of Order: only the connection in turn is served.
OrderOne(x, s) ==
    LET list == Found(x.h.list, Served(x))
    IN  IF list = <<>> THEN <<>> ELSE <<list[1]>>

\* The connections in the order they are served.  The index of the box has no
\* effect: it never is less than the index of the first connection.  The one
\* of the service is only counted up, so that the first is served first.
Order(x, s) ==
    LET list == Found(x.h.list, Served(x))
        at == IF s = "srv" /\ x.h.ix < Len(list) THEN x.h.ix ELSE 0
    IN  SubSeq(list, at + 1, Len(list)) \o SubSeq(list, 1, at)

\* What stays in a client's buffer.
LeftOver(in, bytes) == SubSeq(in, bytes + 1, Len(in))

\* One turn of the do loop.  "continue" without space for a header and a byte
\* ends the loop at the first connection; at another one it repeats the turn
\* for ever.
Collect(x, c, first) ==
    LET space == Cap - Len(x.h.out)
        bytes == IF Len(x.k[c].in) < space - 1 THEN Len(x.k[c].in) ELSE space - 1
    IN  IF space < 2 THEN [x EXCEPT !.h.hung = (c # first)]
        ELSE IF x.k[c].in = <<>> THEN x
        ELSE [x EXCEPT !.h.out = @ \o <<Hdr(x.k[c].id, c, bytes)>> \o SubSeq(x.k[c].in, 1, bytes),
                       !.k[c].in = LeftOver(@, bytes)]

\* full: there was no space at the first one.
CollectNext(y, c, first, full) == IF y.h.hung \/ (c # first /\ full) THEN y ELSE Collect(y, c, first)

CollectedUpTo(x, order) ==
    LET full == Cap - Len(x.h.out) < 2
        f[i \in 0 .. Len(order)] == IF i = 0 THEN x ELSE CollectNext(f[i - 1], order[i], order[1], full)
    IN  f

Collected(x, s) == CollectedUpTo(x, Order(x, s))[Len(Order(x, s))]

\* Mutant of HeaderDue: a header is taken while bytes are still due.
HeaderDueAlways(h) == h.in # <<>>

HeaderDue(h) == h.n = 0 /\ h.in # <<>>

\* Mutant of Targets: the id is not compared.
TargetsUnchecked(x, id) == Served(x)

\* The connections a message for client id is for.
Targets(x, id) == {c \in Served(x) : x.k[c].id = id}

\* The connections a CONNECTION_DROPPED message closes: those of the client
\* that last received data, not of the one in the header.
DroppedBy(x, hdr) == Targets(x, x.h.id)

TakeHeader(x, s) ==
    LET hdr == Head(x.h.in)
        y == [x EXCEPT !.h.in = Tail(@)]
    IN  CASE hdr.len > 0 -> [y EXCEPT !.h.id = hdr.id, !.h.n = hdr.len]
          [] hdr.len = NewConnection /\ s = "srv" ->
                [y EXCEPT !.k[hdr.c] = [NoCon EXCEPT !.st = "run", !.id = hdr.id, !.newSent = TRUE],
                          !.h.list = Append(@, hdr.c)]
          [] hdr.len = Dropped ->
                [y EXCEPT !.k = [c \in Client |->
                    IF c \in DroppedBy(x, hdr) THEN [@[c] EXCEPT !.st = "stop", !.dropDone = TRUE] ELSE @[c]]]
          [] OTHER -> y

\* Data goes to the first connection with the id; without one it is skipped.
\* A connection that is accepted in this step is listed only after it.
TakeData(x) ==
    LET avail == IF Len(x.h.in) < x.h.n THEN Len(x.h.in) ELSE x.h.n
        to == Found(x.h.list, Targets(x, x.h.id))
        room == IF to = <<>> THEN avail ELSE ConCap - Len(x.k[to[1]].out)
        bytes == IF room < avail THEN room ELSE avail
        y == [x EXCEPT !.h.in = SubSeq(@, bytes + 1, Len(@)), !.h.n = @ - bytes]
    IN  CASE bytes = 0 -> x
          [] bytes # 0 /\ to # <<>> -> [y EXCEPT !.k[to[1]].out = @ \o SubSeq(x.h.in, 1, bytes)]
          [] OTHER -> [y EXCEPT !.h.out = IF y.h.n = 0 THEN StoreHeader(@, Hdr(x.h.id, x.h.in[1].c, Dropped))
                                          ELSE @]

Distributed(x, s) ==
    LET y == IF HeaderDue(x.h) THEN TakeHeader(x, s) ELSE x
    IN  IF y.h.n > 0 THEN TakeData(y) ELSE y

Pass(s) ==
    LET start == [h |-> [hub[s] EXCEPT !.ix = IF @ < MaxIx THEN @ + 1 ELSE @], k |-> con[s]]
        moved == Collected(IF s = "box" THEN Announced(start) ELSE start, s)
    IN  IF moved.h.hung THEN moved ELSE Distributed(moved, s)

Run(s) ==
    /\ hub[s].up /\ ~hub[s].hung
    /\ LET x == Pass(s)
       IN  /\ hub' = [hub EXCEPT ![s] = x.h]
           /\ con' = [con EXCEPT ![s] = x.k]
    /\ UNCHANGED <<user, lastId, env>>

\* Nothing was done for IOC_SOCKET_KEEPALIVE_MS.
SendKeepAlive(s) ==
    /\ env.idle /\ hub[s].up /\ ~hub[s].hung /\ hub[s].out = <<>>
    /\ Pass(s).k = con[s] /\ [Pass(s).h EXCEPT !.ix = hub[s].ix] = hub[s]
    /\ hub' = [hub EXCEPT ![s].out = <<Hdr(0, "nobody", KeepAlive)>>]
    /\ UNCHANGED <<con, user, lastId, env>>

\* ioc_switchbox_write_socket at one side and ioc_switchbox_read_socket at the
\* other; the socket between them delivers in order.
Transfer(s) ==
    LET o == Other(s)
    IN  /\ hub[s].up /\ hub[o].up /\ ~hub[s].hung
        /\ \E n \in 1 .. Len(hub[s].out) :
              /\ n <= Cap - Len(hub[o].in)
              /\ hub' = [hub EXCEPT ![s].out = SubSeq(@, n + 1, Len(@)),
                                    ![o].in = @ \o SubSeq(hub[s].out, 1, n)]
        /\ UNCHANGED <<con, user, lastId, env>>

----------------------------------------------------------------------------
(* Client connections.                                                     *)

Unlocked(s) == ~hub[s].hung

FreeId(id) == \A c \in Client : con["box"][c].st \in {"run", "stop"} => con["box"][c].id # id

\* ioc_new_switchbox_client_id: the next number after the last one that no
\* connection of the box has.  What the service and the messages on the way
\* still use is not looked at.
IdAfter(i) == ((lastId + i - 1) % MaxId) + 1

NewId == IdAfter(CHOOSE i \in 1 .. MaxId :
                    FreeId(IdAfter(i)) /\ \A j \in 1 .. i - 1 : ~FreeId(IdAfter(j)))

IdLeft == \E i \in 1 .. MaxId : FreeId(IdAfter(i))

\* ioc_switchbox_setup_client_connection.  A box that has all the ids in use
\* looks for one for ever.
Connect(c) ==
    /\ c \in env.clients /\ con["box"][c].st = "none" /\ hub["box"].up /\ Unlocked("box")
    /\ IdLeft
    /\ con' = [con EXCEPT !["box"][c] = [NoCon EXCEPT !.st = "run", !.id = NewId]]
    /\ hub' = [hub EXCEPT !["box"].list = Append(@, c)]
    /\ lastId' = NewId
    /\ UNCHANGED <<user, env>>

\* The remote client sends, or the application calls ioc_switchbox_socket_write.
Write(s, c) ==
    /\ con[s][c].st = "run" /\ ~user[s][c].left
    /\ user[s][c].sent < MaxSend /\ Len(con[s][c].in) < ConCap
    /\ con' = [con EXCEPT ![s][c].in = Append(@, Byte(c, user[s][c].sent + 1))]
    /\ user' = [user EXCEPT ![s][c].sent = @ + 1]
    /\ UNCHANGED <<hub, lastId, env>>

Read(s, c) ==
    /\ con[s][c].st = "run" /\ ~user[s][c].left /\ con[s][c].out # <<>>
    /\ user' = [user EXCEPT ![s][c].got = @ \o con[s][c].out]
    /\ con' = [con EXCEPT ![s][c].out = <<>>]
    /\ UNCHANGED <<hub, lastId, env>>

\* The remote client closes its socket.
Leave(c) ==
    /\ env.disturbed
    /\ con["box"][c].st \in {"run", "stop"} /\ ~user["box"][c].left
    /\ user' = [user EXCEPT !["box"][c].left = TRUE]
    /\ UNCHANGED <<hub, con, lastId, env>>

Unlinked(s, c) == Found(hub[s].list, Client \ {c})

\* The end of ioc_switchbox_connection_thread of a client.
EndClient(c) ==
    LET k == con["box"][c]
        tell == k.newSent /\ ~k.dropDone /\ c \in Range(hub["box"].list)
    IN  /\ Unlocked("box")
        /\ k.st = "stop" \/ (k.st = "run" /\ user["box"][c].left)
        /\ con' = [con EXCEPT !["box"][c] = [NoCon EXCEPT !.st = "gone"]]
        /\ hub' = [hub EXCEPT !["box"].list = Unlinked("box", c),
                              !["box"].out = IF tell THEN StoreHeader(@, Hdr(k.id, c, Dropped)) ELSE @]
        /\ UNCHANGED <<user, lastId, env>>

\* ioc_switchbox_socket_close: no message is sent.
CloseSocket(c) ==
    /\ env.disturbed
    /\ con["srv"][c].st \in {"run", "stop"} /\ Unlocked("srv")
    /\ con' = [con EXCEPT !["srv"][c] = [NoCon EXCEPT !.st = "gone"]]
    /\ hub' = [hub EXCEPT !["srv"].list = Unlinked("srv", c)]
    /\ user' = [user EXCEPT !["srv"][c].left = TRUE]
    /\ UNCHANGED <<lastId, env>>

\* The shared connection fails at one side: every client of it is stopped.
Break(s) ==
    /\ env.disturbed
    /\ hub[s].up /\ ~hub[s].hung
    /\ hub' = [hub EXCEPT ![s] = Closed]
    /\ con' = [con EXCEPT ![s] = [c \in Client |->
                 IF c \in Range(hub[s].list) THEN [@[c] EXCEPT !.st = "stop"] ELSE @[c]]]
    /\ UNCHANGED <<user, lastId, env>>

\* The service opens a new one; the box has ended the old one before.
Relink ==
    /\ \A s \in Side : ~hub[s].up
    /\ hub' = [s \in Side |-> [Closed EXCEPT !.up = TRUE]]
    /\ UNCHANGED <<con, user, lastId, env>>

Work == \E s \in Side : Run(s) \/ SendKeepAlive(s) \/ Transfer(s)
UserStep(c) ==
    \/ Connect(c) \/ EndClient(c)
    \/ \E s \in Side : Write(s, c) \/ Read(s, c)

Next ==
    \/ Work \/ Relink
    \/ \E s \in Side : Break(s)
    \/ \E c \in Client : UserStep(c) \/ Leave(c) \/ CloseSocket(c)

Spec == Init /\ [][Next]_vars

\* Every connection has a thread that is woken when there is work and looks
\* for it at least every IOC_SOCKET_CHECK_TIMEOUTS_MS; a user reads what comes.
\* HasWork(s) is ENABLED <<Run(s)>>_vars, so that the first line is WF_vars(Run(s)).
HasWork(s) == hub[s].up /\ ~hub[s].hung /\ Pass(s) # [h |-> hub[s], k |-> con[s]]

Fairness ==
    /\ \A s \in Side : []<>(~HasWork(s)) \/ []<><<Run(s)>>_vars
    /\ \A s \in Side : WF_vars(Transfer(s))
    /\ \A s \in Side, c \in Client : WF_vars(Read(s, c))

----------------------------------------------------------------------------
\* No connection of the service has the id, no message on the way names it and
\* no bytes are due for it.
Unused(id) ==
    /\ \A c \in Client : con["srv"][c].st \in {"run", "stop"} => con["srv"][c].id # id
    /\ \A s \in Side :
          /\ \A x \in Range(hub[s].in) \union Range(hub[s].out) : x.t = "hdr" => x.id # id
          /\ hub[s].n > 0 => hub[s].id # id

\* An id is given to a client again only when the one that had it is over at
\* both ends.  The code leaves this to the number of ids: it takes a connection
\* that outlives 65535 others, or whose end could not be announced, to break it.
CleanReuse ==
    \A c \in Client :
        con["box"][c].st = "none" /\ con'["box"][c].st # "none" => Unused(con'["box"][c].id)

CleanSpec == Spec /\ [][CleanReuse]_vars

\* What has been read at one end of a connection is what was written first at
\* its other end: nothing is lost, repeated, mixed up between clients that
\* share the connection, or left from one that has ended and whose id another
\* has now.  It holds while the ids are reused cleanly (CleanReuse).
StreamsApart ==
    \A s \in Side, c \in Client :
        LET got == user[s][c].got
        IN  /\ got = [i \in 1 .. Len(got) |-> Byte(c, i)]
            /\ Len(got) <= user[Other(s)][c].sent

\* A header is where one is expected, and bytes are where bytes are due.
RingsFramed ==
    \A s \in Side :
        LET h == hub[s]
        IN  h.in # <<>> => (Head(h.in).t = "hdr" <=> h.n = 0)

\* The lock is given back: the loop that serves the clients ends.  The code
\* says of a full ring "waste no time here".
LockReleased == \A s \in Side : ~hub[s].hung

\* While nobody leaves, the shared connection works and no loop keeps the lock
\* for ever, what is written at one end is read at the other.
Arrives ==
    ~env.disturbed /\ []LockReleased => \A s \in Side, c \in Client :
        user[s][c].sent = MaxSend ~> Len(user[Other(s)][c].got) = MaxSend
=============================================================================
