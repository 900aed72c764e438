----------------------------- MODULE SerialLink -----------------------------
(***************************************************************************)
(* A serial connection from nothing to data transfer: the exchange of      *)
(* control characters of ioc_establish_serial_connection, frame numbers    *)
(* (ioc_generate_header, ioc_finish_frame, ioc_read_frame), the order of   *)
(* the authentication messages (ioc_connection_send), and the ways an end  *)
(* drops the connection and starts again (ioc_run_connection and           *)
(* ioc_connection_thread, at "failed").                                    *)
(*                                                                         *)
(* A line delivers in order but may lose or garble what it carries.  A     *)
(* character or a whole frame is one item of a line.  How much of a line   *)
(* has arrived when an end reads is open; what was sent has arrived before *)
(* a timer runs out or a port is opened or flushed.  "session" and "seq"  *)
(* are not in the code: they tell which establishment an end or a frame    *)
(* belongs to and how many frames came before.                             *)
(***************************************************************************)
EXTENDS Integers, Sequences

CONSTANTS MaxFrameNr,    \* IOC_MAX_FRAME_NR
          MaxLine,       \* items of one direction under way
          MaxSent,       \* frames an end sends in one connection
          Environments   \* the circumstances a behaviour may have, see below

\* An environment: the client connects upwards (IOC_CONNECT_UP); a whole frame
\* may vanish from a line; a byte of a frame may equal a control character.
ASSUME SerialLinkAssumption ==
    /\ MaxFrameNr \in Nat \ {0} /\ MaxLine \in Nat \ {0} /\ MaxSent \in Nat \ {0}
    /\ \A v \in Environments : {v.clientUp, v.loseFrames, v.mimics} \subseteq BOOLEAN

End == {"cli", "srv"}
Other(e) == IF e = "cli" THEN "srv" ELSE "cli"

VARIABLES con,      \* the iocConnection of each end
          line,     \* items on the way to each end
          sessions, \* number of times the server has confirmed a connection
          env       \* the environment of this behaviour

vars == <<con, line, sessions, env>>

Ctrl(c) == [t |-> c, nr |-> 255, session |-> 0, seq |-> 0]

Frames == {"auth", "data"}

\* Is the item, or what a reader takes its last byte for, the character c?
CanBe(item, c) == IF env.mimics /\ item.t \in Frames THEN BOOLEAN ELSE {item.t = c}

\* ioc_close_stream leaves this; the rest is reset when the stream is opened
\* and again when the connection is established.
Closed(up) ==
    [open |-> FALSE, st |-> 1, in |-> 0, out |-> 0, authSent |-> FALSE, authRcvd |-> FALSE,
     up |-> up, session |-> 0, sent |-> 0, rcvd |-> 0, bad |-> FALSE]

Init ==
    /\ env \in Environments
    /\ con = [e \in End |-> Closed(e = "cli" /\ env.clientUp)]
    /\ line = [e \in End |-> <<>>]
    /\ sessions = 0

\* ioc_reset_connection_state; up is kept in con->flags.
Reset(c, session) ==
    [Closed(c.up) EXCEPT !.open = TRUE, !.st = c.st, !.session = session, !.bad = c.bad]

CanWrite(e) == Len(line[Other(e)]) < MaxLine

Put(e, item) == [line EXCEPT ![Other(e)] = Append(@, item)]

\* What remains of e's line when k items have been taken.
Taken(e, k) == SubSeq(line[e], k + 1, Len(line[e]))

\* osal_stream_flush of both buffers: what has come, and what has not left.
Flushed(e, j) == [line EXCEPT ![e] = <<>>, ![Other(e)] = SubSeq(@, 1, Len(@) - j)]

----------------------------------------------------------------------------
(* Opening and closing the stream.                                         *)

\* ioc_try_to_connect; what came while the port was closed may be lost.
Open(e) ==
    /\ ~con[e].open
    /\ line' = [line EXCEPT ![e] = <<>>]
    /\ con' = [con EXCEPT ![e] = Reset(@, 0)]
    /\ UNCHANGED <<sessions, env>>

Fail(e) == con' = [con EXCEPT ![e] = Closed(@.up)]

----------------------------------------------------------------------------
(* ioc_establish_serial_connection.                                        *)

Establishing(e, st) == con[e].open /\ con[e].st = st

Client1 ==
    /\ Establishing("cli", 1) /\ CanWrite("cli")
    /\ \E j \in 0 .. Len(line["srv"]) :
          line' = [Flushed("cli", j) EXCEPT !["srv"] = Append(@, Ctrl("CONNECT"))]
    /\ con' = [con EXCEPT !["cli"].st = 2]
    /\ UNCHANGED <<sessions, env>>

\* Up to 32 characters are read and the last one counts.
Client2 ==
    /\ Establishing("cli", 2) /\ CanWrite("cli")
    /\ \E k \in DOMAIN line["cli"] : \E reply \in CanBe(line["cli"][k], "CONNECT_REPLY") :
          /\ line' = [line EXCEPT !["cli"] = Taken("cli", k),
                                  !["srv"] = IF reply THEN Append(@, Ctrl("CONFIRM")) ELSE @]
          /\ con' = [con EXCEPT !["cli"].st = IF reply THEN 3 ELSE 2]
    /\ UNCHANGED <<sessions, env>>

\* What is left of a frame of which one byte was taken for a character: an
\* authentication message ends with the zero length of its password.
Rest(item) ==
    CASE item.t = "auth" -> {<<Ctrl("NOISE")>>}
      [] item.t = "data" -> {<<>>, <<Ctrl("NOISE")>>}
      [] OTHER -> {<<>>}

\* One character at a time: data may follow the confirmation at once.
Client3 ==
    /\ Establishing("cli", 3) /\ line["cli"] # <<>>
    /\ \E reply \in CanBe(Head(line["cli"]), "CONFIRM_REPLY"), rest \in Rest(Head(line["cli"])) :
          /\ con' = [con EXCEPT !["cli"] =
                        IF reply THEN [Reset(@, Head(line["cli"]).session) EXCEPT !.st = 5] ELSE @]
          /\ line' = [line EXCEPT !["cli"] = IF reply THEN rest \o Tail(@) ELSE Tail(@)]
    /\ UNCHANGED <<sessions, env>>

\* Timers are long against the time on the line: what is under way arrives first.
TimeOut == \A e \in End : line[e] = <<>>

\* IOC_SERIAL_CONNECT_PERIOD_MS has passed.
ClientStartsOver ==
    /\ con["cli"].open /\ con["cli"].st \in {2, 3}
    /\ TimeOut
    /\ con' = [con EXCEPT !["cli"].st = 1]
    /\ UNCHANGED <<line, sessions, env>>

Server1 ==
    /\ Establishing("srv", 1) /\ CanWrite("srv")
    /\ line' = Put("srv", Ctrl("DISCONNECT"))
    /\ con' = [con EXCEPT !["srv"].st = 2]
    /\ UNCHANGED <<sessions, env>>

Server2 ==
    /\ Establishing("srv", 2)
    /\ \E j \in 0 .. Len(line["cli"]) : line' = Flushed("srv", j)
    /\ con' = [con EXCEPT !["srv"].st = 3]
    /\ UNCHANGED <<sessions, env>>

Server3 ==
    /\ Establishing("srv", 3) /\ CanWrite("srv")
    /\ \E k \in DOMAIN line["srv"] : \E connect \in CanBe(line["srv"][k], "CONNECT") :
          /\ line' = [line EXCEPT !["srv"] = Taken("srv", k),
                                  !["cli"] = IF connect THEN Append(@, Ctrl("CONNECT_REPLY")) ELSE @]
          /\ con' = [con EXCEPT !["srv"].st = IF connect THEN 4 ELSE 3]
    /\ UNCHANGED <<sessions, env>>

ConfirmReply == [Ctrl("CONFIRM_REPLY") EXCEPT !.session = sessions + 1]

\* A single CONFIRM is answered; anything else leads back to the start.
Server4 ==
    /\ Establishing("srv", 4) /\ CanWrite("srv")
    /\ \E k \in DOMAIN line["srv"] : \E confirm \in CanBe(line["srv"][k], "CONFIRM") :
          IF k = 1 /\ confirm
          THEN /\ line' = [line EXCEPT !["srv"] = Taken("srv", k), !["cli"] = Append(@, ConfirmReply)]
               /\ con' = [con EXCEPT !["srv"] = [Reset(@, sessions + 1) EXCEPT !.st = 5]]
               /\ sessions' = sessions + 1
          ELSE /\ line' = [line EXCEPT !["srv"] = Taken("srv", k)]
               /\ con' = [con EXCEPT !["srv"].st = 3]
               /\ UNCHANGED sessions
    /\ UNCHANGED env

----------------------------------------------------------------------------
(* Frames.                                                                 *)

\* The number after nr: 0 is used for the first frame only.
NextFrameNr(nr) == IF nr >= MaxFrameNr THEN 1 ELSE nr + 1

SendItem(e, t) ==
    LET c == con[e]
    IN  /\ line' = Put(e, [t |-> t, nr |-> c.out, session |-> c.session, seq |-> c.sent])
        /\ con' = [con EXCEPT ![e].out = NextFrameNr(@), ![e].sent = @ + 1,
                              ![e].authSent = @ \/ t = "auth"]
        /\ UNCHANGED <<sessions, env>>

\* Mutant of MaySendAuth: each end waits for the other.
MaySendAuthLast(c) == ~c.authSent /\ c.authRcvd

\* The end that connects upwards lets the other one go first.
MaySendAuth(c) == ~c.authSent /\ (c.up => c.authRcvd)

MaySendData(c) == c.authSent /\ c.authRcvd

\* ioc_connection_send.
Send(e) ==
    /\ con[e].open /\ con[e].st = 5 /\ CanWrite(e) /\ con[e].sent < MaxSent
    /\ \/ MaySendAuth(con[e]) /\ SendItem(e, "auth")
       \/ MaySendData(con[e]) /\ SendItem(e, "data")

\* Mutant of Acceptable: the number is not checked.
AcceptableAny(c, item) == item.t \in Frames

\* The number is checked before the checksum; no control character equals one.
Acceptable(c, item) == item.t \in Frames /\ item.nr = c.in

\* ioc_connection_receive: a frame in its turn, or the end of the connection.
\* An authentication message to the listening end tells which end is up.
Receive(e) ==
    /\ con[e].open /\ con[e].st = 5 /\ line[e] # <<>>
    /\ line' = [line EXCEPT ![e] = Tail(@)]
    /\ LET c == con[e]
           item == Head(line[e])
           wrong == item.session # c.session \/ item.seq # c.rcvd \/ (item.t = "data" /\ ~c.authRcvd)
       IN  IF Acceptable(c, item)
           THEN con' = [con EXCEPT
                          ![e].in = NextFrameNr(item.nr), ![e].rcvd = @ + 1,
                          ![e].authRcvd = @ \/ item.t = "auth",
                          ![e].up = IF e = "srv" /\ item.t = "auth" THEN ~env.clientUp ELSE @,
                          ![e].bad = @ \/ wrong]
           ELSE Fail(e)
    /\ UNCHANGED <<sessions, env>>

\* The authentication message is refused by authorization_func.
Refuse ==
    /\ con["srv"].open /\ con["srv"].st = 5 /\ line["srv"] # <<>>
    /\ Acceptable(con["srv"], Head(line["srv"])) /\ Head(line["srv"]).t = "auth"
    /\ line' = [line EXCEPT !["srv"] = Tail(@)]
    /\ Fail("srv")
    /\ UNCHANGED <<sessions, env>>

\* Nothing has been received for IOC_SERIAL_SILENCE_MS.  Connected ends send
\* keep alives, so that a silent line is broken or has nobody at its end.
Silence(e) ==
    /\ con[e].open /\ con[e].st = 5
    /\ TimeOut
    /\ con[Other(e)].st # 5
    /\ Fail(e)
    /\ UNCHANGED <<line, sessions, env>>

\* The program of an end starts anew: its flags are the initial ones.
Restart(e) ==
    /\ con' = [con EXCEPT ![e] = [Closed(e = "cli" /\ env.clientUp) EXCEPT !.bad = con[e].bad]]
    /\ UNCHANGED <<line, sessions, env>>

\* An item is lost, or garbled so that it is no number and no character in
\* use; a part of a frame that is lost garbles it.
Lose(e, i) ==
    /\ line[e][i].t \in Frames \cup {"NOISE"} => env.loseFrames
    /\ line' = [line EXCEPT ![e] = SubSeq(@, 1, i - 1) \o SubSeq(@, i + 1, Len(@))]
    /\ UNCHANGED <<con, sessions, env>>

Garble(e, i) ==
    /\ line' = [line EXCEPT ![e][i] = Ctrl("NOISE")]
    /\ UNCHANGED <<con, sessions, env>>

Client == Client1 \/ Client2 \/ Client3
Server == Server1 \/ Server2 \/ Server3 \/ Server4
Disturb(e) == Restart(e) \/ \E i \in DOMAIN line[e] : Lose(e, i) \/ Garble(e, i)

Undisturbed ==
    \/ Client \/ ClientStartsOver \/ Server
    \/ \E e \in End : Open(e) \/ Send(e) \/ Receive(e) \/ Silence(e)

Next == Undisturbed \/ Refuse \/ \E e \in End : Disturb(e)

Spec == Init /\ [][Next]_vars

\* Both ends are run for ever by a thread or a main loop; a timer that is
\* waited for runs out.  Nothing makes a line work, so that disturbances are
\* bounded in the runs instead.
Fairness ==
    /\ WF_vars(Client) /\ WF_vars(Server) /\ SF_vars(ClientStartsOver)
    /\ \A e \in End : WF_vars(Open(e)) /\ WF_vars(Receive(e)) /\ SF_vars(Silence(e))
    /\ \A e \in End : WF_vars(Send(e))

----------------------------------------------------------------------------
\* A frame that is accepted was sent in the connection the receiver is in, is
\* the next one of that connection, and is no data frame from an end that is
\* not authenticated: nothing left over of an earlier connection gets through
\* the restarts, losses and repeated attempts of either end.
FramesInTurn == \A e \in End : ~con[e].bad

\* Both ends in one connection, each accepted by the other.
Joined ==
    \A e \in End : con[e].st = 5 /\ con[e].authRcvd /\ con[e].session = sessions

\* Whatever happened on the line, short of a whole frame vanishing, the two
\* ends find each other again and neither waits for the other's authentication
\* for ever.
Reconnects == ~env.loseFrames /\ ~env.mimics => <>[]Joined
=============================================================================
