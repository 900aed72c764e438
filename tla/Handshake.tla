----------------------------- MODULE Handshake ------------------------------
(***************************************************************************)
(* The first bytes of a socket connection: the mark byte of a secure       *)
(* stream, the client's message with its type and cloud network name, the  *)
(* trust certificate on request (code/ioc_handshake.c), and, between an IO *)
(* service and a switchbox, the two authentication frames                  *)
(* (code/ioc_switchbox_auth_frame.c).                                      *)
(*                                                                         *)
(* Each end calls its function again and again.  A call finds that part of *)
(* the incoming bytes which has arrived, and a stream with room for some   *)
(* of the bytes it writes.  Bytes are numbers; of the header of an         *)
(* authentication frame the frame number and the data size are left, of    *)
(* its content whatever bytes it holds.                                    *)
(***************************************************************************)
EXTENDS Integers, Sequences

CONSTANTS Cert,      \* what the server's load function returns
          Content,   \* of an authentication frame
          Starts     \* what a behaviour may be started with, see below

\* A start: kind of the client and of the server; cloud network name, a
\* sequence of bytes; request_trust_certificate; OSAL_STREAM_IFLAG_SECURE; how
\* many bytes the stream may take in a call; whether connections break and
\* timers run out.
ASSUME HandshakeAssumption ==
    \A p \in Starts :
        /\ p.kind \in {"service", "client"} /\ p.server \in {"switchbox", "regular"}
        /\ p.kind = "service" => p.server = "switchbox"
        /\ {p.want, p.secure, p.failures} \subseteq BOOLEAN
        /\ p.rooms \subseteq Nat

VARIABLES prm,   \* what the two ends were started with
          cli,   \* the client's iocHandshakeState and authentication buffers
          srv,   \* the server's
          up,    \* bytes on the way to the server
          down   \* bytes on the way to the client

vars == <<prm, cli, srv, up, down>>

MarkByte == 91                    \* IOC_HANDSHAKE_SECURE_MARK_BYTE
DataByte == 200                   \* what follows the handshake
NameBit == 64
CertBit == 128
TypeCode(kind) == IF kind = "service" THEN 18 ELSE 19
Frame == <<0, Len(Content)>> \o Content

AtMost(n, s) == SubSeq(s, 1, n)
After(n, s) == SubSeq(s, n + 1, Len(s))
Least(a, b) == IF a < b THEN a ELSE b

\* ioc_initialize_handshake_state and empty authentication buffers.  "type",
\* "name" and "saved" are the results: what the server has read, and the
\* certificate passed to save_trust_certificate_func.  "authCut" is no variable
\* of the code: the stream took a part of an authentication frame only.
NoHandshake ==
    [st |-> "run", mark |-> FALSE, msg |-> FALSE, pos |-> 0, type |-> 0, name |-> <<>>, size |-> 0,
     certSz |-> 65535, certPos |-> 0, cert |-> <<>>, saved |-> <<>>, ready |-> FALSE,
     authIn |-> <<>>, authRcvd |-> FALSE, authPos |-> 0, authSent |-> FALSE, authCut |-> FALSE,
     data |-> FALSE]

Init ==
    /\ prm \in Starts
    /\ cli = NoHandshake /\ srv = NoHandshake
    /\ up = <<>> /\ down = <<>>

----------------------------------------------------------------------------
(* A call is [s |-> state of the end, in |-> bytes that have arrived,      *)
(* out |-> bytes written, room |-> bytes the stream still takes, ret |->   *)
(* status].  A stage runs when the ones before it have succeeded.          *)

Then(x, Stage(_)) == IF x.ret = "SUCCESS" THEN Stage(x) ELSE x

Return(x, ret) == [x EXCEPT !.ret = ret]

\* osal_stream_write.
WriteTo(x, bytes) ==
    [x EXCEPT !.out = @ \o AtMost(Least(x.room, Len(bytes)), bytes),
              !.room = @ - Least(@, Len(bytes))]

Written(x, bytes) == Least(x.room, Len(bytes))

\* osal_stream_read of n bytes has taken them.
Skip(x, n) == [x EXCEPT !.in = After(n, @)]

----------------------------------------------------------------------------
(* ioc_client_handshake.                                                   *)

\* ioc_process_TLS_secured_byte.
ClientMark(x) ==
    CASE ~prm.secure \/ x.s.mark -> x
      [] prm.secure /\ ~x.s.mark /\ x.in = <<>> -> Return(x, "PENDING")
      [] OTHER -> IF Head(x.in) = MarkByte THEN [Skip(x, 1) EXCEPT !.s.mark = TRUE]
                  ELSE Return(Skip(x, 1), "FAILED")

TypeByte == TypeCode(prm.kind) + (IF prm.want THEN CertBit ELSE 0)

\* The message, of one byte without a name.
Message ==
    IF prm.name = <<>> THEN <<TypeByte>>
    ELSE <<TypeByte + NameBit, Len(prm.name)>> \o prm.name

\* Mutant of MessageRest: every call starts with the first byte.
MessageRestAll(pos) == Message

MessageRest(pos) == After(pos, Message)

\* ioc_send_client_handshake_message.
ClientMessage(x) ==
    LET rest == MessageRest(x.s.pos)
        n == Written(x, rest)
        y == [WriteTo(x, rest) EXCEPT !.s.pos = @ + n]
    IN  CASE x.s.msg -> x
          [] ~x.s.msg /\ n < Len(rest) -> Return(y, "PENDING")
          [] OTHER -> [y EXCEPT !.s.msg = TRUE]

\* The second byte of the size is the high one and replaces the first.
CertSize(pos, c, size) == IF pos # 0 THEN c * 256 ELSE c

ReadSize(x) ==
    IF x.s.certPos < 2 /\ x.in # <<>>
    THEN [Skip(x, 1) EXCEPT !.s.certSz = CertSize(x.s.certPos, Head(x.in), @), !.s.certPos = @ + 1]
    ELSE x

\* ioc_process_trust_certificate.
ClientCert(x) ==
    LET y == ReadSize(ReadSize(x))
        n == y.s.certSz - (y.s.certPos - 2)
        k == Least(n, Len(y.in))
        z == [Skip(y, k) EXCEPT !.s.cert = @ \o AtMost(k, y.in), !.s.certPos = @ + k]
    IN  CASE ~prm.want -> x
          [] prm.want /\ y.s.certPos < 2 -> Return(y, "PENDING")
          [] prm.want /\ y.s.certPos >= 2 /\ y.s.certSz = 0 -> y
          [] OTHER -> IF k < n THEN Return(z, "PENDING") ELSE [z EXCEPT !.s.saved = z.s.cert]

----------------------------------------------------------------------------
(* ioc_server_handshake.                                                   *)

\* ioc_send_byte_to_secure_TLS.
ServerMark(x) ==
    CASE ~prm.secure \/ x.s.mark -> x
      [] prm.secure /\ ~x.s.mark /\ x.room = 0 -> Return(x, "PENDING")
      [] OTHER -> [WriteTo(x, <<MarkByte>>) EXCEPT !.s.mark = TRUE]

HasName(type) == (type \div NameBit) % 2 = 1
WantsCert(type) == type >= CertBit
KnownType(type) == type % NameBit \in {TypeCode("service"), TypeCode("client")}

\* ioc_process_handshake_message, in three parts.
ServerType(x) ==
    CASE x.s.msg \/ x.s.pos > 0 -> x
      [] ~(x.s.msg \/ x.s.pos > 0) /\ x.in = <<>> -> Return(x, "PENDING")
      [] OTHER ->
           LET y == [Skip(x, 1) EXCEPT !.s.type = Head(x.in)]
           IN  IF ~KnownType(Head(x.in)) THEN Return(y, "FAILED")
               ELSE [y EXCEPT !.s.pos = 1, !.s.msg = ~HasName(Head(x.in))]

ServerLength(x) ==
    CASE x.s.msg \/ x.s.pos > 1 -> x
      [] ~(x.s.msg \/ x.s.pos > 1) /\ x.in = <<>> -> Return(x, "PENDING")
      [] OTHER -> IF Head(x.in) = 0 THEN Return(Skip(x, 1), "FAILED")
                  ELSE [Skip(x, 1) EXCEPT !.s.size = Head(x.in), !.s.pos = 2]

\* Mutant of NameLeft: the header counts as part of the name.
NameLeftShort(s) == s.size - s.pos

NameLeft(s) == s.size - (s.pos - 2)

\* A regular server reads the name and does not keep it.
ServerName(x) ==
    LET n == NameLeft(x.s)
        k == Least(n, Len(x.in))
        y == [Skip(x, k) EXCEPT !.s.pos = @ + k,
                                !.s.name = IF prm.server = "switchbox" THEN @ \o AtMost(k, x.in) ELSE @]
    IN  CASE x.s.msg -> x
          [] ~x.s.msg /\ k < n -> Return(y, "PENDING")
          [] OTHER -> [y EXCEPT !.s.msg = TRUE]

\* ioc_send_trust_certificate: the size, low byte first, and the certificate.
SizedCert == <<Len(Cert) % 256, Len(Cert) \div 256>> \o Cert

\* Mutant of ServerCert: a certificate goes to everyone.
ServerCertAlways(x) ==
    LET rest == After(x.s.certPos, SizedCert)
        n == Written(x, rest)
        y == [WriteTo(x, rest) EXCEPT !.s.certPos = @ + n]
    IN  IF n < Len(rest) THEN Return(y, "PENDING") ELSE y

ServerCert(x) ==
    LET rest == After(x.s.certPos, SizedCert)
        n == Written(x, rest)
        y == [WriteTo(x, rest) EXCEPT !.s.certPos = @ + n]
    IN  CASE ~WantsCert(x.s.type) -> x
          [] WantsCert(x.s.type) /\ n < Len(rest) -> Return(y, "PENDING")
          [] OTHER -> y

----------------------------------------------------------------------------
(* The authentication frames.                                              *)

\* Mutant of Needed: the size is taken for that of the whole frame.
NeededData(buf) == IF Len(buf) < 2 THEN 2 ELSE buf[2]

\* ioc_read_frame: the header first, then as much as it asks for.
Needed(buf) == IF Len(buf) < 2 THEN 2 ELSE 2 + buf[2]

ReadSome(x) ==
    LET k == Least(Needed(x.s.authIn) - Len(x.s.authIn), Len(x.in))
    IN  [Skip(x, k) EXCEPT !.s.authIn = @ \o AtMost(k, x.in)]

\* icom_switchbox_process_authentication_message.  PENDING does not keep the
\* caller from sending its own frame.
AuthReceive(x, late) ==
    LET y == ReadSome(ReadSome(x))
        buf == y.s.authIn
    IN  CASE x.s.authRcvd -> x
          [] ~x.s.authRcvd /\ buf # <<>> /\ Head(buf) # 0 -> Return(y, "FAILED")
          [] ~x.s.authRcvd /\ (buf = <<>> \/ Head(buf) = 0) /\ Len(buf) < Needed(buf) ->
                IF late THEN Return(y, "FAILED") ELSE y
          [] OTHER -> [y EXCEPT !.s.authRcvd = TRUE]

\* ioc_send_switchbox_authentication_message: what is left, from the buffer's
\* beginning.
AuthRest(pos) == AtMost(Len(Frame) - pos, Frame)

AuthSend(x, late) ==
    LET n == Written(x, AuthRest(x.s.authPos))
        y == [WriteTo(x, AuthRest(x.s.authPos)) EXCEPT !.s.authPos = @ + n,
                                                    !.s.authCut = @ \/ n \in 1 .. Len(Frame) - 1]
    IN  CASE x.s.authSent -> x
          [] ~x.s.authSent /\ y.s.authPos < Len(Frame) -> IF late THEN Return(y, "FAILED") ELSE y
          [] OTHER -> [y EXCEPT !.s.authSent = TRUE]

\* Mutant of Authenticate: the own frame waits for the other end's.
AuthenticateInTurn(x, late) ==
    LET r == AuthReceive(x, late)
        y == IF r.ret = "SUCCESS" /\ r.s.authRcvd THEN AuthSend(r, late) ELSE r
    IN  IF y.ret = "SUCCESS" /\ ~(y.s.authSent /\ y.s.authRcvd) THEN Return(y, "PENDING") ELSE y

\* Both frames; PENDING until both are done.
Authenticate(x, late) ==
    LET r == AuthReceive(x, late)
        y == IF r.ret = "SUCCESS" THEN AuthSend(r, late) ELSE r
    IN  IF y.ret = "SUCCESS" /\ ~(y.s.authSent /\ y.s.authRcvd) THEN Return(y, "PENDING") ELSE y

----------------------------------------------------------------------------
(* The calls.                                                              *)

Ended(x) ==
    [x.s EXCEPT !.st = CASE x.ret = "SUCCESS" -> "ok" [] x.ret = "FAILED" -> "failed" [] OTHER -> "run"]

Call(s, line, n, room) == [s |-> s, in |-> AtMost(n, line), out |-> <<>>, room |-> room, ret |-> "SUCCESS"]

\* ioc_first_handshake of a client, ioc_switchbox_shared_socket_handshake of
\* a service.
ClientEnd(x, late) ==
    LET h == IF x.s.ready THEN x ELSE Then(Then(ClientMark(x), ClientMessage), ClientCert)
        r == [h EXCEPT !.s.ready = h.ret = "SUCCESS"]
    IN  IF r.ret = "SUCCESS" /\ prm.kind = "service" THEN Authenticate(r, late) ELSE r

\* ioc_first_handshake, ioc_switchbox_handshake_and_authentication: a
\* connection without a name is no use to the switchbox.
ServerEnd(x, late) ==
    LET h == IF x.s.ready THEN x
             ELSE Then(Then(Then(Then(ServerMark(x), ServerType), ServerLength), ServerName), ServerCert)
        named == prm.server = "switchbox" => h.s.name # <<>>
        r == IF h.ret # "SUCCESS" THEN h
             ELSE IF named THEN [h EXCEPT !.s.ready = TRUE] ELSE Return(h, "FAILED")
        service == prm.server = "switchbox" /\ r.s.type % NameBit = TypeCode("service")
    IN  IF r.ret = "SUCCESS" /\ service THEN Authenticate(r, late) ELSE r

Client(n, room, late) ==
    /\ cli.st = "run" /\ (late => prm.failures)
    /\ LET x == ClientEnd(Call(cli, down, n, room), late)
       IN  /\ cli' = Ended(x)
           /\ down' = x.in \o After(n, down)
           /\ up' = up \o x.out
    /\ UNCHANGED <<prm, srv>>

Server(n, room, late) ==
    /\ srv.st = "run" /\ (late => prm.failures)
    /\ LET x == ServerEnd(Call(srv, up, n, room), late)
       IN  /\ srv' = Ended(x)
           /\ up' = x.in \o After(n, up)
           /\ down' = down \o x.out
    /\ UNCHANGED <<prm, cli>>

\* An end that is ready goes on with its data.
ClientData ==
    /\ cli.st = "ok" /\ ~cli.data
    /\ cli' = [cli EXCEPT !.data = TRUE] /\ up' = Append(up, DataByte)
    /\ UNCHANGED <<prm, srv, down>>

ServerData ==
    /\ srv.st = "ok" /\ ~srv.data
    /\ srv' = [srv EXCEPT !.data = TRUE] /\ down' = Append(down, DataByte)
    /\ UNCHANGED <<prm, cli, up>>

\* The stream is found broken, or closed by an end that failed.
Broken(s, o) == s.st = "run" /\ (prm.failures \/ o.st = "failed")

ClientBroken == Broken(cli, srv) /\ cli' = [cli EXCEPT !.st = "failed"] /\ UNCHANGED <<prm, srv, up, down>>
ServerBroken == Broken(srv, cli) /\ srv' = [srv EXCEPT !.st = "failed"] /\ UNCHANGED <<prm, cli, up, down>>

ClientStep == \E n \in 0 .. Len(down), room \in prm.rooms, late \in BOOLEAN : Client(n, room, late)
ServerStep == \E n \in 0 .. Len(up), room \in prm.rooms, late \in BOOLEAN : Server(n, room, late)

Next == ClientStep \/ ServerStep \/ ClientData \/ ServerData \/ ClientBroken \/ ServerBroken

\* Each end's thread calls its function until it has a result, and sockets
\* deliver.  ClientCan is ENABLED <<ClientStep>>_vars, so that the fairness is
\* WF_vars(ClientStep); ServerCan likewise.
Changes(x, s, line, n) == Ended(x) # s \/ x.out # <<>> \/ x.in \o After(n, line) # line

ClientCan ==
    /\ cli.st = "run"
    /\ \E n \in 0 .. Len(down), room \in prm.rooms :
          Changes(ClientEnd(Call(cli, down, n, room), prm.failures), cli, down, n)
ServerCan ==
    /\ srv.st = "run"
    /\ \E n \in 0 .. Len(up), room \in prm.rooms :
          Changes(ServerEnd(Call(srv, up, n, room), prm.failures), srv, up, n)

Fairness ==
    /\ []<>(~ClientCan) \/ []<><<ClientStep>>_vars
    /\ []<>(~ServerCan) \/ []<><<ServerStep>>_vars

Spec == Init /\ [][Next]_vars
FairSpec == Spec /\ Fairness

----------------------------------------------------------------------------
\* The server acts on the type, name and request the client has sent, however
\* the message was cut up on the way.
NameArrives ==
    srv.ready /\ prm.server = "switchbox" =>
        srv.name = prm.name /\ srv.type = Head(Message) /\ cli.msg

\* What ioc_send_switchbox_authentication_message needs of its stream: a frame
\* is written as a whole or, for now, not at all.  After a partial write it
\* writes the buffer's beginning once more (ioc_switchbox_auth_frame.c:79), and
\* what follows is not the frame.
FramesUncut == ~cli.authCut /\ ~srv.authCut

\* An end that is done has taken exactly the bytes of the handshake: what is
\* left in the stream is the other end's data.  Of services, as long as no
\* authentication frame was written in parts.
InStep ==
    FramesUncut =>
        /\ srv.st = "ok" /\ cli.st # "failed" => up = IF cli.data THEN <<DataByte>> ELSE <<>>
        /\ cli.st = "ok" /\ srv.st # "failed" => down = IF srv.data THEN <<DataByte>> ELSE <<>>

\* What an end takes for the other's authentication frame is the frame, with
\* any part of it read in a call, if the sender's stream took it as a whole.
AuthIntact ==
    /\ cli.authRcvd /\ ~srv.authCut => cli.authIn = Frame
    /\ srv.authRcvd /\ ~cli.authCut => srv.authIn = Frame

\* Without failures neither end waits for the other for ever: a handshake with
\* a name, or with a server that needs none, is completed at both ends, unless
\* an authentication frame is written in parts.
Completes ==
    /\ ~prm.failures
    /\ prm.name # <<>> \/ prm.server = "regular"
    /\ []FramesUncut
    => <>(cli.st = "ok" /\ srv.st = "ok")
=============================================================================
