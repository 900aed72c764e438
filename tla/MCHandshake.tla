---------------------------- MODULE MCHandshake -----------------------------
(* Small names, frames and certificates for Handshake. *)
EXTENDS Handshake

MCContent == <<3, 4>>
MCCert == <<>>

\* Clients of both kinds of server; the stream takes any part of a message.
ClientStarts ==
    [kind : {"client"}, server : {"switchbox", "regular"}, name : {<<>>, <<5, 0>>, <<5, 6, 0>>},
     want : BOOLEAN, secure : BOOLEAN, rooms : {{0, 1, 2, 20}}, failures : BOOLEAN]

\* Services; the stream takes all, nothing or a part of a message or a frame.
ServiceStarts ==
    [kind : {"service"}, server : {"switchbox"}, name : {<<5, 0>>, <<5, 6, 0>>},
     want : BOOLEAN, secure : BOOLEAN, rooms : {{0, 1, 20}}, failures : BOOLEAN]

MCStarts == ClientStarts \union ServiceStarts
=============================================================================
