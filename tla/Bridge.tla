------------------------------- MODULE Bridge -------------------------------
(***************************************************************************)
(* The bytes of one visitor through the tunnel: from the visitor's socket,   *)
(* through ncxs and ncxc, to the service, and back.                          *)
(*                                                                           *)
(* Four Connections are involved, two in each process; each is named after   *)
(* its peer:                                                                 *)
(*                                                                           *)
(*    V <-> visitor  ncxs  origin <-> server  ncxc  service <-> X            *)
(*                                                                           *)
(* V is the visitor and X the service. The visitor may send at once; its     *)
(* bytes wait in ncxs until ncxc's data connection (origin) says hello. ncxs *)
(* then couples the two, tells ncxc to start, and both forward. Commands and *)
(* data share one byte stream, and a read returns what has arrived, cut      *)
(* anywhere. Writes are taken whole by the kernel (Stream models the short   *)
(* ones); a write to a peer that has gone is lost, fails or raises SIGPIPE.  *)
(***************************************************************************)
EXTENDS Wire

CONSTANTS
    Nonce,      \* the digest of the data channel hello
    MaxUp,      \* bound: bytes the visitor sends
    MaxDown     \* bound: bytes the service sends

ASSUME BridgeAssumption == Nonce \in Strings /\ MaxUp \in Nat /\ MaxDown \in Nat

Ends == {"V", "X"}
Connections == {"visitor", "origin", "server", "service"}
Nodes == Ends \cup Connections
Peer == [V |-> "visitor", visitor |-> "V", origin |-> "server", server |-> "origin",
         service |-> "X", X |-> "service"]
Of == [ncxs |-> {"visitor", "origin"}, ncxc |-> {"server", "service"}]

VARIABLES
    sent,       \* per end: number of bytes it has sent
    got,        \* per end: the bytes it has read
    link,       \* per node: the bytes under way to it
    fin,        \* the nodes whose peer has closed
    open,       \* the nodes whose socket is open
    buf,        \* per Connection: its input buffer
    bridged,    \* ncxs: handle_data_channel_hello has run
    started,    \* ncxc: do_data_channel_transforward has run
    left,       \* the ends that closed
    died        \* per process: "no", or what ended it

vars == <<sent, got, link, fin, open, buf, bridged, started, left, died>>

\* The n-th byte of the visitor and of the service.
ByteOf(e, n) == IF e = "V" THEN 100 + n ELSE 150 + n
Sent(e) == [n \in 1..sent[e] |-> ByteOf(e, n)]

do_data_channel_handshake ==
    headerInstaller(SerializeAsString(set_digest(set_hello_type(NewHello, 1), Nonce)))
StartCmd == headerInstaller(DataChannelCmd!InternalSerialize(DataChannelCmd!set(0)))

\* A visitor is accepted and waits; ncxc's DataChannel has connected and has sent
\* its hello.
Init ==
    /\ sent = [e \in Ends |-> 0]
    /\ got = [e \in Ends |-> <<>>]
    /\ link = [n \in Nodes |-> IF n = "origin" THEN do_data_channel_handshake ELSE <<>>]
    /\ fin = {}
    /\ open = {"V", "visitor", "origin", "server"}
    /\ buf = [c \in Connections |-> <<>>]
    /\ bridged = FALSE
    /\ started = FALSE
    /\ left = {}
    /\ died = [p \in {"ncxs", "ncxc"} |-> "no"]

-----------------------------------------------------------------------------
(* The visitor and the service.                                            *)

EndSends(e) ==
    /\ e \in open
    /\ sent[e] < IF e = "V" THEN MaxUp ELSE MaxDown
    /\ sent' = [sent EXCEPT ![e] = @ + 1]
    /\ link' = IF Peer[e] \in open
               THEN [link EXCEPT ![Peer[e]] = Append(@, ByteOf(e, sent[e] + 1))] ELSE link
    /\ UNCHANGED <<got, fin, open, buf, bridged, started, left, died>>

EndReads(e) ==
    /\ e \in open
    /\ link[e] # <<>>
    /\ got' = [got EXCEPT ![e] = @ \o link[e]]
    /\ link' = [link EXCEPT ![e] = <<>>]
    /\ UNCHANGED <<sent, fin, open, buf, bridged, started, left, died>>

EndCloses(e) ==
    /\ e \in open
    /\ open' = open \ {e}
    /\ fin' = fin \cup {Peer[e]}
    /\ left' = left \cup {e}
    /\ link' = [link EXCEPT ![e] = <<>>]
    /\ UNCHANGED <<sent, got, buf, bridged, started, died>>

-----------------------------------------------------------------------------
(* What a step of ncxs or ncxc does to the sockets.                        *)

\* ReadNonBlocking on c returns the first k bytes under way and, if end, goes on
\* to the end of the stream. A reset gives the end with bytes lost.
CanRead(c, k, end) ==
    /\ c \in open
    /\ k \in 0..Len(link[c])
    /\ end => c \in fin
    /\ k > 0 \/ end

Input(c, k) == buf[c] \o SubSeq(link[c], 1, k)

\* A handler that takes the header of a message of n bytes and leaves the message.
HeaderOnly(input, n) == SubSeq(input, MSG_HEADER_LENGTH + 1, Len(input))

\* The first message, of n bytes, and what is left once it is retrieved.
Message(input, n) == SubSeq(input, MSG_HEADER_LENGTH + 1, MSG_HEADER_LENGTH + n)
AfterMessage(input, n) == SubSeq(input, MSG_HEADER_LENGTH + n + 1, Len(input))

\* Of the bytes under way to c the first k are taken; the Connections of closed
\* are closed, those of fresh opened with their peers; bytes are sent on `to`.
Sockets(c, k, closed, fresh, to, bytes) ==
    /\ link' = [n \in Nodes |->
                  IF n \in closed THEN <<>>
                  ELSE IF n = c THEN SubSeq(link[c], k + 1, Len(link[c]))
                  ELSE IF n = Peer[to] /\ n \in open \cup fresh THEN link[n] \o bytes
                  ELSE link[n]]
    /\ open' = (open \cup fresh) \ closed
    /\ fin' = fin \cup {Peer[n] : n \in closed}
    /\ UNCHANGED <<sent, got, left>>

\* The process ends and the kernel closes its sockets.
Dies(p, why) ==
    /\ died' = [died EXCEPT ![p] = why]
    /\ open' = open \ Of[p]
    /\ fin' = fin \cup {Peer[n] : n \in Of[p] \cap open}
    /\ link' = [n \in Nodes |-> IF n \in Of[p] THEN <<>> ELSE link[n]]
    /\ UNCHANGED <<sent, got, buf, bridged, started, left>>

\* Somebody stops the process.
Killed(p) == died[p] = "no" /\ Dies(p, "killed")

\* A write to a peer that has gone may raise SIGPIPE, which nothing ignores.
SigPipe(p, to) == Peer[to] \notin open /\ Dies(p, "sigpipe")

-----------------------------------------------------------------------------
(* ncxs.                                                                   *)

\* A close that leaves the other end of the bridge alone.
Alone(c) == {c}

\* A close of one end of the bridge closes the other (BridgeCloser).
WithPartner(c) == {c} \cup IF bridged THEN Of.ncxs \cap open ELSE {}

\* handle_data_in of the visitor or of the coupled data connection: the bytes go
\* to the other Connection. After a close the other one is gone, and the bytes
\* that came with the end stay behind. A write that fails closes the other
\* Connection, and the bridge with it, from inside this handler.
Forward(c, k, end) ==
    LET other == CHOOSE d \in Of.ncxs : d # c
        input == Input(c, k)
        forwards == bridged /\ ~end /\ input # <<>> /\ other \in open
    IN  /\ CanRead(c, k, end)
        /\ \/ /\ Sockets(c, k, IF end THEN WithPartner(c) ELSE {}, {},
                         other, IF forwards THEN input ELSE <<>>)
              /\ buf' = [buf EXCEPT ![c] = IF forwards THEN <<>> ELSE input]
              /\ UNCHANGED <<bridged, started, died>>
           \/ /\ forwards /\ Peer[other] \notin open
              /\ Sockets(c, k, WithPartner(other), {}, other, <<>>)
              /\ buf' = [buf EXCEPT ![c] = <<>>]
              /\ UNCHANGED <<bridged, started, died>>
           \/ forwards /\ SigPipe("ncxs", other)

ncxs_VisitorIn(k, end) == Forward("visitor", k, end)
ncxs_OriginIn(k, end) == bridged /\ Forward("origin", k, end)

\* The visitor's early bytes go out ahead of the command.
EarlyBytesFirst(early) == early \o StartCmd

\* The command goes out, then what the visitor has sent so far.
StartAndEarlyBytes(early) == StartCmd \o early

\* handle_new_connection on the data connection: a whole hello couples it with the
\* visitor, either of which may have closed before. With the end of the stream the
\* data connection is closed first, ahead of its close notice, and the command goes
\* nowhere; a write that fails later closes both.
ncxs_Hello(k, end) ==
    LET input == Input("origin", k)
        n == canReadMsg(input)
        hello == ParseFromString(NewHello, Message(input, n))
        ended == IF end THEN {"origin"} ELSE {}
    IN  /\ ~bridged
        /\ CanRead("origin", k, end)
        /\ \/ /\ n = 0
              /\ Sockets("origin", k, ended, {}, "origin", <<>>)
              /\ buf' = [buf EXCEPT !.origin = LeftOnZero(input)]
              /\ UNCHANGED <<bridged, started, died>>
           \/ /\ n > 0
              /\ hello.hello_type = 1 /\ hello.digest = Nonce
              /\ \/ /\ \/ Sockets("origin", k, ended, {}, "origin",
                                  StartAndEarlyBytes(buf.visitor))
                       \/ /\ ~end /\ Peer.origin \notin open
                          /\ Sockets("origin", k, Of.ncxs \cap open, {}, "origin", <<>>)
                    /\ bridged' = TRUE
                    /\ buf' = [buf EXCEPT !.visitor = <<>>, !.origin = AfterMessage(input, n)]
                    /\ UNCHANGED <<started, died>>
                 \/ SigPipe("ncxs", "origin")

-----------------------------------------------------------------------------
(* ncxc.                                                                   *)

\* The end of the data connection: removeConnection deletes the DataChannel with
\* its service connection; then handle_message runs the deleted channel's handler,
\* which goes wrong once it has something to handle.
ncxc_ServerEnd(k) ==
    LET input == Input("server", k)
    IN  /\ CanRead("server", k, TRUE)
        /\ \/ /\ Sockets("server", k, Of.ncxc \cap open, {}, "server", <<>>)
              /\ buf' = [buf EXCEPT !.server = <<>>]
              /\ UNCHANGED <<bridged, started, died>>
           \/ /\ IF started THEN input # <<>> ELSE canReadMsg(input) > 0
              /\ Dies("ncxc", "deleted")

\* A start that leaves the bytes behind the command in the buffer.
KeepRest(rest) == [forwarded |-> <<>>, kept |-> rest]

\* The end of do_data_channel_transforward: what came behind the command is
\* forwarded at once.
ForwardRest(rest) == [forwarded |-> rest, kept |-> <<>>]

\* wait_data_channel_start_cmd: on the whole command the service is connected.
ncxc_Start(k) ==
    LET input == Input("server", k)
        n == canReadMsg(input)
        cmd == DataChannelCmd!Parse(Message(input, n))
        rest == ForwardRest(AfterMessage(input, n))
    IN  /\ ~started
        /\ CanRead("server", k, FALSE)
        /\ \/ /\ n = 0
              /\ Sockets("server", k, {}, {}, "server", <<>>)
              /\ buf' = [buf EXCEPT !.server = LeftOnZero(input)]
              /\ UNCHANGED <<bridged, started, died>>
           \/ /\ n > 0 /\ cmd.value = 0
              /\ \/ /\ Sockets("server", k, {}, {"service", "X"}, "service", rest.forwarded)
                    /\ buf' = [buf EXCEPT !.server = rest.kept]
                    /\ started' = TRUE
                    /\ UNCHANGED <<bridged, died>>
                 \/ Dies("ncxc", "refused")

\* The data connection's handler while forwarding. A write that fails closes the
\* service's connection alone. Once that has closed, get_connection() is null.
ncxc_ServerIn(k) ==
    LET input == Input("server", k)
    IN  /\ started
        /\ CanRead("server", k, FALSE)
        /\ \/ /\ "service" \in open
              /\ \/ /\ \/ Sockets("server", k, {}, {}, "service", input)
                       \/ /\ Peer.service \notin open
                          /\ Sockets("server", k, {"service"}, {}, "service", <<>>)
                    /\ buf' = [buf EXCEPT !.server = <<>>]
                    /\ UNCHANGED <<bridged, started, died>>
                 \/ SigPipe("ncxc", "service")
           \/ "service" \notin open /\ Dies("ncxc", "null")

\* The service's connection: its end is told to nobody, and the bytes that came
\* with it are forwarded. A write that fails closes the data connection, which
\* deletes the DataChannel with the service's connection.
ncxc_ServiceIn(k, end) ==
    LET input == Input("service", k)
    IN  /\ CanRead("service", k, end)
        /\ \/ /\ \/ Sockets("service", k, IF end THEN {"service"} ELSE {}, {}, "server", input)
                 \/ /\ input # <<>> /\ Peer.server \notin open
                    /\ Sockets("service", k, Of.ncxc \cap open, {}, "server", <<>>)
              /\ buf' = [buf EXCEPT !.service = <<>>]
              /\ UNCHANGED <<bridged, started, died>>
           \/ input # <<>> /\ SigPipe("ncxc", "server")

-----------------------------------------------------------------------------

VisitorIn == \E k \in 0..Len(link.visitor), end \in BOOLEAN : ncxs_VisitorIn(k, end)
OriginIn ==
    \E k \in 0..Len(link.origin), end \in BOOLEAN : ncxs_Hello(k, end) \/ ncxs_OriginIn(k, end)
ServerIn == \E k \in 0..Len(link.server) : ncxc_Start(k) \/ ncxc_ServerIn(k)
ServerEnd == \E k \in 0..Len(link.server) : ncxc_ServerEnd(k)
ServiceIn == \E k \in 0..Len(link.service), end \in BOOLEAN : ncxc_ServiceIn(k, end)

Next ==
    \/ \E e \in Ends : EndSends(e) \/ EndReads(e) \/ EndCloses(e)
    \/ \E p \in {"ncxs", "ncxc"} : Killed(p)
    \/ VisitorIn \/ OriginIn \/ ServerIn \/ ServerEnd \/ ServiceIn

\* epoll is level triggered and the loops serve every ready connection, so what
\* has arrived on a connection is read, and so is its end once it has arrived.
\* The ends read what reaches them; nobody has to send or to close.
Spec ==
    /\ Init /\ [][Next]_vars
    /\ \A e \in Ends : WF_vars(EndReads(e))
    /\ WF_vars(VisitorIn) /\ WF_vars(OriginIn)
    /\ WF_vars(ServerIn) /\ WF_vars(ServerEnd) /\ WF_vars(ServiceIn)

-----------------------------------------------------------------------------
(* Properties.                                                             *)

\* Each end reads the bytes of the other in order and nothing else, whoever closes
\* or dies: no command byte leaks into the data and no byte of data is taken for
\* a command, although both share the data connection and reads cut anywhere.
InOrder ==
    /\ \E n \in 0..sent["V"] : got["X"] = SubSeq(Sent("V"), 1, n)
    /\ \E n \in 0..sent["X"] : got["V"] = SubSeq(Sent("X"), 1, n)

\* Neither end has left, the service took the connection, nobody stopped a process.
Undisturbed == left = {} /\ \A p \in {"ncxs", "ncxc"} : died[p] \notin {"refused", "killed"}

\* While neither end has left and nobody stops them, both processes live and every
\* byte sent is read or on its way, in order, at one place only; the bytes the
\* visitor sent before the data channel was there are behind the start command
\* (the last lines of handle_data_channel_hello and of
\* do_data_channel_transforward).
NothingLost ==
    Undisturbed =>
        /\ died = [p \in {"ncxs", "ncxc"} |-> "no"]
        /\ got["X"] \o link["X"] \o buf.server \o link.server \o buf.visitor \o link.visitor
             = (IF bridged /\ ~started THEN StartCmd ELSE <<>>) \o Sent("V")
        /\ got["V"] \o link["V"] \o buf.origin \o link.origin \o buf.service \o link.service
             = (IF bridged THEN <<>> ELSE do_data_channel_handshake) \o Sent("X")

\* What is sent arrives unless an end leaves, the service refuses or a process is
\* stopped: no forwarding handler is left uncalled with bytes in its buffer.
AllArrives ==
    /\ \A n \in 1..MaxUp :
          sent["V"] >= n ~> Len(got["X"]) >= n \/ ~Undisturbed
    /\ \A n \in 1..MaxDown :
          sent["X"] >= n ~> Len(got["V"]) >= n \/ ~Undisturbed

\* A bridge whose visitor had closed before the hello: the visitor's close notice
\* is set too late to be called.
Orphaned == bridged /\ "visitor" \notin open /\ "origin" \in open

\* A bridge that loses a peer of one of its open ends goes down with both processes'
\* Connections, also when a failing write finds it out from inside the other end's
\* handler; and a visitor that leaves at any time, also while it still waits, leaves
\* nothing open but a bridge that was orphaned when it was made (handle_close,
\* cut_off_bridge, delete_data_channel).
LeavingTearsDown ==
    /\ \A c \in Of.ncxs :
          bridged /\ c \in open /\ Peer[c] \notin open ~> open \cap Connections = {}
    /\ "V" \in left ~> open \cap Connections = {} \/ Orphaned

=============================================================================
