------------------------------- MODULE Tunnel -------------------------------
(***************************************************************************)
(* The control plane of the tunnel: ncx_server (NServer, SControlChannel,    *)
(* BridgeCloser) and ncx_client (NClient, CControlChannel, DataChannel)      *)
(* pairing outside visitors with data channels.                              *)
(*                                                                           *)
(* A client process opens one control connection per service and says hello; *)
(* the server answers with a nonce, opens the service's proxy port and, for  *)
(* each visitor on it, queues the visitor and sends one CREATE command. For  *)
(* a command the client opens a data channel that says hello with the nonce; *)
(* the server pops a visitor, bridges the two and sends START.               *)
(*                                                                           *)
(* Both programs are single reactors, so a handler is one step; the two      *)
(* processes, the visitors and the network interleave. A control connection  *)
(* is named by its service and the client's incarnation, and so is its       *)
(* nonce, which the server draws fresh. The server's commands on it are one  *)
(* HELLO and then identical CREATEs: only how many are where matters.        *)
(***************************************************************************)
EXTENDS Naturals, Sequences, FiniteSets

CONSTANTS
    Services,           \* the services a client is configured with
    Visitors,           \* outside connections to the proxy ports, as they come
    DataChannels,       \* data channels, as they are made; one per visitor at least
    MaxClientStarts,    \* bound: client processes, one after the other
    MaxServerStarts,    \* bound: server processes, one after the other
    MaxBatch,           \* bound: commands delivered by one read event
    Files,              \* what a client's file may say: a proxy_port per service
    TakenPorts,         \* ports in use on the server's machine, its own among them
    Faults              \* the environment's doings: see FaultKinds

FaultKinds == {"client_exits", "server_exits", "service_refuses", "visitor_leaves"}

ASSUME TunnelAssumption ==
    /\ IsFiniteSet(DataChannels)
    /\ Visitors \subseteq Nat
    /\ DataChannels \subseteq Nat
    /\ Visitors \cap DataChannels = {}
    /\ MaxClientStarts \in Nat
    /\ MaxServerStarts \in Nat
    /\ MaxBatch \in Nat
    /\ Files \subseteq [Services -> Nat]
    /\ Faults \subseteq FaultKinds

Controls == Services \X (1..MaxClientStarts)

VARIABLES
    (* the server process *)
    server,         \* "up" or "down"
    serverStarts,
    died,           \* why the last server process died
    sc_map_,        \* the control channels by nonce; entries are never erased
    sconn,          \* per control connection: the server's end
    wait_handle_visitors_,  \* per control channel: the visitors queued
    visitor,        \* per visitor: its connection to the proxy port
    home,           \* per visitor: the control channel whose port it used
    bridge_closers_, \* registered bridges: visitor, data channel
    dsrv,           \* per data channel: the server's end
    (* the client process *)
    proxy_port,     \* per service: what the client's file says; it stays the same
    client,         \* "up" or "down"
    clientStarts,
    cconn,          \* per control connection: the client's end
    down,           \* per control connection: commands sent, not delivered
    input_buffer,   \* per control connection: delivered, not handled
    dcli,           \* per data channel: the client's end
    nonce_          \* per data channel: the nonce it says hello with

serverVars == <<server, serverStarts, died, sc_map_, sconn,
                wait_handle_visitors_, visitor, home, bridge_closers_, dsrv>>
clientVars == <<proxy_port, client, clientStarts, cconn, down, input_buffer, dcli,
                nonce_>>
vars == <<serverVars, clientVars>>

None == <<>>

\* Type invariant of the two processes' state.
TypeOK ==
    /\ server \in {"up", "down"}
    /\ serverStarts \in Nat
    /\ died \in {"no", "killed", "bind", "nonce", "pop", "sigpipe", "visitor"}
    /\ sc_map_ \subseteq Controls
    /\ sconn \in [Controls -> {"none", "pending", "open", "closed", "dead"}]
    /\ wait_handle_visitors_ \in [Controls -> Seq(Visitors)]
    /\ visitor \in [Visitors -> {"new", "open", "closed"}]
    /\ home \in [Visitors -> Controls \cup {None}]
    /\ bridge_closers_ \subseteq Visitors \X DataChannels
    /\ dsrv \in [DataChannels -> {"none", "pending", "bridged", "cut", "dead"}]
    /\ proxy_port \in [Services -> Nat]
    /\ client \in {"up", "down"}
    /\ clientStarts \in 0..MaxClientStarts
    /\ cconn \in [Controls -> {"none", "hello_sent", "established", "closed"}]
    /\ down \in [Controls -> Nat]
    /\ input_buffer \in [Controls -> Nat]
    /\ dcli \in [DataChannels -> {"none", "hello_sent", "started", "gone"}]
    /\ nonce_ \in [DataChannels -> Controls \cup {None}]

Init ==
    /\ server = "up"
    /\ serverStarts = 1
    /\ died = "no"
    /\ sc_map_ = {}
    /\ sconn = [k \in Controls |-> "none"]
    /\ wait_handle_visitors_ = [k \in Controls |-> <<>>]
    /\ visitor = [v \in Visitors |-> "new"]
    /\ home = [v \in Visitors |-> None]
    /\ bridge_closers_ = {}
    /\ dsrv = [d \in DataChannels |-> "none"]
    /\ proxy_port \in Files
    /\ client = "down"
    /\ clientStarts = 0
    /\ cconn = [k \in Controls |-> "none"]
    /\ down = [k \in Controls |-> 0]
    /\ input_buffer = [k \in Controls |-> 0]
    /\ dcli = [d \in DataChannels |-> "none"]
    /\ nonce_ = [d \in DataChannels |-> None]

-----------------------------------------------------------------------------
(* Process death and restart.                                              *)

\* The server process ends: its memory goes and the kernel closes its sockets.
\* A data channel whose START was sent is "cut", an unserved one is "dead".
ServerDies(why) ==
    /\ server' = "down"
    /\ died' = why
    /\ sc_map_' = {}
    /\ sconn' = [k \in Controls |->
                    IF sconn[k] \in {"pending", "open"} THEN "dead" ELSE sconn[k]]
    /\ wait_handle_visitors_' = [k \in Controls |-> <<>>]
    /\ visitor' = [v \in Visitors |->
                      IF visitor[v] = "open" THEN "closed" ELSE visitor[v]]
    /\ bridge_closers_' = {}
    /\ dsrv' = [d \in DataChannels |->
                   CASE dsrv[d] = "pending" -> "dead"
                     [] dsrv[d] = "bridged" -> "cut"
                     [] OTHER -> dsrv[d]]
    /\ UNCHANGED <<serverStarts, home>>

ServerExits ==
    /\ "server_exits" \in Faults
    /\ server = "up"
    /\ ServerDies("killed")
    /\ UNCHANGED clientVars

ServerStarts ==
    /\ server = "down"
    /\ serverStarts < MaxServerStarts
    /\ server' = "up"
    /\ serverStarts' = serverStarts + 1
    /\ died' = "no"
    /\ UNCHANGED <<sc_map_, sconn, wait_handle_visitors_, visitor, home,
                   bridge_closers_, dsrv, clientVars>>

\* The client process ends, killed or by errif's exit(1): the kernel closes
\* its sockets and drops what they had received.
ClientDies ==
    /\ client' = "down"
    /\ cconn' = [k \in Controls |->
                    IF cconn[k] \in {"hello_sent", "established"} THEN "closed"
                    ELSE cconn[k]]
    /\ down' = [k \in Controls |-> 0]
    /\ input_buffer' = [k \in Controls |-> 0]
    /\ dcli' = [d \in DataChannels |->
                   IF dcli[d] \in {"hello_sent", "started"} THEN "gone" ELSE dcli[d]]
    /\ UNCHANGED <<proxy_port, clientStarts, nonce_>>

ClientExits ==
    /\ "client_exits" \in Faults
    /\ client = "up"
    /\ ClientDies
    /\ UNCHANGED serverVars

\* TcpSocket::connect succeeds; otherwise errif ends the client.
Connects == server = "up"

\* Every control channel of a new client connects and sends its hello.
do_control_channel_handshake(started) ==
    /\ cconn' = [k \in Controls |->
                    IF k[2] = started THEN "hello_sent" ELSE cconn[k]]
    /\ sconn' = [k \in Controls |->
                    IF k[2] = started THEN "pending" ELSE sconn[k]]

\* NClient: one control channel per service. With no server to connect to the
\* new process exits at once.
ClientStarts ==
    /\ client = "down"
    /\ clientStarts < MaxClientStarts
    /\ Connects
    /\ client' = "up"
    /\ clientStarts' = clientStarts + 1
    /\ do_control_channel_handshake(clientStarts')
    /\ UNCHANGED <<server, serverStarts, died, sc_map_, wait_handle_visitors_,
                   visitor, home, bridge_closers_, dsrv, proxy_port, down,
                   input_buffer, dcli, nonce_>>

-----------------------------------------------------------------------------
(* The server's handlers.                                                  *)

\* The client's end of the control connection is still there to receive.
ClientReceives(k) == cconn[k] \in {"hello_sent", "established"}

\* Where a control connection stands after a read event: the event may carry
\* the client's FIN too, and then the connection is closed before the message
\* is handled.
AfterRead(gone) == IF gone THEN {"open", "closed"} ELSE {"open"}

\* Nothing on the server's machine listens on the port of k's service. A control
\* channel listens on its own as long as the process lives.
CanBind(k) ==
    /\ proxy_port[k[1]] \notin TakenPorts
    /\ \A j \in sc_map_ : proxy_port[j[1]] # proxy_port[k[1]]

\* handle_control_channel_hello: the HELLO goes out first, then the proxy port
\* is bound; if that fails errif ends the process. To a client that has gone the
\* HELLO, the first write on the connection, is lost.
handle_control_channel_hello(k) ==
    /\ server = "up"
    /\ sconn[k] = "pending"
    /\ \/ /\ CanBind(k)
          /\ sc_map_' = sc_map_ \cup {k}
          /\ sconn' \in {[sconn EXCEPT ![k] = c] : c \in AfterRead(~ClientReceives(k))}
          /\ UNCHANGED <<server, serverStarts, died, wait_handle_visitors_,
                         visitor, home, bridge_closers_, dsrv>>
       \/ /\ ~CanBind(k)
          /\ ServerDies("bind")
    /\ down' = IF ClientReceives(k) THEN [down EXCEPT ![k] = @ + 1] ELSE down
    /\ UNCHANGED <<proxy_port, client, clientStarts, cconn, input_buffer, dcli, nonce_>>

\* Connection::handle_close of a control connection: the connection is taken
\* out of epoll, but the control channel keeps it, its port and its queue.
ControlEof(k) ==
    /\ server = "up"
    /\ sconn[k] = "open"
    /\ ~ClientReceives(k)
    /\ sconn' = [sconn EXCEPT ![k] = "closed"]
    /\ UNCHANGED <<server, serverStarts, died, sc_map_, wait_handle_visitors_,
                   visitor, home, bridge_closers_, dsrv, clientVars>>

\* Visitors are numbered as they come, over all ports.
ComesNext(v) == \A u \in Visitors : u < v => visitor[u] # "new"

\* The proxy server of k accepts the connection. Its conn_id is taken to differ
\* from those of the open ones: Lifetimes models ids that collide.
newConnectionHandle(v, k) ==
    /\ visitor' = [visitor EXCEPT ![v] = "open"]
    /\ home' = [home EXCEPT ![v] = k]

\* The CREATE sent, the visitor left out of the queue.
CommandWithoutEnqueue(v, k) ==
    /\ newConnectionHandle(v, k)
    /\ UNCHANGED wait_handle_visitors_

Enqueue(v, k) ==
    /\ newConnectionHandle(v, k)
    /\ wait_handle_visitors_' = [wait_handle_visitors_ EXCEPT ![k] = Append(@, v)]

\* A CREATE only for the first visitor of the queue.
CommandOnlyIfIdle(v, k) ==
    /\ server = "up"
    /\ k \in sc_map_
    /\ visitor[v] = "new"
    /\ ComesNext(v)
    /\ Enqueue(v, k)
    /\ down' = IF wait_handle_visitors_[k] = <<>> /\ ClientReceives(k)
               THEN [down EXCEPT ![k] = @ + 1] ELSE down
    /\ UNCHANGED <<server, serverStarts, died, sc_map_, sconn, bridge_closers_,
                   dsrv, proxy_port, client, clientStarts, cconn, input_buffer, dcli,
                   nonce_>>

\* handle_new_outside_connection: queue the visitor and send CREATE. To a
\* client that has gone the write is lost, fails (handle_close) or raises
\* SIGPIPE, which nothing ignores.
handle_new_outside_connection(v, k) ==
    /\ server = "up"
    /\ k \in sc_map_
    /\ visitor[v] = "new"
    /\ ComesNext(v)
    /\ \/ /\ ClientReceives(k)
          /\ Enqueue(v, k)
          /\ down' = [down EXCEPT ![k] = @ + 1]
          /\ UNCHANGED <<server, serverStarts, died, sc_map_, sconn,
                         bridge_closers_, dsrv>>
       \/ /\ ~ClientReceives(k)
          /\ Enqueue(v, k)
          /\ sconn' \in {sconn, [sconn EXCEPT ![k] = "closed"]}
          /\ UNCHANGED <<server, serverStarts, died, sc_map_, bridge_closers_,
                         dsrv, down>>
       \/ /\ ~ClientReceives(k)
          /\ ServerDies("sigpipe")
          /\ UNCHANGED down
    /\ UNCHANGED <<proxy_port, client, clientStarts, cconn, input_buffer, dcli, nonce_>>

\* front() without pop().
PeekVisitor(k) == UNCHANGED wait_handle_visitors_

pop_visitor(k) ==
    wait_handle_visitors_' = [wait_handle_visitors_ EXCEPT ![k] = Tail(@)]

\* Serving whichever control channel has a visitor waiting.
BridgeAnyQueue(d) ==
    /\ server = "up"
    /\ dsrv[d] = "pending"
    /\ \E k \in sc_map_ :
          /\ wait_handle_visitors_[k] # <<>>
          /\ pop_visitor(k)
          /\ bridge_closers_' = bridge_closers_ \cup {<<Head(wait_handle_visitors_[k]), d>>}
    /\ dsrv' = [dsrv EXCEPT ![d] = "bridged"]
    /\ UNCHANGED <<server, serverStarts, died, sc_map_, sconn, visitor, home,
                   clientVars>>

\* handle_data_channel_hello: sc_map_->at throws for an unknown nonce, front()
\* of an empty queue is undefined; otherwise the head of the queue is bridged
\* with this connection and START is sent, and behind it what the visitor has
\* said so far. The visitor may have closed while it was queued: it is bridged
\* all the same. If the read that brought the hello brought the FIN too, the
\* data end is bridged already closed. To a client that has gone the writes are
\* lost or raise SIGPIPE; one that fails is left to ForwardToClient.
handle_data_channel_hello(d) ==
    LET k == nonce_[d]
        queue == wait_handle_visitors_[k]
    IN  /\ server = "up"
        /\ dsrv[d] = "pending"
        /\ \/ k \notin sc_map_ /\ ServerDies("nonce")
           \/ k \in sc_map_ /\ queue = <<>> /\ ServerDies("pop")
           \/ /\ k \in sc_map_ /\ queue # <<>>
              /\ dcli[d] = "gone" /\ ServerDies("sigpipe")
           \/ /\ k \in sc_map_
              /\ queue # <<>>
              /\ pop_visitor(k)
              /\ bridge_closers_' = bridge_closers_ \cup {<<Head(queue), d>>}
              /\ \/ dsrv' = [dsrv EXCEPT ![d] = "bridged"]
                 \/ dcli[d] = "gone" /\ dsrv' = [dsrv EXCEPT ![d] = "cut"]
              /\ UNCHANGED <<server, serverStarts, died, sc_map_, sconn,
                             visitor, home>>
        /\ UNCHANGED clientVars

\* The bridges that one of these ends belongs to.
BridgesOf(ends) == {b \in bridge_closers_ : b[1] \in ends \/ b[2] \in ends}

\* A close notice that reaches only its own end.
CutOneEnd(ends) ==
    /\ bridge_closers_' = bridge_closers_ \ BridgesOf(ends)
    /\ visitor' = [v \in Visitors |-> IF v \in ends THEN "closed" ELSE visitor[v]]
    /\ dsrv' = [d \in DataChannels |-> IF d \in ends THEN "cut" ELSE dsrv[d]]
    /\ UNCHANGED <<server, serverStarts, died, sc_map_, sconn,
                   wait_handle_visitors_, home>>

\* handle_close of the given ends: the close notice erases their bridge
\* closers, whose destructor force-closes the other ends at once.
cut_off_bridge(ends) ==
    LET cut == BridgesOf(ends)
    IN  /\ bridge_closers_' = bridge_closers_ \ cut
        /\ visitor' = [v \in Visitors |->
                          IF v \in ends \/ \E b \in cut : b[1] = v
                          THEN "closed" ELSE visitor[v]]
        /\ dsrv' = [d \in DataChannels |->
                       IF d \in ends \/ \E b \in cut : b[2] = d
                       THEN "cut" ELSE dsrv[d]]
        /\ UNCHANGED <<server, serverStarts, died, sc_map_, sconn,
                       wait_handle_visitors_, home>>

\* The visitor closes. While it is queued it has no close notice: it stays in
\* the queue.
VisitorEof(v) ==
    /\ "visitor_leaves" \in Faults
    /\ server = "up"
    /\ visitor[v] = "open"
    /\ cut_off_bridge({v})
    /\ UNCHANGED clientVars

\* The server reads the end of a data channel the client has closed.
DataEof(d) ==
    /\ server = "up"
    /\ dsrv[d] = "bridged"
    /\ dcli[d] = "gone"
    /\ cut_off_bridge({d})
    /\ UNCHANGED clientVars

\* Bytes of a bridge go to a peer that has closed, before the server has read
\* its end: the write fails (handle_close) or raises SIGPIPE. One that is merely
\* lost changes nothing here.
WriteFails(end, why) == cut_off_bridge({end}) \/ ServerDies(why)

\* The visitor's bytes for a data channel whose client has gone.
ForwardToClient(v, d) ==
    /\ server = "up"
    /\ <<v, d>> \in bridge_closers_
    /\ visitor[v] = "open" /\ dsrv[d] = "bridged"
    /\ dcli[d] = "gone"
    /\ WriteFails(d, "sigpipe")
    /\ UNCHANGED clientVars

\* The service's bytes for a visitor that has left.
ForwardToVisitor(v, d) ==
    /\ "visitor_leaves" \in Faults
    /\ server = "up"
    /\ <<v, d>> \in bridge_closers_
    /\ visitor[v] = "open" /\ dsrv[d] = "bridged"
    /\ dcli[d] \in {"started", "gone"}
    /\ WriteFails(v, "visitor")
    /\ UNCHANGED clientVars

-----------------------------------------------------------------------------
(* The client's handlers.                                                  *)

\* A read event on a control connection brings n commands, and the end of the
\* stream if the server has gone and nothing else is left. On the end of the
\* stream the connection is closed first; the message handler runs after that
\* in either case, once.
ReadEvent(k, n, eof) ==
    /\ client = "up"
    /\ ClientReceives(k)
    /\ n <= down[k]
    /\ n > 0 \/ eof
    /\ eof => sconn[k] = "dead" /\ n = down[k]

Buffered(k, n) == input_buffer[k] + n

\* The end of the stream alone, the buffer empty: the handler returns at once.
ReadEof(k, n, eof) ==
    /\ ReadEvent(k, n, eof)
    /\ Buffered(k, n) = 0
    /\ cconn' = [cconn EXCEPT ![k] = "closed"]
    /\ UNCHANGED <<serverVars, proxy_port, client, clientStarts, down, input_buffer,
                   dcli, nonce_>>

\* The bookkeeping of a read event whose handler takes ONE command out of the
\* buffer: what is left there waits for the next read event.
TakeOne(k, n, eof) ==
    /\ Buffered(k, n) > 0
    /\ down' = [down EXCEPT ![k] = @ - n]
    /\ input_buffer' = [input_buffer EXCEPT ![k] = Buffered(k, n) - 1]
    /\ cconn' = [cconn EXCEPT ![k] = IF eof THEN "closed" ELSE "established"]

\* wait_control_channel_hello: the nonce becomes the channel's id_ and commands
\* are expected from here on.
wait_control_channel_hello(k, n, eof) ==
    /\ ReadEvent(k, n, eof)
    /\ cconn[k] = "hello_sent"
    /\ TakeOne(k, n, eof)
    /\ UNCHANGED <<serverVars, proxy_port, client, clientStarts, dcli, nonce_>>

\* The client's end of a new data channel exists, the hello goes out.
newConnection(d) ==
    /\ dcli' = [dcli EXCEPT ![d] = "hello_sent"]
    /\ dsrv' = [dsrv EXCEPT ![d] = "pending"]

\* A data channel connects and says hello with the nonce.
do_data_channel_handshake(d, k) ==
    /\ newConnection(d)
    /\ nonce_' = [nonce_ EXCEPT ![d] = k]

\* A data channel with a fresh id, the next number, joins data_pool_.
handle_cmd_create_datachannel(k) ==
    \E d \in DataChannels :
        /\ dcli[d] = "none"
        /\ \A c \in DataChannels : c < d => dcli[c] # "none"
        /\ do_data_channel_handshake(d, k)

\* wait_server_cmd: one CREATE. With no server to connect the data channel to,
\* errif ends the client.
wait_server_cmd(k, n, eof) ==
    /\ ReadEvent(k, n, eof)
    /\ cconn[k] = "established"
    /\ \/ /\ Connects
          /\ TakeOne(k, n, eof)
          /\ handle_cmd_create_datachannel(k)
          /\ UNCHANGED <<server, serverStarts, died, sc_map_, sconn,
                         wait_handle_visitors_, visitor, home,
                         bridge_closers_, proxy_port, client, clientStarts>>
       \/ /\ ~Connects
          /\ Buffered(k, n) > 0
          /\ ClientDies
          /\ UNCHANGED serverVars

ReadControl(k) ==
    \E n \in 0..MaxBatch, eof \in BOOLEAN :
        \/ ReadEof(k, n, eof)
        \/ wait_control_channel_hello(k, n, eof)
        \/ wait_server_cmd(k, n, eof)

\* wait_data_channel_start_cmd: START connects the service and forwarding
\* begins; a service that refuses ends the client process.
wait_data_channel_start_cmd(d) ==
    /\ client = "up"
    /\ dcli[d] = "hello_sent"
    /\ dsrv[d] \in {"bridged", "cut"}
    /\ \/ /\ dcli' = [dcli EXCEPT ![d] = "started"]
          /\ UNCHANGED <<proxy_port, client, clientStarts, cconn, down, input_buffer,
                         nonce_>>
       \/ /\ "service_refuses" \in Faults
          /\ ClientDies
    /\ UNCHANGED serverVars

\* The close callback lost once forwarding has begun.
DeleteOnlyBeforeStart(d) ==
    /\ client = "up"
    /\ dcli[d] = "hello_sent"
    /\ dsrv[d] \in {"cut", "dead"}
    /\ dcli' = [dcli EXCEPT ![d] = "gone"]
    /\ UNCHANGED <<serverVars, proxy_port, client, clientStarts, cconn, down,
                   input_buffer, nonce_>>

\* The server's end of a data channel has closed: the data channel is deleted.
\* When one read brings START and the close, the channel is deleted before
\* START is handled by it: undefined, harmless or the end of the client.
delete_data_channel(d) ==
    /\ client = "up"
    /\ dcli[d] \in {"hello_sent", "started"}
    /\ dsrv[d] \in {"cut", "dead"}
    /\ \/ /\ dcli' = [dcli EXCEPT ![d] = "gone"]
          /\ UNCHANGED <<proxy_port, client, clientStarts, cconn, down, input_buffer,
                         nonce_>>
       \/ /\ dcli[d] = "hello_sent"
          /\ dsrv[d] = "cut"
          /\ ClientDies
    /\ UNCHANGED serverVars

-----------------------------------------------------------------------------

Next ==
    \/ ServerExits
    \/ ServerStarts
    \/ ClientExits
    \/ ClientStarts
    \/ \E k \in Controls :
          \/ handle_control_channel_hello(k)
          \/ ControlEof(k)
          \/ ReadControl(k)
          \/ \E v \in Visitors : handle_new_outside_connection(v, k)
    \/ \E v \in Visitors : VisitorEof(v)
    \/ \E d \in DataChannels :
          \/ handle_data_channel_hello(d)
          \/ DataEof(d)
          \/ wait_data_channel_start_cmd(d)
          \/ delete_data_channel(d)
          \/ \E v \in Visitors : ForwardToClient(v, d) \/ ForwardToVisitor(v, d)

Spec == Init /\ [][Next]_vars

\* What each reactor has to do about a connection: the server about a control
\* connection and about a data channel, the client about a data channel.
ServeControl(k) == handle_control_channel_hello(k) \/ ControlEof(k)
ServeData(d) == handle_data_channel_hello(d) \/ DataEof(d)
ReadData(d) == wait_data_channel_start_cmd(d) \/ delete_data_channel(d)

\* Both reactors keep running their handlers: epoll reports a readable
\* connection until it is read. Nothing is promised of visitors, of process
\* starts or of exits.
Fairness ==
    /\ \A k \in Controls : WF_vars(ServeControl(k)) /\ WF_vars(ReadControl(k))
    /\ \A d \in DataChannels : WF_vars(ServeData(d)) /\ WF_vars(ReadData(d))

FairSpec == Spec /\ Fairness

-----------------------------------------------------------------------------

\* pop_visitor never meets an empty queue: front() of an empty std::queue is
\* undefined. A data hello is pending, or a CREATE under way, only for a
\* visitor that is still queued, whatever crashes and losses happen between.
NeverPopsEmpty == died # "pop"

\* The data channels of control channel k that have yet to be given a visitor.
Pending(k) == {d \in DataChannels : dsrv[d] = "pending" /\ nonce_[d] = k}

\* Of the commands on the way, the HELLO, which calls for no data channel.
HelloDue(k) == IF cconn[k] = "hello_sent" THEN 1 ELSE 0

\* The HELLO is still to be delivered if it is due, and every unserved data
\* channel and every CREATE on the way has a visitor in the channel's queue.
Covered(k) ==
    /\ HelloDue(k) <= down[k]
    /\ Cardinality(Pending(k)) + down[k] + input_buffer[k]
           <= Len(wait_handle_visitors_[k]) + HelloDue(k)

\* Before its HELLO nothing is on its way on a control connection; after that
\* what is on its way is covered by the queue.
PairingOf(k) ==
    /\ sconn[k] \in {"none", "pending"} =>
          /\ k \notin sc_map_
          /\ cconn[k] # "established"
          /\ down[k] = 0
          /\ input_buffer[k] = 0
          /\ \A d \in DataChannels : nonce_[d] # k
    /\ cconn[k] = "hello_sent" => input_buffer[k] = 0
    /\ k \in sc_map_ => Covered(k)
    /\ k[2] > clientStarts => sconn[k] = "none"

\* Why pop_visitor never meets an empty queue: a CREATE is sent only after its
\* visitor is queued, each starts one data channel at most, and each data
\* channel takes one visitor, whatever the crashes lose.
Pairing == \A k \in Controls : PairingOf(k)

\* Two services with one port, or one with a port that is in use.
PortsClash ==
    \/ \E s \in Services : proxy_port[s] \in TakenPorts
    \/ \E s, t \in Services : s # t /\ proxy_port[s] = proxy_port[t]

\* Why a server dies of its own: it never pops an empty queue; a nonce is unknown
\* only to a server that was restarted; a port cannot be bound only when a client
\* was, or its file gives a port twice or one in use; and, visitors that leave
\* apart, a write raises SIGPIPE only after a client has ended. The first server
\* with the first client survives all else that visitors and services do.
DeathHasCause ==
    /\ NeverPopsEmpty
    /\ died = "nonce" => serverStarts > 1
    /\ died = "bind" => clientStarts > 1 \/ PortsClash
    /\ died = "sigpipe" => clientStarts > 1 \/ client = "down"

Queued(v) ==
    \E k \in Controls : \E i \in DOMAIN wait_handle_visitors_[k] :
        wait_handle_visitors_[k][i] = v

Bridged(v) == \E b \in bridge_closers_ : b[1] = v

\* A visitor is handed out once: it is not queued twice, queued and bridged,
\* or bridged with two data channels; and no data channel has two visitors.
HandedOutOnce ==
    /\ \A v \in Visitors : ~(Queued(v) /\ Bridged(v))
    /\ \A k \in Controls : \A i, j \in DOMAIN wait_handle_visitors_[k] :
          wait_handle_visitors_[k][i] = wait_handle_visitors_[k][j] => i = j
    /\ \A a, b \in bridge_closers_ : (a[1] = b[1] \/ a[2] = b[2]) => a = b

\* An open visitor is known to the tunnel: it waits in its channel's queue or
\* it is bridged. Otherwise nobody would ever serve or close it.
OpenVisitorTracked ==
    \A v \in Visitors : visitor[v] = "open" => Queued(v) \/ Bridged(v)

\* An open visitor is in one place and one only, from pop_visitor and the queue to
\* the closers: it is never lost between them and never handed out twice.
VisitorInOnePlace == HandedOutOnce /\ OpenVisitorTracked

\* A visitor is bridged with a data channel of the service whose port it
\* connected to: the nonce names the right queue.
RightService ==
    \A b \in bridge_closers_ : home[b[1]] = nonce_[b[2]]

\* A bridge falls as a whole: from two open ends, a step leaves the bridge as
\* it is or closes both ends and forgets it (BridgeCloser's destructor).
BridgesFallWhole ==
    [][\A b \in bridge_closers_ :
          (visitor[b[1]] = "open" /\ dsrv[b[2]] = "bridged") =>
              \/ /\ b \in bridge_closers_'
                 /\ visitor'[b[1]] = "open" /\ dsrv'[b[2]] = "bridged"
              \/ /\ b \notin bridge_closers_'
                 /\ visitor'[b[1]] = "closed" /\ dsrv'[b[2]] = "cut"]_vars

\* What visitors see of the tunnel: a control channel's port is a line, a data
\* channel takes a visitor once it was bridged.
Desk == INSTANCE VisitorDesk
    WITH Port <- Controls, Visitor <- Visitors, Carrier <- DataChannels,
         NoPort <- None, line <- wait_handle_visitors_, state <- visitor,
         called <- nonce_, used <- {d \in DataChannels : dsrv[d] \in {"bridged", "cut"}},
         pairs <- bridge_closers_

\* The tunnel serves in turn: through commands, nonces, batches, crashes and
\* restarts, the visitors of a port are handed out in the order they came, each
\* once, to a data channel of that port that never carries another, and a bridge
\* that has fallen never comes back (handle_new_outside_connection, pop_visitor,
\* handle_data_channel_hello, ~BridgeCloser).
ServesInTurn == Desk!Spec

\* A data channel closed on one side is released on the other: again and again there
\* is a moment at which no channel is released on one side only (~BridgeCloser,
\* DataEof, delete_data_channel).
BothEndsRelease ==
    []<>(\A d \in DataChannels : dsrv[d] \in {"cut", "dead"} <=> dcli[d] = "gone")

\* An open visitor that is on no bridge, while both programs run.
Waiting(v) == visitor[v] = "open" /\ ~Bridged(v) /\ client = "up" /\ server = "up"

\* While both programs run, a visitor that connected is bridged or has left:
\* a data channel is asked for on its behalf (handle_new_outside_connection) and
\* made for it (wait_server_cmd). It fails: see Stuck.
VisitorServed == \A v \in Visitors : Waiting(v) ~> ~Waiting(v)

\* A command that the client has read and not handled, and no event to come that
\* would make it look again.
Stuck(k) == input_buffer[k] > 0 /\ down[k] = 0

\* Why a visitor is not served while both programs run: a command of its control
\* channel was read together with another one and is stuck. No other order of
\* visits, reads, hellos and closes leaves a visitor waiting: again and again there
\* is a moment at which every visitor that waits has that reason to.
ServedUnlessStuck ==
    []<>(\A v \in Visitors : Waiting(v) => \E k \in Controls : home[v] = k /\ Stuck(k))
=============================================================================
