------------------------------ MODULE Lifetimes ------------------------------
(***************************************************************************)
(* The life of Connection objects in the reactor of ncx_server: who owns a   *)
(* connection, when epoll watches it, and when it is destroyed.              *)
(*                                                                           *)
(* A Connection is kept alive by shared pointers: the map of the Server that *)
(* accepted it (keyed by a random conn_id), the queue of waiting visitors,   *)
(* and the SControlChannel of a control connection. Bridges hold weak        *)
(* pointers only. epoll and the batch of active channels hold raw pointers   *)
(* to the Channel inside the Connection.                                     *)
(*                                                                           *)
(* There are two Servers: "ncx", where the client's control and data         *)
(* connections arrive, and "proxy", the port of one control channel, where   *)
(* visitors arrive. The reactor is one thread and run_on_onwer_thread runs   *)
(* its argument in place there, so the dispatch of one channel, with all the *)
(* closes it leads to, is one step; the peers interleave with it.            *)
(***************************************************************************)
EXTENDS Naturals, Sequences, FiniteSets, Functions

CONSTANTS
    MaxConns,   \* bound: connections accepted during a run
    MaxId       \* conn_id is drawn from 1..MaxId (10000 in the code)

ASSUME LifetimesAssumption ==
    /\ MaxConns \in Nat
    /\ MaxId \in Nat \ {0}

Conns == 1..MaxConns
Ids == 1..MaxId
Servers == {"ncx", "proxy"}
NoConn == 0
NoId == 0
NoServer == "none"

VARIABLES
    running,        \* the process has not died
    accepted,       \* connections accepted so far: c is the c-th of them
    object,         \* per connection: not yet made, alive or freed
    state,          \* per connection: Connection::state
    server,         \* per connection: the Server that accepted it
    conn_id,        \* per connection: its random id
    connections,    \* per server: the map from ids to connections
    control,        \* the ncx_client_conn_ of the control channel, if any
    wait_handle_visitors_,  \* the queue of visitors without a data channel
    bridges,        \* registered bridge closers: visitor, data connection
    interest,       \* epoll's interest list
    socket,         \* per connection: what the kernel has for the next read
    backlog,        \* the servers with a peer waiting to be accepted
    activeChannels, \* the connections' channels of the batch not dispatched yet
    acceptors       \* the acceptors' channels of the batch not dispatched yet

vars == <<running, accepted, object, state, server, conn_id, connections, control,
          wait_handle_visitors_, bridges, interest, socket, backlog, activeChannels,
          acceptors>>

\* Type invariant; every object made has a server and an id.
TypeOK ==
    /\ running \in BOOLEAN
    /\ accepted \in 0..MaxConns
    /\ object \in [Conns -> {"none", "alive", "freed"}]
    /\ state \in [Conns -> {"CONNECTING", "CONNECTED", "DISCONNECTED"}]
    /\ server \in [Conns -> Servers \cup {NoServer}]
    /\ conn_id \in [Conns -> Ids \cup {NoId}]
    /\ connections \in [Servers -> [Ids -> Conns \cup {NoConn}]]
    /\ control \in Conns \cup {NoConn}
    /\ wait_handle_visitors_ \in Seq(Conns)
    /\ bridges \subseteq Conns \X Conns
    /\ interest \subseteq Conns
    /\ socket \in [Conns -> SUBSET {"data", "eof"}]
    /\ backlog \subseteq Servers
    /\ activeChannels \subseteq Conns
    /\ acceptors \subseteq Servers
    /\ \A c \in Conns : IF c <= accepted
                        THEN object[c] # "none" /\ server[c] # NoServer /\ conn_id[c] # NoId
                        ELSE object[c] = "none" /\ server[c] = NoServer

Init ==
    /\ running = TRUE
    /\ accepted = 0
    /\ object = [c \in Conns |-> "none"]
    /\ state = [c \in Conns |-> "CONNECTING"]
    /\ server = [c \in Conns |-> NoServer]
    /\ conn_id = [c \in Conns |-> NoId]
    /\ connections = [s \in Servers |-> [i \in Ids |-> NoConn]]
    /\ control = NoConn
    /\ wait_handle_visitors_ = <<>>
    /\ bridges = {}
    /\ interest = {}
    /\ socket = [c \in Conns |-> {}]
    /\ backlog = {}
    /\ activeChannels = {}
    /\ acceptors = {}

-----------------------------------------------------------------------------
(* The peers. What arrives while a batch is dispatched, for a channel that *)
(* is not in it, is first seen by the next poll: it arrives after the batch. *)

BatchDone == activeChannels = {} /\ acceptors = {}

\* An Acceptor listens as soon as it is made, with its Server; the proxy server
\* is made with the control channel.
Listening(s) == s = "proxy" => control # NoConn

PeerConnects(s) ==
    /\ BatchDone
    /\ s \notin backlog
    /\ accepted + Cardinality(backlog) < MaxConns
    /\ Listening(s)
    /\ backlog' = backlog \cup {s}
    /\ UNCHANGED <<running, accepted, object, state, server, conn_id, connections,
                   control, wait_handle_visitors_, bridges, interest, socket,
                   activeChannels, acceptors>>

\* Bytes or the end of the stream arrive. A client sends nothing on a control
\* connection after its hello.
PeerSends(c, what) ==
    /\ c \in interest
    /\ BatchDone \/ c \in activeChannels
    /\ "eof" \notin socket[c]
    /\ what = "data" => c # control /\ "data" \notin socket[c]
    /\ socket' = [socket EXCEPT ![c] = @ \cup {what}]
    /\ UNCHANGED <<running, accepted, object, state, server, conn_id, connections,
                   control, wait_handle_visitors_, bridges, interest, backlog,
                   activeChannels, acceptors>>

-----------------------------------------------------------------------------
(* Closing and destruction.                                                *)

\* force_close does something to a connection that is not closed yet.
force_close(c) ==
    IF object[c] = "alive" /\ state[c] = "CONNECTED" THEN {c} ELSE {}

\* The ends of a bridge, closed by ~BridgeCloser as far as they still exist.
cut_off_bridge(b) == force_close(b[1]) \cup force_close(b[2])

BridgesOf(c, br) == {b \in br : c \in {b[1], b[2]}}

\* A close that forgets the notice.
CloseWithoutNotice(c, br) ==
    IF state[c] = "DISCONNECTED" THEN {} ELSE {c}

\* handle_close of c: the connections it closes. The close notice of c erases
\* the closer of its bridge, and so closes the other end.
handle_close(c, br) ==
    IF state[c] = "DISCONNECTED" THEN {}
    ELSE {c} \cup UNION {cut_off_bridge(b) : b \in BridgesOf(c, br)}

\* A disconnect that leaves the entry, and one that clears the map.
DisconnectKeepsEntry(m, C) == m
DisconnectClearsMap(m, C) ==
    [s \in Servers |-> [i \in Ids |->
        IF \E c \in C : server[c] = s THEN NoConn ELSE m[s][i]]]

\* The maps after each connection of C was taken out: by its id.
disconnectHandleInLoop(m, C) ==
    [s \in Servers |-> [i \in Ids |->
        IF \E c \in C : server[c] = s /\ conn_id[c] = i THEN NoConn ELSE m[s][i]]]

\* The connections some shared pointer keeps alive.
Owned(m, ctl, queue) ==
    {c \in Conns : \/ c = ctl
                   \/ c \in Range(queue)
                   \/ \E s \in Servers, i \in Ids : m[s][i] = c}

\* The interest list with new channels, and without removed ones.
update_channel(in, born) == in \cup born
delete_channel(in, C) == in \ C

\* ConnectionConstructor that does not remove the channel.
WatchedAfterClose(in, C, owned) == in \cap owned

\* What is left of the interest list: ConnectionConstructor removes the channels
\* of C, and closing its descriptor removes that of a destroyed connection.
Watched(in, C, owned) == delete_channel(in, C) \cap owned

\* The end of a handler that made the connections of born, read those of read
\* and closed those of C, and leaves these owners behind: what nobody owns has
\* been destroyed. Nobody looks at the socket of a connection not watched.
Settle(born, read, C, m, ctl, queue) ==
    LET owned == Owned(disconnectHandleInLoop(m, C), ctl, queue)
    IN  /\ connections' = disconnectHandleInLoop(m, C)
        /\ control' = ctl
        /\ wait_handle_visitors_' = queue
        /\ state' = [c \in Conns |-> IF c \in C THEN "DISCONNECTED"
                                      ELSE IF c \in born THEN "CONNECTED" ELSE state[c]]
        /\ object' = [c \in Conns |->
              IF object[c] # "alive" /\ c \notin born THEN object[c]
              ELSE IF c \in owned THEN "alive" ELSE "freed"]
        /\ interest' = Watched(update_channel(interest, born), C, owned)
        /\ socket' = [c \in Conns |-> IF c \in interest' \ read THEN socket[c] ELSE {}]

-----------------------------------------------------------------------------
(* The reactor.                                                            *)

\* epoll_wait: every watched connection that can be read, and the listeners.
poll ==
    /\ running
    /\ BatchDone
    /\ activeChannels' = {c \in interest : socket[c] # {}}
    /\ acceptors' = backlog
    /\ activeChannels' # {} \/ acceptors' # {}
    /\ UNCHANGED <<running, accepted, object, state, server, conn_id, connections,
                   control, wait_handle_visitors_, bridges, interest, socket, backlog>>

\* The channel of x in the batch is dispatched; the order in a batch is epoll's.
Dispatch(x) ==
    /\ running
    /\ x \in activeChannels
    /\ activeChannels' = activeChannels \ {x}
    /\ UNCHANGED acceptors

\* The ids a new connection draws from.
dis == Ids

\* A listener is readable: accept.
acceptNewConnection(s) ==
    /\ running
    /\ s \in acceptors
    /\ acceptors' = acceptors \ {s}
    /\ backlog' = backlog \ {s}

\* The connection accepted is put in the map, over whatever has its id. A visitor
\* is queued, and the CREATE command written for it may find the control
\* connection reset.
newConnectionHandle(s) ==
    LET c == accepted + 1
        visitor == s = "proxy"
    IN  /\ acceptNewConnection(s)
        /\ accepted < MaxConns
        /\ accepted' = c
        /\ server' = [server EXCEPT ![c] = s]
        /\ \E id \in dis, reset \in BOOLEAN :
              /\ reset => visitor
              /\ conn_id' = [conn_id EXCEPT ![c] = id]
              /\ Settle({c}, {}, IF reset THEN handle_close(control, bridges) ELSE {},
                        [connections EXCEPT ![s][id] = c], control,
                        IF visitor THEN Append(wait_handle_visitors_, c)
                                   ELSE wait_handle_visitors_)
        /\ UNCHANGED <<running, bridges, activeChannels>>

\* ReadNonBlocking of x takes what there is.
ReadNonBlocking(x) ==
    /\ Dispatch(x)
    /\ object[x] = "alive"
    /\ UNCHANGED <<running, accepted, server, conn_id, backlog>>

\* The connections closed by the read of x, and the bridges left.
ClosedByRead(x) == IF "eof" \in socket[x] THEN handle_close(x, bridges) ELSE {}
BridgesAfterRead(x) ==
    IF ClosedByRead(x) = {} THEN bridges ELSE bridges \ BridgesOf(x, bridges)

\* A connection of the client that has not said hello.
Greeting(x) == server[x] = "ncx" /\ x # control /\ BridgesOf(x, bridges) = {}

\* The other end of the bridge of x, if it can be locked.
Peers(x) ==
    {c \in UNION {{b[1], b[2]} : b \in BridgesOf(x, bridges)} \ {x} : object[c] = "alive"}

\* A read that leads to no message: none arrived, part of a hello, bytes of a
\* visitor that still waits, or nobody to forward to. The close comes before
\* the message handler, so bytes read with it find no peer either.
handle_data_in(x) ==
    /\ ReadNonBlocking(x)
    /\ "data" \in socket[x] /\ Peers(x) # {} => "eof" \in socket[x]
    /\ bridges' = BridgesAfterRead(x)
    /\ Settle({}, {x}, ClosedByRead(x), connections, control, wait_handle_visitors_)

\* A control hello: the control channel keeps the connection, also when the
\* answer finds it reset. One client with one service: one such hello.
handle_control_channel_hello(x) ==
    /\ ReadNonBlocking(x)
    /\ "data" \in socket[x]
    /\ Greeting(x)
    /\ control = NoConn
    /\ bridges' = bridges
    /\ \E reset \in BOOLEAN :
          Settle({}, {x}, IF reset THEN handle_close(x, bridges) ELSE ClosedByRead(x),
                 connections, x, wait_handle_visitors_)

\* A data hello: the visitor that waits longest is taken from the queue and
\* bridged. START, or the visitor's bytes that go after it, may find the data
\* connection reset. Each data hello has a visitor waiting (Pairing of module Tunnel).
handle_data_channel_hello(x) ==
    LET v == Head(wait_handle_visitors_)
        bridged == BridgesAfterRead(x) \cup {<<v, x>>}
    IN  /\ ReadNonBlocking(x)
        /\ "data" \in socket[x]
        /\ Greeting(x)
        /\ wait_handle_visitors_ # <<>>
        /\ \E reset \in BOOLEAN :
              /\ reset => "eof" \notin socket[x]
              /\ bridges' = IF reset THEN bridged \ {<<v, x>>} ELSE bridged
              /\ Settle({}, {x}, IF reset THEN handle_close(x, bridged) ELSE ClosedByRead(x),
                        connections, control, Tail(wait_handle_visitors_))

\* Bytes of one end are sent to the other, whose descriptor may be reset.
Forward(x) ==
    /\ ReadNonBlocking(x)
    /\ socket[x] = {"data"}
    /\ \E y \in Peers(x), reset \in BOOLEAN :
          /\ bridges' = IF reset THEN bridges \ BridgesOf(y, bridges) ELSE bridges
          /\ Settle({}, {x}, IF reset THEN handle_close(y, bridges) ELSE {},
                    connections, control, wait_handle_visitors_)

\* The channel was destroyed with its connection by an earlier handler of the
\* batch. What comes of it is undefined: nothing, or the end of the process.
handle_event_freed(x) ==
    /\ Dispatch(x)
    /\ object[x] = "freed"
    /\ running' \in BOOLEAN
    /\ UNCHANGED <<accepted, object, state, server, conn_id, connections, control,
                   wait_handle_visitors_, bridges, interest, socket, backlog>>

handle_event(x) ==
    \/ handle_data_in(x)
    \/ handle_control_channel_hello(x)
    \/ handle_data_channel_hello(x)
    \/ Forward(x)
    \/ handle_event_freed(x)

Loop ==
    \/ poll
    \/ \E s \in Servers : newConnectionHandle(s)
    \/ \E c \in Conns : handle_event(c)

Next ==
    \/ Loop
    \/ \E s \in Servers : PeerConnects(s)
    \/ \E c \in Conns, what \in {"data", "eof"} : PeerSends(c, what)

Spec == Init /\ [][Next]_vars

-----------------------------------------------------------------------------
(* Properties.                                                             *)

\* epoll watches exactly the connections that exist and are open: its raw
\* pointers never dangle, a closed connection causes no event, and the end of
\* an open one is always noticed (Connection::ConnectionConstructor,
\* Connection::~Connection, Epoll::update_channel).
WatchedIffOpen ==
    interest = {c \in Conns : object[c] = "alive" /\ state[c] = "CONNECTED"}

\* A map leads, under each id, to an open connection of its own server with that
\* id: getConnection never returns a closed one (Server::newConnectionHandle,
\* Server::disconnectHandleInLoop).
MapSound ==
    \A s \in Servers, i \in Ids :
        LET c == connections[s][i]
        IN  c # NoConn => /\ object[c] = "alive" /\ state[c] = "CONNECTED"
                          /\ server[c] = s /\ conn_id[c] = i

\* A connection that is closed is destroyed with the handler that closed it,
\* unless it is a control channel's or a visitor's that still waits: no close
\* leaks an object or a descriptor (Connection::handle_close).
ClosedReleased ==
    \A c \in Conns :
        object[c] = "alive" /\ state[c] = "DISCONNECTED" =>
            c = control \/ c \in Range(wait_handle_visitors_)

\* A closed connection is forgotten: no map leads to it, and only a control channel
\* or the queue of visitors keeps it.
ClosedForgotten == MapSound /\ ClosedReleased

\* Destroyed without being closed, so without its close notice, is only a
\* connection that shares its id with another one of its server
\* (Server::newConnectionHandle writes over the entry,
\* Server::disconnectHandleInLoop erases it for either).
DropNeedsCollision ==
    [][\A c \in Conns :
          object[c] = "alive" /\ object'[c] = "freed" /\ state'[c] = "CONNECTED" =>
              \E o \in Conns \ {c} : server'[o] = server[c] /\ conn_id'[o] = conn_id[c]]_vars

\* When one end of a registered bridge is closed, no handler ends with the other
\* one open, also when ids collide (Connection::handle_close calls the notice,
\* BridgeCloser::~BridgeCloser closes both).
EndsTogether ==
    [][\A b \in bridges : \A c \in {b[1], b[2]} :
          state[c] = "CONNECTED" /\ state'[c] = "DISCONNECTED" =>
              \A o \in {b[1], b[2]} : object'[o] = "freed"]_vars

\* The claim of EventLoop::run: a close during the dispatch destroys no
\* connection whose channel is still to be dispatched.
DispatchedAlive ==
    \A c \in activeChannels : state[c] = "DISCONNECTED" => object[c] = "alive"

=============================================================================
