---------------------------- MODULE DataChannels ----------------------------
(***************************************************************************)
(* The data channels of ncxc and the descriptors they share. A DataChannel   *)
(* has two Clients, to the ncx server and to the service. A Client allocates *)
(* its socket when it is constructed (its Connector's TcpSocket), and once   *)
(* connected has a Connection that holds the same descriptor number; both    *)
(* close the number when they are destroyed. The kernel hands out the lowest *)
(* free number. A service that closes first takes its Connection and the     *)
(* number with it, while the TcpSocket keeps the number until the channel is *)
(* deleted, when it may be another channel's.                                *)
(*                                                                           *)
(* What a channel does after it has used a file of another one is not        *)
(* modelled: crossed records it and stops the model.                         *)
(***************************************************************************)
EXTENDS Integers

CONSTANTS
    Channels,   \* the data channels the server asks for, numbered in that order, bound
    Fds,        \* the descriptor numbers ncxc may have open, bound
    NULL        \* no file

ASSUME DataChannelsAssumption ==
    /\ Channels \subseteq Nat
    /\ Fds \subseteq Nat \ {0}
    /\ NULL \notin [chan : Channels, side : {"server", "service"}]

Sides == {"server", "service"}
Files == [chan : Channels, side : Sides]
FileOf(c, s) == [chan |-> c, side |-> s]

VARIABLES
    file,       \* the descriptor table: per number, the socket open there
    sock,       \* per channel and side: the number its TcpSocket holds
    conn,       \* per channel and side: the number its Connection holds, 0 when null
    phase,      \* per channel: not created, waiting for the start, forwarding, deleted
    hung,       \* the files whose peer has closed
    ended,      \* the channels whose service connection closed before they did
    crossed,    \* the channels that used the file of another
    dead        \* what ended the process, or "no"

vars == <<file, sock, conn, phase, hung, ended, crossed, dead>>

TypeOK ==
    /\ file \in [Fds -> Files \cup {NULL}]
    /\ sock \in [Channels -> [Sides -> Fds \cup {0}]]
    /\ conn \in [Channels -> [Sides -> Fds \cup {0}]]
    /\ phase \in [Channels -> {"none", "waiting", "forwarding", "deleted"}]
    /\ hung \subseteq Files
    /\ ended \subseteq Channels
    /\ crossed \subseteq Channels
    /\ dead \in {"no", "full", "refused", "null", "deleted", "sigpipe"}

Init ==
    /\ file = [d \in Fds |-> NULL]
    /\ sock = [c \in Channels |-> [s \in Sides |-> 0]]
    /\ conn = [c \in Channels |-> [s \in Sides |-> 0]]
    /\ phase = [c \in Channels |-> "none"]
    /\ hung = {}
    /\ ended = {}
    /\ crossed = {}
    /\ dead = "no"

-----------------------------------------------------------------------------

Running == dead = "no" /\ crossed = {}
Free == {d \in Fds : file[d] = NULL}
Live(c) == phase[c] \in {"waiting", "forwarding"}

\* The channel's own socket is where it believes it to be.
Owns(c, s) == sock[c][s] \in Fds /\ file[sock[c][s]] = FileOf(c, s)

\* epoll reports a file to the Connection that registered it, while it is open.
Event(c, s) == Running /\ Live(c) /\ conn[c][s] # 0 /\ Owns(c, s)

Dies(why) ==
    /\ dead' = why
    /\ UNCHANGED <<file, sock, conn, phase, hung, ended, crossed>>

Closed(numbers) == [d \in Fds |-> IF d \in numbers THEN NULL ELSE file[d]]

\* socket(2) gives the lowest free number.
LowestOf(d, S) == d \in S /\ \A e \in S : d <= e

\* The constructor's fcntl fails on the number -1 and errif exits.
NoNumber == Dies("full")

\* Connector::startInLoop, in place on the loop's thread right after start: the
\* number of the TcpSocket is connected and handed to the new Connection.
startInLoop(c, s, number) == conn' = [conn EXCEPT ![c][s] = number]

\* handle_cmd_create_datachannel with the DataChannel constructor: the sockets to
\* the server and to the service are allocated, and the first one is connected.
\* Without a number, or when the server refuses, the process exits.
handle_cmd_create_datachannel(c) ==
    /\ Running
    /\ phase[c] = "none" /\ \A b \in Channels : b < c => phase[b] # "none"
    /\ \/ \E d, e \in Free :
            /\ LowestOf(d, Free) /\ LowestOf(e, Free \ {d})
            /\ file' = [f \in Fds |-> IF f = d THEN FileOf(c, "server")
                                      ELSE IF f = e THEN FileOf(c, "service") ELSE file[f]]
            /\ sock' = [sock EXCEPT ![c] = [s \in Sides |-> IF s = "server" THEN d ELSE e]]
            /\ startInLoop(c, "server", d)
            /\ phase' = [phase EXCEPT ![c] = "waiting"]
            /\ UNCHANGED <<hung, ended, crossed, dead>>
       \/ Free # {} /\ Dies("refused")
       \/ (\A d, e \in Free : d = e) /\ NoNumber

\* The peer of a connected socket closes.
PeerCloses(c, s) ==
    /\ Event(c, s)
    /\ hung' = hung \cup {FileOf(c, s)}
    /\ UNCHANGED <<file, sock, conn, phase, ended, crossed, dead>>

\* do_data_channel_transforward: the service is connected through the number the
\* TcpSocket holds. On a closed or a connected file connect fails and the process
\* exits; on the unconnected socket of another channel it succeeds.
do_data_channel_transforward(c) ==
    /\ Event(c, "server")
    /\ phase[c] = "waiting"
    /\ \/ /\ file[sock[c]["service"]] # NULL
          /\ startInLoop(c, "service", sock[c]["service"])
          /\ phase' = [phase EXCEPT ![c] = "forwarding"]
          /\ crossed' = IF Owns(c, "service") THEN crossed ELSE crossed \cup {c}
          /\ UNCHANGED <<file, sock, hung, ended, dead>>
       \/ Dies("refused")

-----------------------------------------------------------------------------
(* The end of a connection, and of a channel.                              *)

\* A Connection that goes without the disconnect callback.
KeepChannel(c) ==
    /\ file' = Closed({conn[c]["server"]})
    /\ UNCHANGED <<sock, conn, phase, hung, ended, crossed, dead>>

\* A destructor that closes the numbers of the Connections only.
ConnectionNumbers(c) == {conn[c]["server"], conn[c]["service"]}

\* A disconnect callback that takes the server connections of the whole pool.
AllServers(c) == {sock[b]["server"] : b \in {a \in Channels : Live(a)}} \cup {sock[c]["service"]}

\* The numbers ~DataChannel closes: those of the TcpSockets of its two Clients.
\* Its Connections hold the same ones.
Numbers(c) == {sock[c]["server"], sock[c]["service"]}

\* removeConnection of the server's Client: conn_ is reset and on_disconnect_
\* erases the channel from data_pool_, which destroys both Clients.
delete_data_channel(c) ==
    /\ file' = Closed(Numbers(c))
    /\ conn' = [conn EXCEPT ![c] = [s \in Sides |-> 0]]
    /\ phase' = [phase EXCEPT ![c] = "deleted"]
    /\ UNCHANGED <<sock, hung, ended, crossed, dead>>

\* The server's end arrives. When bytes came with it, handle_message then runs the
\* handler of the channel that is gone.
ServerEnds(c) ==
    /\ Event(c, "server")
    /\ FileOf(c, "server") \in hung
    /\ \/ delete_data_channel(c)
       \/ Dies("deleted")

\* removeConnection of the service's Client, which has no on_disconnect_: the
\* Connection goes and closes its number; the channel stays.
service_removeConnection(c) ==
    /\ file' = Closed({conn[c]["service"]})
    /\ conn' = [conn EXCEPT ![c]["service"] = 0]
    /\ ended' = ended \cup {c}
    /\ UNCHANGED <<sock, phase, hung, crossed, dead>>

ServiceEnds(c) ==
    /\ Event(c, "service")
    /\ FileOf(c, "service") \in hung
    /\ service_removeConnection(c)

-----------------------------------------------------------------------------
(* Forwarding: what Send does at the number of the other Connection. A write   *)
(* to a closed number fails and closes that Connection; a write to a peer    *)
(* that has gone may raise SIGPIPE.                                        *)

\* The file of another channel is written to.
Crosses(c, s) ==
    /\ file[conn[c][s]] \notin {NULL, FileOf(c, s)}
    /\ crossed' = crossed \cup {c}
    /\ UNCHANGED <<file, sock, conn, phase, hung, ended, dead>>

\* Bytes from the server; conn_ of the service's Client may be null.
ServerBytes(c) ==
    /\ Event(c, "server")
    /\ phase[c] = "forwarding"
    /\ \/ conn[c]["service"] = 0 /\ Dies("null")
       \/ /\ conn[c]["service"] # 0
          /\ \/ Crosses(c, "service")
             \/ file[conn[c]["service"]] = NULL /\ service_removeConnection(c)
             \/ FileOf(c, "service") \in hung /\ Dies("sigpipe")

\* Bytes from the service.
ServiceBytes(c) ==
    /\ Event(c, "service")
    /\ \/ Crosses(c, "server")
       \/ file[conn[c]["server"]] = NULL /\ delete_data_channel(c)
       \/ FileOf(c, "server") \in hung /\ Dies("sigpipe")

Next ==
    \E c \in Channels :
        \/ handle_cmd_create_datachannel(c)
        \/ do_data_channel_transforward(c)
        \/ \E s \in Sides : PeerCloses(c, s)
        \/ ServerEnds(c) \/ ServiceEnds(c)
        \/ ServerBytes(c) \/ ServiceBytes(c)

\* The loop serves every connection that is ready, so an end that has arrived is
\* read.
Spec ==
    /\ Init /\ [][Next]_vars
    /\ \A c \in Channels : WF_vars(ServerEnds(c)) /\ WF_vars(ServiceEnds(c))

-----------------------------------------------------------------------------
(* Properties.                                                             *)

\* An open socket belongs to a channel that still exists and knows its number:
\* however channels come and go, none leaves a descriptor behind.
NoLeak ==
    \A d \in Fds : file[d] # NULL =>
        /\ Live(file[d].chan)
        /\ sock[file[d].chan][file[d].side] = d

\* A channel has been deleted after its service had closed first.
LateDeletion(c) == \E e \in ended \ {c} : phase[e] = "deleted"

\* A channel that exists has both its sockets, but for the one its service closed,
\* unless another channel was deleted after the service of that one had closed
\* first (removeConnection leaves the TcpSocket its number).
FilesIntact ==
    \A c \in Channels : \A s \in Sides :
        Live(c) => Owns(c, s) \/ (s = "service" /\ c \in ended) \/ LateDeletion(c)

\* No bytes of one channel enter the socket of another, with the same exception.
NoCrossTalk == \A c \in crossed : LateDeletion(c)

\* A channel keeps to its own sockets and keeps them while it lives, until a channel
\* is deleted after its service had closed first (Client::removeConnection,
\* TcpSocket::~TcpSocket).
OwnFilesOnly == FilesIntact /\ NoCrossTalk

\* When the server closes, the channel is deleted, and when the service closes,
\* its socket is closed, unless the process stops or a late deletion took the
\* socket.
EndsReleased ==
    \A c \in Channels :
        /\ FileOf(c, "server") \in hung ~> phase[c] = "deleted" \/ LateDeletion(c) \/ ~Running
        /\ FileOf(c, "service") \in hung ~> ~Owns(c, "service") \/ ~Running

=============================================================================
