------------------------------- MODULE Stream -------------------------------
(***************************************************************************)
(* The sending side of network/connection.cpp: Send appends to the output    *)
(* buffer and WriteNonBlocking takes all of it out and writes it to a        *)
(* non-blocking socket in a loop. The kernel's socket buffer takes what fits *)
(* and the peer drains it at its own pace, between any two writes.           *)
(*                                                                           *)
(* A byte is named by its message and its place in it.                       *)
(***************************************************************************)
EXTENDS Naturals, Sequences, FiniteSets

CONSTANTS
    Capacity,       \* room in the socket buffer
    MaxMsgs,        \* bound: calls of Send
    MaxLen          \* bound: the length of a message

ASSUME StreamAssumption ==
    /\ Capacity \in Nat
    /\ MaxMsgs \in Nat
    /\ MaxLen \in Nat

VARIABLES
    state,          \* "CONNECTED", "DISCONNECTED", or "killed" by SIGPIPE
    lens,           \* history: the lengths of the messages sent
    send_bytes,     \* the length of send_buf, 0 when no write is under way
    send_left,      \* what the loop takes to be unsent; 0 stands for 0 or less
    peer,           \* "reading" or "gone"
    unread,         \* the socket buffer
    got             \* history: the bytes the peer has read

streamVars == <<state, lens, send_bytes, send_left, peer, unread, got>>

Byte == (1..MaxMsgs) \X (1..MaxLen)

\* Type invariant of the write loop and of the socket.
StreamTypeOK ==
    /\ state \in {"CONNECTED", "DISCONNECTED", "killed"}
    /\ lens \in Seq(0..MaxLen)
    /\ send_bytes \in 0..MaxLen
    /\ send_left \in 0..MaxLen
    /\ peer \in {"reading", "gone"}
    /\ unread \in Seq(Byte)
    /\ got \in Seq(Byte)

StreamInit ==
    /\ state = "CONNECTED"
    /\ lens = <<>>
    /\ send_bytes = 0
    /\ send_left = 0
    /\ peer = "reading"
    /\ unread = <<>>
    /\ got = <<>>

-----------------------------------------------------------------------------

\* Send, up to the first write. The output buffer is emptied before it, so it
\* never holds anything between two calls. The state is not looked at.
Send(n) ==
    /\ send_left = 0
    /\ state # "killed"
    /\ Len(lens) < MaxMsgs
    /\ lens' = Append(lens, n)
    /\ send_bytes' = n
    /\ send_left' = n
    /\ UNCHANGED <<state, peer, unread, got>>

\* Writing from where the last write stopped in the previous message.
WrittenLate(w) == [i \in 1..w |-> <<Len(lens), i + 1>>]

\* send_buf.data(): the first w bytes of the message, on every turn.
Written(w) == [i \in 1..w |-> <<Len(lens), i>>]

\* --send_left.
LessOne(left, w) == left - 1

\* send_left -= sended_bytes, and the loop goes on while that is above 0.
Less(left, w) == IF w < left THEN left - w ELSE 0

\* One turn: write(client_fd, send_buf.data(), send_bytes) takes what fits.
WriteNonBlocking ==
    LET free == Capacity - Len(unread)
        w == IF send_bytes <= free THEN send_bytes ELSE free
    IN  /\ send_left > 0
        /\ peer = "reading"
        /\ free > 0
        /\ unread' = unread \o Written(w)
        /\ send_left' = Less(send_left, w)
        /\ UNCHANGED <<state, lens, send_bytes, peer, got>>

\* EAGAIN tried again like EINTR.
SpinOnEagain == FALSE

\* EAGAIN: the loop is left, and with it what was not written.
WouldBlock ==
    /\ send_left > 0
    /\ peer = "reading"
    /\ Len(unread) = Capacity
    /\ send_left' = 0
    /\ UNCHANGED <<state, lens, send_bytes, peer, unread, got>>

\* The peer has gone: handle_close, or SIGPIPE, which nothing ignores.
WriteFails ==
    /\ send_left > 0
    /\ peer = "gone"
    /\ send_left' = 0
    /\ state' \in {"DISCONNECTED", "killed"}
    /\ UNCHANGED <<lens, send_bytes, peer, unread, got>>

PeerReads ==
    /\ peer = "reading"
    /\ unread # <<>>
    /\ got' = Append(got, Head(unread))
    /\ unread' = Tail(unread)
    /\ UNCHANGED <<state, lens, send_bytes, send_left, peer>>

PeerLeaves ==
    /\ peer = "reading"
    /\ peer' = "gone"
    /\ unread' = <<>>
    /\ UNCHANGED <<state, lens, send_bytes, send_left, got>>

WriteLoop == WriteNonBlocking \/ WouldBlock \/ WriteFails

StreamNext ==
    \/ \E n \in 1..MaxLen : Send(n)
    \/ WriteLoop
    \/ PeerReads
    \/ PeerLeaves

StreamSpec == StreamInit /\ [][StreamNext]_streamVars

\* The write loop runs on; the peer need not read.
StreamFairSpec == StreamSpec /\ WF_streamVars(WriteLoop)

-----------------------------------------------------------------------------

OnTheWire == got \o unread

\* The write loop puts less than twice the message on the wire: it ends as
\* soon as as many bytes are out as the message has.
RepeatBound ==
    \A m \in DOMAIN lens :
        Cardinality({i \in DOMAIN OnTheWire : OnTheWire[i][1] = m}) < 2 * lens[m]

\* All that can go wrong on the wire is a message cut short or begun again:
\* every byte follows its predecessor in the message or is the first byte of
\* this message or of a later one. Messages never mix or overtake each other,
\* however write(), EAGAIN and the next Send alternate.
RunsFromStart ==
    \A i \in DOMAIN OnTheWire :
        \/ /\ OnTheWire[i][2] = 1
           /\ i > 1 => OnTheWire[i - 1][1] <= OnTheWire[i][1]
        \/ /\ i > 1
           /\ OnTheWire[i] = <<OnTheWire[i - 1][1], OnTheWire[i - 1][2] + 1>>

\* Once a call of Send begins, it returns: the reactor is not held up by a
\* peer that does not read.
SendReturns == (send_left > 0) ~> (send_left = 0)

\* handle_data_out sends the data of the buffer: what the peer has got is what
\* was sent, from the start, each byte once and in order.
StreamIntact ==
    \A i \in DOMAIN got :
        IF i = 1 THEN got[i] = <<1, 1>>
        ELSE \/ got[i] = <<got[i - 1][1], got[i - 1][2] + 1>>
             \/ /\ got[i - 1][2] = lens[got[i - 1][1]]
                /\ got[i] = <<got[i - 1][1] + 1, 1>>
=============================================================================
