----------------------------- MODULE HelloValue -----------------------------
(***************************************************************************)
(* What a Hello of protocol.proto is to the programs: a value with optional  *)
(* fields. A field is absent or has a value; an operation on one field, or   *)
(* on one message, touches no other.                                         *)
(***************************************************************************)
CONSTANTS
    Objs,       \* the messages
    Types,      \* values of hello_type
    Strings,    \* values of digest and service_name
    Ports,      \* values of proxy_port
    None        \* the mark of an absent field

VARIABLE msg    \* per message: its value

Content == [service_name : Strings \cup {None}, proxy_port : Ports \cup {None}]
NoFields == [service_name |-> None, proxy_port |-> None]
Blank == [hello_type |-> None, digest |-> None, content |-> None]

\* The content as it is when something is put into it.
Opened(c) == IF c = None THEN NoFields ELSE c

\* c with the fields that d has.
OverlayContent(c, d) ==
    [service_name |-> (IF d.service_name = None THEN c ELSE d).service_name,
     proxy_port |-> (IF d.proxy_port = None THEN c ELSE d).proxy_port]

\* m with the fields that n has.
Overlay(m, n) ==
    [hello_type |-> (IF n.hello_type = None THEN m ELSE n).hello_type,
     digest |-> (IF n.digest = None THEN m ELSE n).digest,
     content |-> IF n.content = None THEN m.content
                 ELSE OverlayContent(Opened(m.content), n.content)]

Init == msg = [o \in Objs |-> Blank]

PutType(o, v) == msg' = [msg EXCEPT ![o].hello_type = v]
PutDigest(o, v) == msg' = [msg EXCEPT ![o].digest = v]
PutName(o, v) == msg' = [msg EXCEPT ![o].content = [Opened(@) EXCEPT !.service_name = v]]
PutPort(o, v) == msg' = [msg EXCEPT ![o].content = [Opened(@) EXCEPT !.proxy_port = v]]
Open(o) == msg' = [msg EXCEPT ![o].content = Opened(@)]
EraseContent(o) == msg' = [msg EXCEPT ![o].content = NoFields]
Drop(o) == msg' = [msg EXCEPT ![o].content = None]
Erase(o) == msg' = [msg EXCEPT ![o] = Blank]
Add(o, p) == msg' = [msg EXCEPT ![o] = Overlay(@, msg[p])]
Assign(o, p) == msg' = [msg EXCEPT ![o] = msg[p]]
Exchange(o, p) == msg' = [msg EXCEPT ![o] = msg[p], ![p] = msg[o]]

Move(o, p) == msg' = [msg EXCEPT ![o] = msg[p], ![p] = Blank]
AddContent(o, p) ==
    msg' = [msg EXCEPT ![o].content = OverlayContent(Opened(@), Opened(msg[p].content))]
AssignContent(o, p) == msg' = [msg EXCEPT ![o].content = Opened(msg[p].content)]
ExchangeContents(o, p) ==
    msg' = [msg EXCEPT ![o].content = Opened(msg[p].content),
                       ![p].content = Opened(msg[o].content)]

\* The content of p is handed to o. Of a content that is absent nothing is
\* promised but that it has no fields.
HandOver(o, p) ==
    \E c \in {msg[p].content, Opened(msg[p].content)} :
        msg' = [msg EXCEPT ![o].content = c, ![p].content = None]

Next ==
    \E o \in Objs :
        \/ \E v \in Types \cup {None} : PutType(o, v)
        \/ \E v \in Strings \cup {None} : PutDigest(o, v) \/ PutName(o, v)
        \/ \E v \in Ports \cup {None} : PutPort(o, v)
        \/ Open(o) \/ Drop(o) \/ Erase(o) \/ EraseContent(o)
        \/ \E p \in Objs \ {o} :
            \/ Add(o, p) \/ Assign(o, p) \/ Exchange(o, p) \/ Move(o, p)
            \/ AddContent(o, p) \/ AssignContent(o, p) \/ ExchangeContents(o, p)
            \/ HandOver(o, p)

Spec == Init /\ [][Next]_msg

=============================================================================
