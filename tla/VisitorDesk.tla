---------------------------- MODULE VisitorDesk -----------------------------
(***************************************************************************)
(* What the tunnel promises the visitors of its proxy ports, and all that    *)
(* can be seen of it from outside: those who come to a port wait in line,    *)
(* the first in line gets the next carrier that was called for that port, a  *)
(* carrier takes one visitor and no other ever, a visitor is taken once, and *)
(* who has been taken parts from the carrier for good. Nobody jumps a line,  *)
(* changes lines or comes back. The desk may close: then everyone is sent    *)
(* away. One that walks off while in line keeps the place in it.             *)
(***************************************************************************)
EXTENDS Naturals, Sequences

CONSTANTS
    Port,       \* where visitors come in
    Visitor,
    Carrier,    \* what takes a visitor on
    NoPort      \* the port of a carrier that was not called yet

VARIABLES
    line,       \* per port: the visitors in line, the first to be taken first
    state,      \* per visitor: "new", "open" or "closed"
    called,     \* per carrier: the port it was called for
    used,       \* the carriers that have had their visitor
    pairs       \* who is with which carrier

vars == <<line, state, called, used, pairs>>

Init ==
    /\ line = [k \in Port |-> <<>>]
    /\ state = [v \in Visitor |-> "new"]
    /\ called = [c \in Carrier |-> NoPort]
    /\ used = {}
    /\ pairs = {}

Come(v, k) ==
    /\ state[v] = "new"
    /\ state' = [state EXCEPT ![v] = "open"]
    /\ line' = [line EXCEPT ![k] = Append(@, v)]
    /\ UNCHANGED <<called, used, pairs>>

Call(c, k) ==
    /\ called[c] = NoPort
    /\ called' = [called EXCEPT ![c] = k]
    /\ UNCHANGED <<line, state, used, pairs>>

\* The carrier takes the first in line at the port it was called for.
Take(c) ==
    LET k == called[c]
    IN  /\ k \in Port
        /\ line[k] # <<>>
        /\ c \notin used
        /\ pairs' = pairs \cup {<<Head(line[k]), c>>}
        /\ line' = [line EXCEPT ![k] = Tail(@)]
        /\ used' = used \cup {c}
        /\ UNCHANGED <<state, called>>

\* A visitor walks off that nobody has taken yet.
WalkOff(v) ==
    /\ state[v] = "open"
    /\ \A p \in pairs : p[1] # v
    /\ state' = [state EXCEPT ![v] = "closed"]
    /\ UNCHANGED <<line, called, used, pairs>>

Part(p) ==
    /\ pairs' = pairs \ {p}
    /\ state' = [state EXCEPT ![p[1]] = "closed"]
    /\ UNCHANGED <<line, called, used>>

Close ==
    /\ line' = [k \in Port |-> <<>>]
    /\ pairs' = {}
    /\ state' = [v \in Visitor |-> IF state[v] = "open" THEN "closed" ELSE state[v]]
    /\ UNCHANGED <<called, used>>

Next ==
    \/ \E v \in Visitor : WalkOff(v) \/ \E k \in Port : Come(v, k)
    \/ \E c \in Carrier : Take(c) \/ \E k \in Port : Call(c, k)
    \/ \E p \in pairs : Part(p)
    \/ Close

Spec == Init /\ [][Next]_vars
=============================================================================
