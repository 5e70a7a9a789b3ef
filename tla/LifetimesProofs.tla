--------------------------- MODULE LifetimesProofs ---------------------------
(***************************************************************************)
(* What is proved about the ownership of connections, for any number of      *)
(* connections and ids. Every handler ends in Settle, so the argument is one *)
(* lemma about Settle, applied to each handler.                              *)
(***************************************************************************)
EXTENDS Lifetimes, SequenceTheorems, TLAPS

\* Two connections of one server that drew the same id.
Shares(c, o) == server[o] = server[c] /\ conn_id[o] = conn_id[c]

\* An open connection that is not under its id in its server's map shares that
\* id with another one.
MissingNeedsCollision ==
    \A c \in Conns :
        object[c] = "alive" /\ state[c] = "CONNECTED" =>
            \/ connections[server[c]][conn_id[c]] = c
            \/ \E o \in Conns \ {c} : Shares(c, o)

\* The control connection is one that was accepted, and the proxy port has
\* visitors only when there is one.
ControlMade ==
    /\ control # NoConn => control <= accepted
    /\ "proxy" \in backlog \cup acceptors => control # NoConn

\* The inductive invariant.
Inv ==
    /\ TypeOK
    /\ ControlMade
    /\ WatchedIffOpen
    /\ MapSound
    /\ ClosedReleased
    /\ MissingNeedsCollision

\* What a handler hands to Settle: the maps of before, where a connection it made
\* is under its id; names of connections that exist do not change.
MapsFor(m, born) ==
    /\ m \in [Servers -> [Ids -> Conns \cup {NoConn}]]
    /\ \A s \in Servers, i \in Ids :
          \/ m[s][i] = connections[s][i]
          \/ m[s][i] \in born /\ server'[m[s][i]] = s /\ conn_id'[m[s][i]] = i
    /\ \A c \in born : /\ object[c] = "none" /\ server[c] = NoServer
                       /\ server'[c] \in Servers /\ conn_id'[c] \in Ids
                       /\ m[server'[c]][conn_id'[c]] = c
    /\ \A c \in Conns \ born : server'[c] = server[c] /\ conn_id'[c] = conn_id[c]

\* What Settle does, connection by connection.
LEMMA SettleFacts ==
    ASSUME NEW born, NEW read, NEW C, NEW m, NEW ctl, NEW queue, NEW M, NEW owned,
           M = disconnectHandleInLoop(m, C), owned = Owned(M, ctl, queue),
           Settle(born, read, C, m, ctl, queue)
    PROVE  /\ connections' = M /\ control' = ctl /\ wait_handle_visitors_' = queue
           /\ interest' = ((interest \cup born) \ C) \cap owned
           /\ \A c \in Conns : state'[c] = (IF c \in C THEN "DISCONNECTED"
                                            ELSE IF c \in born THEN "CONNECTED" ELSE state[c])
           /\ \A c \in Conns : object'[c] =
                 (IF object[c] # "alive" /\ c \notin born THEN object[c]
                  ELSE IF c \in owned THEN "alive" ELSE "freed")
           /\ \A s \in Servers, i \in Ids :
                 M[s][i] = (IF \E c \in C : server[c] = s /\ conn_id[c] = i
                            THEN NoConn ELSE m[s][i])
           /\ \A c \in Conns : c \in owned <=> \/ c = ctl
                                               \/ c \in Range(queue)
                                               \/ \E s \in Servers, i \in Ids : M[s][i] = c
           /\ owned \subseteq Conns
<1>1. /\ connections' = M /\ control' = ctl /\ wait_handle_visitors_' = queue
      /\ interest' = ((interest \cup born) \ C) \cap owned
      /\ \A c \in Conns : state'[c] = (IF c \in C THEN "DISCONNECTED"
                                       ELSE IF c \in born THEN "CONNECTED" ELSE state[c])
      /\ \A c \in Conns : object'[c] =
            (IF object[c] # "alive" /\ c \notin born THEN object[c]
             ELSE IF c \in owned THEN "alive" ELSE "freed")
    BY Zenon DEF Settle, Watched, update_channel, delete_channel
<1>2. \A s \in Servers, i \in Ids :
          M[s][i] = (IF \E c \in C : server[c] = s /\ conn_id[c] = i THEN NoConn ELSE m[s][i])
    BY Zenon DEF disconnectHandleInLoop
<1>3. /\ \A c \in Conns : c \in owned <=> \/ c = ctl
                                          \/ c \in Range(queue)
                                          \/ \E s \in Servers, i \in Ids : M[s][i] = c
      /\ owned \subseteq Conns
    BY Zenon DEF Owned
<1> QED BY Zenon, <1>1, <1>2, <1>3

\* What Settle leaves behind keeps epoll's list, the maps and the release of
\* closed connections in order, whatever the handler closed.
LEMMA SettleSafe ==
    ASSUME WatchedIffOpen, MapSound,
           NEW born \in SUBSET Conns, NEW read, NEW C \in SUBSET Conns,
           NEW m, NEW ctl, NEW queue,
           C \cap born = {}, MapsFor(m, born),
           Settle(born, read, C, m, ctl, queue)
    PROVE  WatchedIffOpen' /\ MapSound' /\ ClosedReleased'
<1> DEFINE M == disconnectHandleInLoop(m, C)
           owned == Owned(M, ctl, queue)
<1>1. /\ connections' = M /\ control' = ctl /\ wait_handle_visitors_' = queue
      /\ interest' = ((interest \cup born) \ C) \cap owned
      /\ \A c \in Conns : state'[c] = (IF c \in C THEN "DISCONNECTED"
                                       ELSE IF c \in born THEN "CONNECTED" ELSE state[c])
      /\ \A c \in Conns : object'[c] =
            (IF object[c] # "alive" /\ c \notin born THEN object[c]
             ELSE IF c \in owned THEN "alive" ELSE "freed")
    BY SettleFacts
<1>2. \A s \in Servers, i \in Ids :
          M[s][i] = (IF \E c \in C : server[c] = s /\ conn_id[c] = i THEN NoConn ELSE m[s][i])
    BY SettleFacts
<1>3. \A c \in Conns : c \in owned <=> \/ c = ctl
                                       \/ c \in Range(queue)
                                       \/ \E s \in Servers, i \in Ids : M[s][i] = c
    BY SettleFacts
<1>4. owned \subseteq Conns
    BY SettleFacts
<1> HIDE DEF M, owned
<1>5. WatchedIffOpen'
    BY <1>1, <1>4 DEF WatchedIffOpen
<1>6. MapSound'
    <2> SUFFICES ASSUME NEW s \in Servers, NEW i \in Ids, M[s][i] # NoConn
                 PROVE  /\ object'[M[s][i]] = "alive" /\ state'[M[s][i]] = "CONNECTED"
                        /\ server'[M[s][i]] = s /\ conn_id'[M[s][i]] = i
        BY <1>1 DEF MapSound
    <2> DEFINE c == m[s][i]
    <2>1. M[s][i] = c /\ c # NoConn /\ ~ \E d \in C : server[d] = s /\ conn_id[d] = i
        BY <1>2
    <2>2. /\ c \in Conns
          /\ c \in born \/ (object[c] = "alive" /\ state[c] = "CONNECTED")
          /\ server'[c] = s /\ conn_id'[c] = i
        <3>1. CASE c \in born /\ server'[c] = s /\ conn_id'[c] = i
            BY Zenon, <3>1
        <3>2. CASE c \notin born /\ c = connections[s][i]
            <4>1. c \in Conns
                BY <2>1 DEF MapsFor
            <4> QED BY <2>1, <3>2, <4>1 DEF MapsFor, MapSound
        <3>3. CASE c \in born /\ c = connections[s][i]
            BY Zenon, <2>1, <3>3 DEF MapsFor, MapSound
        <3> QED BY <3>1, <3>2, <3>3 DEF MapsFor
    <2>3. c \notin C
        BY <2>1, <2>2 DEF MapsFor
    <2>4. c \in owned
        BY Zenon, <1>3, <2>1, <2>2
    <2> QED BY Zenon, <1>1, <2>1, <2>2, <2>3, <2>4
<1>7. ClosedReleased'
    <2> SUFFICES ASSUME NEW c \in Conns, object'[c] = "alive", state'[c] = "DISCONNECTED"
                 PROVE  c = ctl \/ c \in Range(queue)
        BY Zenon, <1>1 DEF ClosedReleased
    <2>1. c \in owned
        BY Zenon, <1>1
    <2>2. ASSUME NEW s \in Servers, NEW i \in Ids, M[s][i] = c
          PROVE  FALSE
        <3>1. c # NoConn
            BY DEF Conns, NoConn
        <3>2. state'[c] = "CONNECTED"
            BY <1>1, <1>6, <2>2, <3>1 DEF MapSound
        <3> QED BY Zenon, <3>2
    <2> QED BY Zenon, <1>3, <2>1, <2>2
<1> QED BY Zenon, <1>5, <1>6, <1>7

\* What a step may not do to a connection: destroy it open when its id is its own.
DropStep ==
    \A c \in Conns :
        object[c] = "alive" /\ object'[c] = "freed" /\ state'[c] = "CONNECTED" =>
            \E o \in Conns \ {c} : server'[o] = server[c] /\ conn_id'[o] = conn_id[c]

\* After Settle an open connection is under its id, or shares the id.
LEMMA SettleCollision ==
    ASSUME TypeOK, MissingNeedsCollision,
           NEW born \in SUBSET Conns, NEW read, NEW C \in SUBSET Conns,
           NEW m, NEW ctl, NEW queue,
           C \cap born = {}, MapsFor(m, born),
           Settle(born, read, C, m, ctl, queue)
    PROVE  MissingNeedsCollision' /\ DropStep
<1> DEFINE M == disconnectHandleInLoop(m, C)
           owned == Owned(M, ctl, queue)
           InMap(c) == M[server'[c]][conn_id'[c]] = c
           Collides(c) == \E o \in Conns \ {c} : server'[o] = server'[c] /\ conn_id'[o] = conn_id'[c]
<1>1. /\ connections' = M
      /\ \A c \in Conns : state'[c] = (IF c \in C THEN "DISCONNECTED"
                                       ELSE IF c \in born THEN "CONNECTED" ELSE state[c])
      /\ \A c \in Conns : object'[c] =
            (IF object[c] # "alive" /\ c \notin born THEN object[c]
             ELSE IF c \in owned THEN "alive" ELSE "freed")
    BY SettleFacts
<1>2. \A s \in Servers, i \in Ids :
          M[s][i] = (IF \E c \in C : server[c] = s /\ conn_id[c] = i THEN NoConn ELSE m[s][i])
    BY SettleFacts
<1>3. \A c \in Conns : (\E s \in Servers, i \in Ids : M[s][i] = c) => c \in owned
    BY SettleFacts
<1> HIDE DEF M, owned
<1>4. ASSUME NEW c \in born
      PROVE  InMap(c) \/ Collides(c)
    <2>1. /\ server'[c] \in Servers /\ conn_id'[c] \in Ids
          /\ m[server'[c]][conn_id'[c]] = c
        BY Zenon, <1>4 DEF MapsFor
    <2>2. CASE \E d \in C : server[d] = server'[c] /\ conn_id[d] = conn_id'[c]
        BY <2>2 DEF MapsFor
    <2>3. CASE ~ \E d \in C : server[d] = server'[c] /\ conn_id[d] = conn_id'[c]
        BY Zenon, <1>2, <2>1, <2>3
    <2> QED BY Zenon, <2>2, <2>3
<1>5. ASSUME NEW c \in Conns, object[c] = "alive", state[c] = "CONNECTED", c \notin C
      PROVE  /\ c \notin born /\ server'[c] = server[c] /\ conn_id'[c] = conn_id[c]
             /\ server[c] \in Servers /\ conn_id[c] \in Ids
             /\ InMap(c) \/ Collides(c)
    <2>1. c \notin born /\ server'[c] = server[c] /\ conn_id'[c] = conn_id[c]
        BY Zenon, <1>5 DEF MapsFor
    <2>2. server[c] # NoServer /\ server[c] \in Servers /\ conn_id[c] \in Ids
        BY Zenon, <1>5 DEF TypeOK
    <2>3. CASE \E o \in Conns \ {c} : Shares(c, o)
        <3>1. PICK o \in Conns \ {c} : Shares(c, o)
            BY Zenon, <2>3
        <3>2. o \notin born
            BY Zenon, <2>2, <3>1 DEF MapsFor, Shares
        <3>3. server'[o] = server'[c] /\ conn_id'[o] = conn_id'[c]
            BY Zenon, <2>1, <3>1, <3>2 DEF MapsFor, Shares
        <3> QED BY Zenon, <2>1, <2>2, <3>3
    <2>4. CASE connections[server[c]][conn_id[c]] = c
        <3> DEFINE s == server[c]
                   i == conn_id[c]
        <3>1. CASE \E d \in C : server[d] = s /\ conn_id[d] = i
            <4>1. PICK d \in C : server[d] = s /\ conn_id[d] = i
                BY Zenon, <3>1
            <4>2. d \in Conns \ {c} /\ d \notin born
                BY Zenon, <1>5, <4>1
            <4>3. server'[d] = server'[c] /\ conn_id'[d] = conn_id'[c]
                BY Zenon, <2>1, <4>1, <4>2 DEF MapsFor
            <4> QED BY Zenon, <2>1, <2>2, <4>2, <4>3
        <3>2. CASE ~ (\E d \in C : server[d] = s /\ conn_id[d] = i) /\ m[s][i] = connections[s][i]
            BY <1>2, <2>1, <2>2, <2>4, <3>2
        <3>3. CASE m[s][i] \in born /\ server'[m[s][i]] = s /\ conn_id'[m[s][i]] = i
            BY Zenon, <2>1, <2>2, <3>3
        <3> QED BY <2>2, <3>1, <3>2, <3>3 DEF MapsFor
    <2> QED BY Zenon, <1>5, <2>3, <2>4 DEF MissingNeedsCollision
<1>6. MissingNeedsCollision'
    <2> SUFFICES ASSUME NEW c \in Conns, object'[c] = "alive", state'[c] = "CONNECTED"
                 PROVE  InMap(c) \/ Collides(c)
        BY Zenon, <1>1 DEF MissingNeedsCollision, Shares
    <2>1. c \notin C /\ (c \in born \/ (object[c] = "alive" /\ state[c] = "CONNECTED"))
        BY Zenon, <1>1
    <2> QED BY Zenon, <1>4, <1>5, <2>1
<1>7. DropStep
    <2> SUFFICES ASSUME NEW c \in Conns, object[c] = "alive", object'[c] = "freed",
                        state'[c] = "CONNECTED"
                 PROVE  \E o \in Conns \ {c} : server'[o] = server[c] /\ conn_id'[o] = conn_id[c]
        BY Zenon DEF DropStep
    <2>1. c \notin born /\ c \notin C /\ state[c] = "CONNECTED" /\ c \notin owned
        BY Zenon, <1>1 DEF MapsFor
    <2>2. /\ server'[c] = server[c] /\ conn_id'[c] = conn_id[c]
          /\ server[c] \in Servers /\ conn_id[c] \in Ids
          /\ InMap(c) \/ Collides(c)
        BY Zenon, <1>5, <2>1
    <2>3. ~ InMap(c)
        BY Zenon, <1>3, <2>1, <2>2
    <2> QED BY Zenon, <2>2, <2>3
<1> QED BY Zenon, <1>6, <1>7

\* The types of what Settle changes.
Settled(born, ctl) ==
    /\ object' \in [Conns -> {"none", "alive", "freed"}]
    /\ state' \in [Conns -> {"CONNECTING", "CONNECTED", "DISCONNECTED"}]
    /\ connections' \in [Servers -> [Ids -> Conns \cup {NoConn}]]
    /\ control' = ctl
    /\ wait_handle_visitors_' \in Seq(Conns)
    /\ interest' \subseteq Conns
    /\ socket' \in [Conns -> SUBSET {"data", "eof"}]
    /\ \A c \in Conns : object'[c] = "none" <=> object[c] = "none" /\ c \notin born

\* Settle keeps the types of what it changes, and makes the objects of born.
LEMMA SettleTypes ==
    ASSUME TypeOK, NEW born \in SUBSET Conns, NEW read, NEW C \in SUBSET Conns,
           NEW m, NEW ctl \in Conns \cup {NoConn}, NEW queue \in Seq(Conns),
           MapsFor(m, born), Settle(born, read, C, m, ctl, queue)
    PROVE  Settled(born, ctl)
<1> DEFINE M == disconnectHandleInLoop(m, C)
           owned == Owned(M, ctl, queue)
<1>1. M \in [Servers -> [Ids -> Conns \cup {NoConn}]]
    BY DEF disconnectHandleInLoop, MapsFor
<1>2. connections' = M /\ control' = ctl /\ wait_handle_visitors_' = queue
    BY Zenon DEF Settle
<1>3. owned \subseteq Conns
    BY Zenon DEF Owned
<1> HIDE DEF M, owned
<1>4. /\ object' = [c \in Conns |->
            IF object[c] # "alive" /\ c \notin born THEN object[c]
            ELSE IF c \in owned THEN "alive" ELSE "freed"]
      /\ state' = [c \in Conns |-> IF c \in C THEN "DISCONNECTED"
                                   ELSE IF c \in born THEN "CONNECTED" ELSE state[c]]
      /\ interest' = Watched(update_channel(interest, born), C, owned)
      /\ socket' = [c \in Conns |-> IF c \in interest' \ read THEN socket[c] ELSE {}]
    BY Zenon DEF Settle, M, owned
<1>5. interest' \subseteq Conns
    BY Zenon, <1>3, <1>4 DEF Watched, update_channel, delete_channel
<1>6. socket' \in [Conns -> SUBSET {"data", "eof"}]
    BY Zenon, <1>4 DEF TypeOK
<1>7. /\ object' \in [Conns -> {"none", "alive", "freed"}]
      /\ state' \in [Conns -> {"CONNECTING", "CONNECTED", "DISCONNECTED"}]
      /\ \A c \in Conns : object'[c] = "none" <=> object[c] = "none" /\ c \notin born
    BY Zenon, <1>4 DEF TypeOK
<1> QED BY Zenon, <1>1, <1>2, <1>5, <1>6, <1>7 DEF Settled

-----------------------------------------------------------------------------
\* What a close takes with it are connections, and ones that were accepted.
LEMMA CloseSet ==
    ASSUME TypeOK, NEW c \in Conns, c <= accepted,
           NEW br, br \subseteq Conns \X Conns
    PROVE  /\ handle_close(c, br) \subseteq Conns
           /\ \A d \in handle_close(c, br) : d <= accepted
<1>1. ASSUME NEW d \in Conns
      PROVE  force_close(d) \subseteq {e \in Conns : e <= accepted}
    BY Zenon DEF force_close, TypeOK
<1>2. \A b \in br : b[1] \in Conns /\ b[2] \in Conns
    BY Zenon
<1>3. \A b \in br : cut_off_bridge(b) \subseteq {e \in Conns : e <= accepted}
    BY Zenon, <1>1, <1>2 DEF cut_off_bridge
<1>4. handle_close(c, br) \subseteq {c} \cup UNION {cut_off_bridge(b) : b \in br}
    BY Zenon DEF handle_close, BridgesOf
<1> QED BY Zenon, <1>3, <1>4

\* A handler of a read event keeps the invariant, whatever it closes.
LEMMA ReadKeepsInv ==
    ASSUME Inv, NEW x \in Conns, ReadNonBlocking(x),
           NEW C \in SUBSET Conns, NEW ctl \in Conns \cup {NoConn}, NEW queue \in Seq(Conns),
           ctl # NoConn => ctl <= accepted, control # NoConn => ctl # NoConn,
           bridges' \subseteq Conns \X Conns,
           Settle({}, {x}, C, connections, ctl, queue)
    PROVE  Inv' /\ DropStep
<1> USE DEF Inv
<1>1. /\ running' = running /\ accepted' = accepted /\ server' = server
      /\ conn_id' = conn_id /\ backlog' = backlog /\ acceptors' = acceptors
      /\ activeChannels' \subseteq activeChannels
    BY Zenon DEF ReadNonBlocking, Dispatch
<1>2. MapsFor(connections, {})
    BY Zenon, <1>1 DEF MapsFor, TypeOK
<1>3. WatchedIffOpen' /\ MapSound' /\ ClosedReleased'
    BY Zenon, <1>2, SettleSafe
<1>4. MissingNeedsCollision' /\ DropStep
    BY Zenon, <1>2, SettleCollision
<1>5. Settled({}, ctl)
    BY Zenon, <1>2, SettleTypes
<1>6. TypeOK'
    BY Zenon, <1>1, <1>5 DEF TypeOK, Settled
<1>7. ControlMade'
    BY Zenon, <1>1, <1>5 DEF ControlMade, Settled
<1> QED BY Zenon, <1>3, <1>4, <1>6, <1>7

\* Accepting a connection keeps the invariant, also over an id in use.
LEMMA AcceptKeepsInv ==
    ASSUME Inv, NEW s \in Servers, newConnectionHandle(s)
    PROVE  Inv' /\ DropStep
<1> USE LifetimesAssumption DEF Inv
<1> DEFINE n == accepted + 1
<1>1. /\ running' = running /\ bridges' = bridges /\ activeChannels' = activeChannels
      /\ acceptors' \subseteq acceptors /\ backlog' \subseteq backlog
      /\ accepted < MaxConns /\ accepted' = n
      /\ server' = [server EXCEPT ![n] = s]
    BY Zenon DEF newConnectionHandle, acceptNewConnection
<1>2. n \in Conns /\ accepted \in Nat /\ n \in 0..MaxConns
    BY <1>1 DEF TypeOK, Conns
<1>3. object[n] = "none" /\ server[n] = NoServer
    BY <1>2 DEF TypeOK
<1>4. PICK id \in dis, reset \in BOOLEAN :
          /\ reset => s = "proxy"
          /\ conn_id' = [conn_id EXCEPT ![n] = id]
          /\ Settle({n}, {}, IF reset THEN handle_close(control, bridges) ELSE {},
                    [connections EXCEPT ![s][id] = n], control,
                    IF s = "proxy" THEN Append(wait_handle_visitors_, n)
                                   ELSE wait_handle_visitors_)
    BY Zenon DEF newConnectionHandle, acceptNewConnection
<1> DEFINE C == IF reset THEN handle_close(control, bridges) ELSE {}
           m == [connections EXCEPT ![s][id] = n]
           queue == IF s = "proxy" THEN Append(wait_handle_visitors_, n)
                                   ELSE wait_handle_visitors_
<1>5. C \subseteq Conns /\ C \cap {n} = {}
    <2>1. CASE reset /\ control # NoConn
        <3>1. control \in Conns /\ control <= accepted /\ bridges \subseteq Conns \X Conns
            BY Zenon, <2>1 DEF TypeOK, ControlMade
        <3>2. C \subseteq Conns /\ \A d \in C : d <= accepted
            BY Zenon, <2>1, <3>1, CloseSet
        <3>3. ~ (n <= accepted)
            BY <1>2
        <3> QED BY Zenon, <3>2, <3>3
    <2>2. CASE ~ reset
        BY Zenon, <2>2
    <2>3. reset => control # NoConn
        BY Zenon, <1>4 DEF newConnectionHandle, acceptNewConnection, ControlMade
    <2> QED BY Zenon, <2>1, <2>2, <2>3
<1>6. id \in Ids /\ queue \in Seq(Conns)
    BY <1>2 DEF dis, TypeOK
<1>7. MapsFor(m, {n})
    <2>1. connections \in [Servers -> [Ids -> Conns \cup {NoConn}]]
        BY Zenon DEF TypeOK
    <2>2. m \in [Servers -> [Ids -> Conns \cup {NoConn}]]
        BY Zenon, <1>2, <1>6, <2>1
    <2>3. server'[n] = s /\ conn_id'[n] = id
        BY Zenon, <1>1, <1>2, <1>4 DEF TypeOK
    <2>4. m[s][id] = n
        BY Zenon, <1>6, <2>1
    <2>5. \A r \in Servers, i \in Ids : m[r][i] = connections[r][i] \/ (r = s /\ i = id)
        BY Zenon, <1>6, <2>1
    <2>6. \A c \in Conns \ {n} : server'[c] = server[c] /\ conn_id'[c] = conn_id[c]
        BY Zenon, <1>1, <1>4 DEF TypeOK
    <2> HIDE DEF m, n
    <2> QED BY <1>3, <1>6, <2>2, <2>3, <2>4, <2>5, <2>6 DEF MapsFor
<1>8. Settle({n}, {}, C, m, control, queue)
    BY Zenon, <1>4
<1> HIDE DEF C, m, queue
<1>9. WatchedIffOpen' /\ MapSound' /\ ClosedReleased'
    BY Zenon, <1>2, <1>5, <1>7, <1>8, SettleSafe
<1>10. MissingNeedsCollision' /\ DropStep
    BY Zenon, <1>2, <1>5, <1>7, <1>8, SettleCollision
<1>11. Settled({n}, control)
    <2>1. control \in Conns \cup {NoConn}
        BY Zenon DEF TypeOK
    <2> QED BY Zenon, <1>2, <1>5, <1>6, <1>7, <1>8, <2>1, SettleTypes
<1>12. TypeOK'
    <2>1. /\ server' \in [Conns -> Servers \cup {NoServer}]
          /\ conn_id' \in [Conns -> Ids \cup {NoId}]
        BY Zenon, <1>1, <1>4, <1>6 DEF TypeOK
    <2>2. ASSUME NEW c \in Conns
          PROVE  IF c <= accepted'
                 THEN object'[c] # "none" /\ server'[c] # NoServer /\ conn_id'[c] # NoId
                 ELSE object'[c] = "none" /\ server'[c] = NoServer
        <3>1. c \in Nat
            BY DEF Conns
        <3>2. CASE c = n
            <4>1. server'[c] = s /\ conn_id'[c] = id
                BY Zenon, <1>1, <1>4, <3>2 DEF TypeOK
            <4> QED BY <1>1, <1>2, <1>6, <1>11, <3>1, <3>2, <4>1 DEF Settled, Servers, NoServer, Ids, NoId
        <3>3. CASE c # n
            <4>1. server'[c] = server[c] /\ conn_id'[c] = conn_id[c]
                BY Zenon, <1>1, <1>4, <3>3 DEF TypeOK
            <4>2. c <= accepted' <=> c <= accepted
                BY <1>1, <1>2, <3>1, <3>3
            <4>3. object'[c] = "none" <=> object[c] = "none"
                BY Zenon, <1>11, <3>3 DEF Settled
            <4> QED BY Zenon, <4>1, <4>2, <4>3 DEF TypeOK
        <3> QED BY Zenon, <3>2, <3>3
    <2> QED BY Zenon, <1>1, <1>2, <1>11, <2>1, <2>2 DEF TypeOK, Settled
<1>13. ControlMade'
    BY <1>1, <1>2, <1>11 DEF ControlMade, TypeOK, Conns, Settled
<1> QED BY Zenon, <1>9, <1>10, <1>12, <1>13

\* Steps of the peers, poll, the event of a freed channel and stuttering leave
\* objects and owners alone.
LEMMA QuietKeepsInv ==
    ASSUME Inv, TypeOK', ControlMade',
           UNCHANGED <<object, state, server, conn_id, connections, control,
                       wait_handle_visitors_, interest>>
    PROVE  Inv' /\ DropStep
<1>1. WatchedIffOpen'
    BY Zenon DEF Inv, WatchedIffOpen
<1>2. MapSound'
    <2>1. MapSound
        BY Zenon DEF Inv
    <2> QED BY <2>1 DEF MapSound
<1>3. ClosedReleased'
    BY Zenon DEF Inv, ClosedReleased
<1>4. MissingNeedsCollision'
    BY Zenon DEF Inv, MissingNeedsCollision, Shares
<1>5. DropStep
    BY Zenon DEF DropStep
<1> QED BY Zenon, <1>1, <1>2, <1>3, <1>4, <1>5 DEF Inv

\* Every handler of a connection's event keeps the invariant.
LEMMA EventKeepsInv ==
    ASSUME Inv, NEW x \in Conns, handle_event(x)
    PROVE  Inv' /\ DropStep
<1>0. TypeOK /\ ControlMade
    BY Zenon DEF Inv
<1>1. /\ bridges \subseteq Conns \X Conns /\ wait_handle_visitors_ \in Seq(Conns)
      /\ control \in Conns \cup {NoConn} /\ (control # NoConn => control <= accepted)
    BY Zenon, <1>0 DEF TypeOK, ControlMade
<1>2. ASSUME ReadNonBlocking(x)
      PROVE  x <= accepted /\ ClosedByRead(x) \in SUBSET Conns
    <2>1. x <= accepted
        BY Zenon, <1>0, <1>2 DEF ReadNonBlocking, TypeOK
    <2>2. handle_close(x, bridges) \subseteq Conns
        BY Zenon, <1>0, <1>1, <2>1, CloseSet
    <2> QED BY Zenon, <2>1, <2>2 DEF ClosedByRead
<1>3. BridgesAfterRead(x) \subseteq Conns \X Conns
    BY Zenon, <1>1 DEF BridgesAfterRead
<1>4. CASE handle_data_in(x)
    <2>1. /\ ReadNonBlocking(x) /\ bridges' \subseteq Conns \X Conns
          /\ Settle({}, {x}, ClosedByRead(x), connections, control, wait_handle_visitors_)
        BY Zenon, <1>3, <1>4 DEF handle_data_in
    <2>2. ClosedByRead(x) \in SUBSET Conns
        BY Zenon, <1>2, <2>1
    <2> QED BY Zenon, <1>1, <2>1, <2>2, ReadKeepsInv
<1>5. CASE handle_control_channel_hello(x)
    <2>1. ReadNonBlocking(x) /\ bridges' \subseteq Conns \X Conns /\ control = NoConn
        BY Zenon, <1>1, <1>5 DEF handle_control_channel_hello
    <2>2. PICK reset \in BOOLEAN :
              Settle({}, {x}, IF reset THEN handle_close(x, bridges) ELSE ClosedByRead(x),
                     connections, x, wait_handle_visitors_)
        BY Zenon, <1>5 DEF handle_control_channel_hello
    <2> DEFINE C == IF reset THEN handle_close(x, bridges) ELSE ClosedByRead(x)
    <2>3. C \in SUBSET Conns /\ x <= accepted
        BY Zenon, <1>0, <1>1, <1>2, <2>1, CloseSet
    <2>4. Settle({}, {x}, C, connections, x, wait_handle_visitors_)
        BY Zenon, <2>2
    <2> HIDE DEF C
    <2> QED BY Zenon, <1>1, <2>1, <2>3, <2>4, ReadKeepsInv
<1>6. CASE handle_data_channel_hello(x)
    <2> DEFINE v == Head(wait_handle_visitors_)
               bridged == BridgesAfterRead(x) \cup {<<v, x>>}
    <2>1. ReadNonBlocking(x) /\ wait_handle_visitors_ # <<>>
        BY Zenon, <1>6 DEF handle_data_channel_hello
    <2>2. PICK reset \in BOOLEAN :
              /\ bridges' = IF reset THEN bridged \ {<<v, x>>} ELSE bridged
              /\ Settle({}, {x}, IF reset THEN handle_close(x, bridged) ELSE ClosedByRead(x),
                        connections, control, Tail(wait_handle_visitors_))
        BY Zenon, <1>6 DEF handle_data_channel_hello
    <2>3. v \in Conns /\ Tail(wait_handle_visitors_) \in Seq(Conns)
        BY <1>1, <2>1
    <2>4. bridged \subseteq Conns \X Conns
        BY <1>3, <2>3
    <2> HIDE DEF bridged, v
    <2> DEFINE C == IF reset THEN handle_close(x, bridged) ELSE ClosedByRead(x)
    <2>5. C \in SUBSET Conns
        BY Zenon, <1>0, <1>2, <2>1, <2>4, CloseSet
    <2>6. bridges' \subseteq Conns \X Conns
        BY Zenon, <2>2, <2>4
    <2>7. Settle({}, {x}, C, connections, control, Tail(wait_handle_visitors_))
        BY Zenon, <2>2
    <2> HIDE DEF C
    <2> QED BY Zenon, <1>1, <2>1, <2>3, <2>5, <2>6, <2>7, ReadKeepsInv
<1>7. CASE Forward(x)
    <2>1. ReadNonBlocking(x)
        BY Zenon, <1>7 DEF Forward
    <2>2. PICK y \in Peers(x), reset \in BOOLEAN :
              /\ bridges' = IF reset THEN bridges \ BridgesOf(y, bridges) ELSE bridges
              /\ Settle({}, {x}, IF reset THEN handle_close(y, bridges) ELSE {},
                        connections, control, wait_handle_visitors_)
        BY Zenon, <1>7 DEF Forward
    <2>3. y \in Conns /\ y <= accepted
        <3>1. \A b \in BridgesOf(x, bridges) : b[1] \in Conns /\ b[2] \in Conns
            BY Zenon, <1>1 DEF BridgesOf
        <3>2. y \in Conns /\ object[y] = "alive"
            BY Zenon, <3>1 DEF Peers
        <3> QED BY Zenon, <1>0, <3>2 DEF TypeOK
    <2> DEFINE C == IF reset THEN handle_close(y, bridges) ELSE {}
    <2>4. C \in SUBSET Conns
        BY Zenon, <1>0, <1>1, <2>3, CloseSet
    <2>5. bridges' \subseteq Conns \X Conns
        BY Zenon, <1>1, <2>2
    <2>6. Settle({}, {x}, C, connections, control, wait_handle_visitors_)
        BY Zenon, <2>2
    <2> HIDE DEF C
    <2> QED BY Zenon, <1>1, <2>1, <2>4, <2>5, <2>6, ReadKeepsInv
<1>8. CASE handle_event_freed(x)
    <2>1. /\ UNCHANGED <<accepted, object, state, server, conn_id, connections, control,
                         wait_handle_visitors_, bridges, interest, socket, backlog, acceptors>>
          /\ running' \in BOOLEAN /\ activeChannels' \subseteq activeChannels
        BY Zenon, <1>8 DEF handle_event_freed, Dispatch
    <2>2. TypeOK' /\ ControlMade'
        BY Zenon, <1>0, <2>1 DEF TypeOK, ControlMade
    <2> QED BY Zenon, <2>1, <2>2, QuietKeepsInv
<1> QED BY Zenon, <1>4, <1>5, <1>6, <1>7, <1>8 DEF handle_event

\* The invariant is inductive, and no step drops a connection without a collision.
LEMMA InductiveStep == Inv /\ [Next]_vars => Inv' /\ DropStep
<1> SUFFICES ASSUME Inv, [Next]_vars PROVE Inv' /\ DropStep
    BY Zenon
<1>0. TypeOK /\ ControlMade
    BY Zenon DEF Inv
<1>1. CASE poll
    <2>1. /\ UNCHANGED <<running, accepted, object, state, server, conn_id, connections,
                         control, wait_handle_visitors_, bridges, interest, socket, backlog>>
          /\ activeChannels' \subseteq interest /\ acceptors' = backlog
        BY Zenon, <1>1 DEF poll
    <2>2. TypeOK' /\ ControlMade'
        BY Zenon, <1>0, <2>1 DEF TypeOK, ControlMade
    <2> QED BY Zenon, <2>1, <2>2, QuietKeepsInv
<1>2. ASSUME NEW s \in Servers, newConnectionHandle(s)
      PROVE  Inv' /\ DropStep
    BY Zenon, <1>2, AcceptKeepsInv
<1>3. ASSUME NEW c \in Conns, handle_event(c)
      PROVE  Inv' /\ DropStep
    BY Zenon, <1>3, EventKeepsInv
<1>4. ASSUME NEW s \in Servers, PeerConnects(s)
      PROVE  Inv' /\ DropStep
    <2>1. /\ UNCHANGED <<running, accepted, object, state, server, conn_id, connections,
                         control, wait_handle_visitors_, bridges, interest, socket,
                         activeChannels, acceptors>>
          /\ backlog' = backlog \cup {s} /\ (s = "proxy" => control # NoConn)
        BY Zenon, <1>4 DEF PeerConnects, Listening
    <2>2. TypeOK' /\ ControlMade'
        BY Zenon, <1>0, <2>1 DEF TypeOK, ControlMade
    <2> QED BY Zenon, <2>1, <2>2, QuietKeepsInv
<1>5. ASSUME NEW c \in Conns, NEW what \in {"data", "eof"}, PeerSends(c, what)
      PROVE  Inv' /\ DropStep
    <2>1. /\ UNCHANGED <<running, accepted, object, state, server, conn_id, connections,
                         control, wait_handle_visitors_, bridges, interest, backlog,
                         activeChannels, acceptors>>
          /\ socket' = [socket EXCEPT ![c] = @ \cup {what}]
        BY Zenon, <1>5 DEF PeerSends
    <2>2. socket' \in [Conns -> SUBSET {"data", "eof"}]
        BY Zenon, <1>0, <2>1 DEF TypeOK
    <2>3. TypeOK' /\ ControlMade'
        BY Zenon, <1>0, <2>1, <2>2 DEF TypeOK, ControlMade
    <2> QED BY Zenon, <2>1, <2>3, QuietKeepsInv
<1>6. CASE UNCHANGED vars
    <2>1. TypeOK' /\ ControlMade'
        BY Zenon, <1>0, <1>6 DEF TypeOK, ControlMade, vars
    <2> QED BY Zenon, <1>6, <2>1, QuietKeepsInv DEF vars
<1> QED BY Zenon, <1>1, <1>2, <1>3, <1>4, <1>5, <1>6 DEF Next, Loop

\* An empty reactor satisfies the invariant.
LEMMA InitInv == Init => Inv
<1> SUFFICES ASSUME Init PROVE Inv
    BY Zenon
<1> USE LifetimesAssumption DEF Init
<1>1. TypeOK
    BY DEF TypeOK, Conns, Ids, NoConn, NoId, NoServer
<1>2. ControlMade /\ WatchedIffOpen /\ MapSound /\ ClosedReleased /\ MissingNeedsCollision
    BY Zenon DEF ControlMade, WatchedIffOpen, MapSound, ClosedReleased, MissingNeedsCollision
<1> QED BY Zenon, <1>1, <1>2 DEF Inv

\* The members keep their types.
THEOREM TypeCorrect == Spec => []TypeOK
<1>1. Inv => TypeOK
    BY Zenon DEF Inv
<1> QED BY <1>1, InitInv, InductiveStep, PTL DEF Spec

\* epoll watches exactly the open connections.
THEOREM WatchedAreOpen == Spec => []WatchedIffOpen
<1>1. Inv => WatchedIffOpen
    BY Zenon DEF Inv
<1> QED BY <1>1, InitInv, InductiveStep, PTL DEF Spec

\* The maps of the Servers hold open connections under their own ids only
\* (MapSound), and a closed connection is destroyed at once unless a control
\* channel or the visitors' queue holds it (ClosedReleased).
THEOREM ClosedAreReleased == Spec => []ClosedForgotten
<1>1. Inv => ClosedForgotten
    BY Zenon DEF Inv, ClosedForgotten
<1> QED BY <1>1, InitInv, InductiveStep, PTL DEF Spec

\* A connection is destroyed without being closed only if another of its server
\* has drawn the same id (Server::newConnectionHandle and disconnectHandleInLoop).
THEOREM NoDropWithoutCollision == Spec => DropNeedsCollision
<1>1. DropStep => [\A c \in Conns :
          object[c] = "alive" /\ object'[c] = "freed" /\ state'[c] = "CONNECTED" =>
              \E o \in Conns \ {c} : server'[o] = server[c] /\ conn_id'[o] = conn_id[c]]_vars
    BY Zenon DEF DropStep
<1> QED BY <1>1, InitInv, InductiveStep, PTL DEF Spec, DropNeedsCollision

-----------------------------------------------------------------------------

\* The visitors of the queue came to the proxy port, each waits once.
QueueApart ==
    /\ \A i \in DOMAIN wait_handle_visitors_ : server[wait_handle_visitors_[i]] = "proxy"
    /\ \A i, j \in DOMAIN wait_handle_visitors_ :
          wait_handle_visitors_[i] = wait_handle_visitors_[j] => i = j

\* A bridge joins a visitor that waits no longer with a data connection, and no
\* connection is an end of two.
BridgeApart ==
    /\ \A b \in bridges : /\ server[b[1]] = "proxy" /\ server[b[2]] = "ncx"
                          /\ b[2] # control
                          /\ b[1] \notin Range(wait_handle_visitors_)
    /\ \A a, b \in bridges : a[1] = b[1] \/ a[2] = b[2] => a = b

\* The control connection is one of the client's.
ControlApart == control # NoConn => server[control] = "ncx"

\* An object that exists has been connected.
WasConnected == \A c \in Conns : object[c] = "alive" => state[c] # "CONNECTING"

\* Bridges, queue and control channel share no connection.
Apart == QueueApart /\ BridgeApart /\ ControlApart /\ WasConnected


\* What a step may not do to a bridge: close one end and leave the other.
EndsStep ==
    \A b \in bridges : \A c \in {b[1], b[2]} :
        state[c] = "CONNECTED" /\ state'[c] = "DISCONNECTED" =>
            \A o \in {b[1], b[2]} : object'[o] = "freed"

\* The set C of closed connections holds, with one end of b, what is open of b.
ClosesWhole(C, b) ==
    (\E c \in {b[1], b[2]} : c \in C) =>
        \A o \in {b[1], b[2]} : o \in C \/ object[o] # "alive" \/ state[o] # "CONNECTED"

\* handle_close closes bridges as a whole.
LEMMA CloseWhole ==
    ASSUME Apart, NEW y, NEW b \in bridges
    PROVE  ClosesWhole(handle_close(y, bridges), b)
<1> SUFFICES ASSUME NEW c \in {b[1], b[2]}, c \in handle_close(y, bridges),
                    NEW o \in {b[1], b[2]}, object[o] = "alive", state[o] = "CONNECTED"
             PROVE  o \in handle_close(y, bridges)
    BY Zenon DEF ClosesWhole
<1>1. handle_close(y, bridges)
          = {y} \cup UNION {cut_off_bridge(a) : a \in BridgesOf(y, bridges)}
    BY Zenon DEF handle_close
<1>2. b \in BridgesOf(y, bridges)
    <2>1. CASE c = y
        BY Zenon, <2>1 DEF BridgesOf
    <2>2. CASE c # y
        <3>1. PICK a \in BridgesOf(y, bridges) : c \in cut_off_bridge(a)
            BY Zenon, <1>1, <2>2
        <3>2. a \in bridges /\ c \in {a[1], a[2]}
            BY Zenon, <3>1 DEF BridgesOf, cut_off_bridge, force_close
        <3>3. /\ server[a[1]] = "proxy" /\ server[a[2]] = "ncx"
              /\ server[b[1]] = "proxy" /\ server[b[2]] = "ncx"
              /\ a[1] = b[1] \/ a[2] = b[2] => a = b
            BY Zenon, <3>2 DEF Apart, BridgeApart
        <3>4. a = b
            BY Zenon, <3>2, <3>3
        <3> QED BY Zenon, <3>1, <3>4
    <2> QED BY Zenon, <2>1, <2>2
<1>3. o \in cut_off_bridge(b)
    BY Zenon DEF cut_off_bridge, force_close
<1> QED BY Zenon, <1>1, <1>2, <1>3

\* A handler that closes bridges as a whole, and gives no end of a bridge to the
\* control channel or to the queue, destroys both ends of what it closes.
LEMMA SettleEnds ==
    ASSUME Inv, ClosedReleased', Apart,
           NEW born \in SUBSET Conns, NEW read, NEW C \in SUBSET Conns,
           NEW m, NEW ctl, NEW queue,
           Settle(born, read, C, m, ctl, queue),
           \A c \in born : object[c] = "none",
           \A b \in bridges : /\ ClosesWhole(C, b)
                              /\ \A o \in {b[1], b[2]} : o # ctl /\ o \notin Range(queue)
    PROVE  EndsStep
<1> DEFINE M == disconnectHandleInLoop(m, C)
           owned == Owned(M, ctl, queue)
<1>0. M = disconnectHandleInLoop(m, C) /\ owned = Owned(M, ctl, queue)
    BY Zenon
<1> HIDE DEF M, owned
<1>1. /\ control' = ctl /\ wait_handle_visitors_' = queue
      /\ \A c \in Conns : state'[c] = (IF c \in C THEN "DISCONNECTED"
                                       ELSE IF c \in born THEN "CONNECTED" ELSE state[c])
      /\ \A c \in Conns : object'[c] =
            (IF object[c] # "alive" /\ c \notin born THEN object[c]
             ELSE IF c \in owned THEN "alive" ELSE "freed")
    BY ONLY <1>0, Settle(born, read, C, m, ctl, queue), SettleFacts
<1> SUFFICES ASSUME NEW b \in bridges, NEW c \in {b[1], b[2]},
                    state[c] = "CONNECTED", state'[c] = "DISCONNECTED",
                    NEW o \in {b[1], b[2]}
             PROVE  object'[o] = "freed"
    BY Zenon DEF EndsStep
<1>2. /\ b[1] \in Conns /\ b[2] \in Conns
      /\ server[b[1]] = "proxy" /\ server[b[2]] = "ncx"
    BY Zenon DEF Inv, TypeOK, Apart, BridgeApart
<1>3. c \in Conns /\ o \in Conns /\ server[o] # NoServer
    BY Zenon, <1>2 DEF NoServer
<1>4. object[o] \in {"alive", "freed"}
    BY Zenon, <1>3 DEF Inv, TypeOK
<1>5. c \in C
    BY Zenon, <1>1, <1>3
<1>6. o \in C \/ object[o] # "alive" \/ state[o] # "CONNECTED"
    BY Zenon, <1>5 DEF ClosesWhole
<1>7. o \notin born
    BY Zenon, <1>4
<1>8. CASE object[o] = "freed"
    BY Zenon, <1>1, <1>3, <1>7, <1>8
<1>9. CASE object[o] = "alive"
    <2>1. state'[o] = "DISCONNECTED"
        <3>1. state[o] \in {"CONNECTED", "DISCONNECTED"}
            BY Zenon, <1>3, <1>9 DEF Inv, TypeOK, Apart, WasConnected
        <3> QED BY Zenon, <1>1, <1>3, <1>6, <1>7, <1>9, <3>1
    <2>2. o # control' /\ o \notin Range(wait_handle_visitors_')
        BY ZenonT(40), <1>1
    <2>3. object'[o] # "alive"
        BY Zenon, <1>3, <2>1, <2>2 DEF ClosedReleased
    <2> QED BY Zenon, <1>1, <1>3, <1>9, <2>3
<1> QED BY Zenon, <1>4, <1>8, <1>9

\* Settle makes only connected objects.
LEMMA SettleConnected ==
    ASSUME WasConnected, NEW born \in SUBSET Conns, NEW read, NEW C, NEW m, NEW ctl,
           NEW queue, Settle(born, read, C, m, ctl, queue)
    PROVE  WasConnected' /\ control' = ctl /\ wait_handle_visitors_' = queue
<1> DEFINE M == disconnectHandleInLoop(m, C)
           owned == Owned(M, ctl, queue)
<1>0. M = disconnectHandleInLoop(m, C) /\ owned = Owned(M, ctl, queue)
    BY Zenon
<1> HIDE DEF M, owned
<1>1. /\ control' = ctl /\ wait_handle_visitors_' = queue
      /\ \A c \in Conns : state'[c] = (IF c \in C THEN "DISCONNECTED"
                                       ELSE IF c \in born THEN "CONNECTED" ELSE state[c])
      /\ \A c \in Conns : object'[c] =
            (IF object[c] # "alive" /\ c \notin born THEN object[c]
             ELSE IF c \in owned THEN "alive" ELSE "freed")
    BY ONLY <1>0, Settle(born, read, C, m, ctl, queue), SettleFacts
<1> QED BY Zenon, <1>1 DEF WasConnected

\* No end of a bridge is the control connection or waits in the queue.
LEMMA EndsUnowned ==
    ASSUME Apart, NEW b \in bridges, NEW o \in {b[1], b[2]}
    PROVE  (control # NoConn => o # control) /\ o \notin Range(wait_handle_visitors_)
<1>1. /\ server[b[1]] = "proxy" /\ server[b[2]] = "ncx" /\ b[2] # control
      /\ b[1] \notin Range(wait_handle_visitors_)
    BY Zenon DEF Apart, BridgeApart
<1>2. control # NoConn => server[control] = "ncx"
    BY Zenon DEF Apart, ControlApart
<1>3. \A e \in Range(wait_handle_visitors_) : server[e] = "proxy"
    BY DEF Apart, QueueApart, Range
<1>4. o \notin Range(wait_handle_visitors_)
    BY Zenon, <1>1, <1>3
<1>5. control # NoConn => o # control
    BY Zenon, <1>1, <1>2
<1> QED BY Zenon, <1>4, <1>5

\* Ends of bridges are connections.
LEMMA EndsAreConns ==
    ASSUME TypeOK, NEW b \in bridges, NEW o \in {b[1], b[2]}
    PROVE  o \in Conns /\ o # NoConn
<1>1. b \in Conns \X Conns
    BY Zenon DEF TypeOK
<1>2. b[1] \in Conns /\ b[2] \in Conns
    BY Zenon, <1>1
<1> QED BY <1>2 DEF Conns, NoConn

\* Fewer bridges, and the same queue, control connection and servers.
LEMMA FewerApart ==
    ASSUME Apart, bridges' \subseteq bridges, WasConnected',
           UNCHANGED <<control, wait_handle_visitors_, server>>
    PROVE  Apart'
<1>1. QueueApart' /\ ControlApart'
    BY Zenon DEF Apart, QueueApart, ControlApart
<1>2. BridgeApart'
    BY Zenon DEF Apart, BridgeApart
<1> QED BY Zenon, <1>1, <1>2 DEF Apart

\* A read of x that only closes keeps everything apart and bridges whole.
LEMMA ReadKeepsApart ==
    ASSUME Inv, Inv', Apart, NEW x \in Conns, NEW y, server' = server,
           NEW C, C \in {{}, handle_close(y, bridges)}, C \subseteq Conns,
           bridges' \subseteq bridges,
           Settle({}, {x}, C, connections, control, wait_handle_visitors_)
    PROVE  Apart' /\ EndsStep
<1>1. /\ WasConnected' /\ control' = control
      /\ wait_handle_visitors_' = wait_handle_visitors_
    BY Zenon, SettleConnected DEF Apart
<1>2. Apart'
    BY Zenon, <1>1, FewerApart
<1>3. \A b \in bridges : ClosesWhole(C, b)
    <2>1. CASE C = {}
        BY Zenon, <2>1 DEF ClosesWhole
    <2>2. CASE C = handle_close(y, bridges)
        BY Zenon, <2>2, CloseWhole
    <2> QED BY Zenon, <2>1, <2>2
<1>4. \A b \in bridges : \A o \in {b[1], b[2]} :
          o # control /\ o \notin Range(wait_handle_visitors_)
    <2> TAKE b \in bridges
    <2> TAKE o \in {b[1], b[2]}
    <2>1. o # NoConn
        BY Zenon, EndsAreConns DEF Inv
    <2>2. /\ control # NoConn => o # control
          /\ o \notin Range(wait_handle_visitors_)
        BY Zenon, EndsUnowned
    <2> QED BY Zenon, <2>1, <2>2
<1>5. ClosedReleased' /\ \A c \in {} : object[c] = "none"
    BY Zenon DEF Inv
<1> QED BY <1>2, <1>3, <1>4, <1>5, SettleEnds

\* The control hello takes a connection that no bridge and no queue holds.
LEMMA ControlHelloKeepsApart ==
    ASSUME Inv, Inv', Apart, NEW x \in Conns, handle_control_channel_hello(x)
    PROVE  Apart' /\ EndsStep
<1>1. /\ server' = server /\ bridges' = bridges /\ control = NoConn
      /\ server[x] = "ncx" /\ BridgesOf(x, bridges) = {} /\ object[x] = "alive"
    BY Zenon DEF handle_control_channel_hello, ReadNonBlocking, Greeting
<1>2. PICK reset \in BOOLEAN :
          Settle({}, {x}, IF reset THEN handle_close(x, bridges) ELSE ClosedByRead(x),
                 connections, x, wait_handle_visitors_)
    BY Zenon DEF handle_control_channel_hello
<1> DEFINE C == IF reset THEN handle_close(x, bridges) ELSE ClosedByRead(x)
<1>3. C \in {{}, handle_close(x, bridges)}
    BY Zenon DEF ClosedByRead
<1>4. handle_close(x, bridges) \subseteq Conns
    <2>1. TypeOK /\ bridges \subseteq Conns \X Conns /\ x <= accepted
        BY Zenon, <1>1 DEF Inv, TypeOK
    <2> QED BY Zenon, <2>1, CloseSet
<1>5. Settle({}, {x}, C, connections, x, wait_handle_visitors_)
    BY Zenon, <1>2
<1> HIDE DEF C
<1>6. C \subseteq Conns
    BY Zenon, <1>3, <1>4
<1>7. WasConnected' /\ control' = x /\ wait_handle_visitors_' = wait_handle_visitors_
    BY Zenon, <1>5, SettleConnected DEF Apart
<1>8. \A b \in bridges : x # b[1] /\ x # b[2]
    BY Zenon, <1>1 DEF BridgesOf
<1>9. Apart'
    <2>1. QueueApart'
        BY Zenon, <1>1, <1>7 DEF Apart, QueueApart
    <2>2. BridgeApart'
        BY Zenon, <1>1, <1>7, <1>8 DEF Apart, BridgeApart
    <2>3. ControlApart'
        BY Zenon, <1>1, <1>7 DEF ControlApart
    <2> QED BY Zenon, <1>7, <2>1, <2>2, <2>3 DEF Apart
<1>10. \A b \in bridges : ClosesWhole(C, b)
    <2>1. CASE C = {}
        BY Zenon, <2>1 DEF ClosesWhole
    <2>2. CASE C = handle_close(x, bridges)
        BY Zenon, <2>2, CloseWhole
    <2> QED BY Zenon, <1>3, <2>1, <2>2
<1>11. \A b \in bridges : \A o \in {b[1], b[2]} :
           o # x /\ o \notin Range(wait_handle_visitors_)
    BY Zenon, <1>8, EndsUnowned
<1>12. ClosedReleased' /\ \A c \in {} : object[c] = "none"
    BY Zenon DEF Inv
<1> QED BY <1>5, <1>6, <1>9, <1>10, <1>11, <1>12, SettleEnds

\* The data hello takes the first visitor from the queue into a bridge.
LEMMA DataHelloKeepsApart ==
    ASSUME Inv, Inv', Apart, NEW x \in Conns, handle_data_channel_hello(x)
    PROVE  Apart' /\ EndsStep
<1> DEFINE q == wait_handle_visitors_
           v == Head(q)
           t == Tail(q)
           bridged == BridgesAfterRead(x) \cup {<<v, x>>}
<1>1. /\ server' = server /\ q # <<>> /\ x # control
      /\ server[x] = "ncx" /\ BridgesOf(x, bridges) = {} /\ object[x] = "alive"
    BY Zenon DEF handle_data_channel_hello, ReadNonBlocking, Greeting
<1>2. PICK reset \in BOOLEAN :
          /\ bridges' = IF reset THEN bridged \ {<<v, x>>} ELSE bridged
          /\ Settle({}, {x}, IF reset THEN handle_close(x, bridged) ELSE ClosedByRead(x),
                    connections, control, t)
    BY Zenon DEF handle_data_channel_hello
<1>3. q \in Seq(Conns) /\ TypeOK /\ bridges \subseteq Conns \X Conns /\ x <= accepted
    BY Zenon, <1>1 DEF Inv, TypeOK
<1>4. /\ v \in Conns /\ t \in Seq(Conns) /\ Len(t) = Len(q) - 1
      /\ \A i \in 1..Len(t) : t[i] = q[i + 1]
      /\ Len(q) \in Nat /\ Len(q) > 0 /\ v = q[1]
      /\ DOMAIN q = 1..Len(q) /\ DOMAIN t = 1..Len(t)
    <2>1. v \in Conns /\ t \in Seq(Conns) /\ Len(t) = Len(q) - 1
        BY Zenon, <1>1, <1>3, HeadTailProperties
    <2>2. \A i \in 1..Len(t) : t[i] = q[i + 1]
        BY Zenon, <1>1, <1>3, HeadTailProperties
    <2>3. Len(q) \in Nat /\ Len(q) > 0 /\ v = q[1]
        BY <1>1, <1>3, EmptySeq
    <2> QED BY Zenon, <1>3, <2>1, <2>2, <2>3, LenProperties
<1>5. /\ bridges' \subseteq bridges \cup {<<v, x>>}
      /\ bridged \subseteq bridges \cup {<<v, x>>} /\ <<v, x>> \in bridged
    BY Zenon, <1>2 DEF BridgesAfterRead
<1> DEFINE C == IF reset THEN handle_close(x, bridged) ELSE ClosedByRead(x)
<1>6. Settle({}, {x}, C, connections, control, t)
    BY Zenon, <1>2
<1>7. server[v] = "proxy" /\ v \in Range(q) /\ 1 \in DOMAIN q
    BY <1>4 DEF Apart, QueueApart, Range
<1>8. \A b \in bridges : b[1] # v /\ b[2] # v /\ b[1] # x /\ b[2] # x
    <2> TAKE b \in bridges
    <2>1. b[1] # x /\ b[2] # x
        BY Zenon, <1>1 DEF BridgesOf
    <2>2. b[1] # v /\ b[2] # v
        BY Zenon, <1>7 DEF Apart, BridgeApart
    <2> QED BY Zenon, <2>1, <2>2
<1>9. Range(t) \subseteq Range(q) /\ v \notin Range(t)
    <2>1. ASSUME NEW i \in DOMAIN t PROVE t[i] \in Range(q) /\ t[i] # v
        <3>1. i + 1 \in DOMAIN q /\ t[i] = q[i + 1] /\ i + 1 # 1
            BY <1>4
        <3>2. q[i + 1] # q[1]
            BY Zenon, <1>7, <3>1 DEF Apart, QueueApart
        <3> QED BY Zenon, <1>4, <3>1, <3>2 DEF Range
    <2> QED BY Zenon, <2>1 DEF Range
<1> HIDE DEF q, v, t, bridged
<1>10. handle_close(x, bridged) \subseteq {x, v}
    <2>1. BridgesOf(x, bridged) \subseteq {<<v, x>>}
        BY Zenon, <1>5, <1>8 DEF BridgesOf
    <2>2. cut_off_bridge(<<v, x>>) \subseteq {v, x}
        BY Zenon DEF cut_off_bridge, force_close
    <2>3. handle_close(x, bridged)
              \subseteq {x} \cup UNION {cut_off_bridge(b) : b \in BridgesOf(x, bridged)}
        BY Zenon DEF handle_close
    <2> QED BY Zenon, <2>1, <2>2, <2>3
<1>11. C \subseteq Conns
    <2>1. handle_close(x, bridges) \subseteq Conns
        BY Zenon, <1>3, CloseSet
    <2> QED BY Zenon, <1>4, <1>10, <2>1 DEF ClosedByRead
<1>12. \A b \in bridges : ClosesWhole(C, b)
    <2> TAKE b \in bridges
    <2>1. CASE reset
        BY Zenon, <1>8, <1>10, <2>1 DEF ClosesWhole
    <2>2. CASE ~ reset
        <3>1. C = {} \/ C = handle_close(x, bridges)
            BY Zenon, <2>2 DEF ClosedByRead
        <3> HIDE DEF C
        <3>2. CASE C = {}
            BY Zenon, <3>2 DEF ClosesWhole
        <3>3. CASE C = handle_close(x, bridges)
            BY Zenon, <3>3, CloseWhole
        <3> QED BY Zenon, <3>1, <3>2, <3>3
    <2> QED BY Zenon, <2>1, <2>2
<1> HIDE DEF C
<1>13. \A b \in bridges : \A o \in {b[1], b[2]} : o # control /\ o \notin Range(t)
    <2> TAKE b \in bridges
    <2> TAKE o \in {b[1], b[2]}
    <2>1. o # NoConn
        BY Zenon, <1>3, EndsAreConns
    <2>2. (control # NoConn => o # control) /\ o \notin Range(q)
        BY Zenon, EndsUnowned DEF q
    <2> QED BY Zenon, <1>9, <2>1, <2>2
<1>14. EndsStep
    <2>1. ClosedReleased' /\ \A c \in {} : object[c] = "none"
        BY Zenon DEF Inv
    <2> QED BY <1>6, <1>11, <1>12, <1>13, <2>1, SettleEnds
<1>15. WasConnected' /\ control' = control /\ wait_handle_visitors_' = t
    BY Zenon, <1>6, SettleConnected DEF Apart
<1>16. QueueApart'
    <2>1. /\ \A i \in DOMAIN q : server[q[i]] = "proxy"
          /\ \A i, j \in DOMAIN q : q[i] = q[j] => i = j
        BY Zenon DEF Apart, QueueApart, q
    <2>2. \A i \in DOMAIN t : i + 1 \in DOMAIN q /\ t[i] = q[i + 1] /\ i \in Int
        BY <1>4
    <2>3. \A i, j \in DOMAIN t : t[i] = t[j] => i = j
        <3> TAKE i, j \in DOMAIN t
        <3> HAVE t[i] = t[j]
        <3>1. i + 1 = j + 1
            BY <2>1, <2>2
        <3> QED BY <2>2, <3>1
    <2>4. \A i \in DOMAIN t : server[t[i]] = "proxy"
        BY <2>1, <2>2
    <2> QED BY Zenon, <1>1, <1>15, <2>3, <2>4 DEF QueueApart
<1>17. BridgeApart'
    <2> DEFINE Fine(b) == /\ server[b[1]] = "proxy" /\ server[b[2]] = "ncx"
                          /\ b[2] # control /\ b[1] \notin Range(t)
    <2>1. \A b \in bridges : Fine(b)
        BY Zenon, <1>13 DEF Apart, BridgeApart
    <2>2. Fine(<<v, x>>)
        BY Zenon, <1>1, <1>7, <1>9
    <2>3. \A b \in bridges' : Fine(b)
        BY Zenon, <1>5, <2>1, <2>2
    <2>4. \A a, b \in bridges' : a[1] = b[1] \/ a[2] = b[2] => a = b
        <3>1. \A a, b \in bridges : a[1] = b[1] \/ a[2] = b[2] => a = b
            BY Zenon DEF Apart, BridgeApart
        <3> QED BY <1>5, <1>8, <3>1
    <2> QED BY Zenon, <1>1, <1>15, <2>3, <2>4 DEF BridgeApart
<1>18. ControlApart'
    BY Zenon, <1>1, <1>15 DEF Apart, ControlApart
<1> QED BY Zenon, <1>14, <1>15, <1>16, <1>17, <1>18 DEF Apart

\* A new connection is an end of no bridge, and the control connection closed
\* on its account is none either.
LEMMA AcceptKeepsApart ==
    ASSUME Inv, Inv', Apart, NEW s \in Servers, newConnectionHandle(s)
    PROVE  Apart' /\ EndsStep
<1> DEFINE n == accepted + 1
           q == wait_handle_visitors_
<1>1. bridges' = bridges /\ accepted < MaxConns /\ server' = [server EXCEPT ![n] = s]
    BY Zenon DEF newConnectionHandle
<1>2. PICK id \in dis, reset \in BOOLEAN :
          /\ reset => s = "proxy"
          /\ conn_id' = [conn_id EXCEPT ![n] = id]
          /\ Settle({n}, {}, IF reset THEN handle_close(control, bridges) ELSE {},
                    [connections EXCEPT ![s][id] = n], control,
                    IF s = "proxy" THEN Append(q, n) ELSE q)
    BY Zenon DEF newConnectionHandle
<1> DEFINE C == IF reset THEN handle_close(control, bridges) ELSE {}
           m == [connections EXCEPT ![s][id] = n]
           r == IF s = "proxy" THEN Append(q, n) ELSE q
<1>3. n \in Conns /\ object[n] = "none" /\ server[n] = NoServer
    <2>1. n \in Conns /\ accepted \in Nat
        BY <1>1, LifetimesAssumption DEF Inv, TypeOK, Conns
    <2> QED BY <2>1 DEF Inv, TypeOK
<1>4. C \subseteq Conns
    <2>1. reset => control # NoConn
        BY Zenon, <1>2 DEF newConnectionHandle, acceptNewConnection, Inv, ControlMade
    <2>2. control # NoConn => handle_close(control, bridges) \subseteq Conns
        <3> HAVE control # NoConn
        <3>1. /\ control \in Conns /\ control <= accepted /\ TypeOK
              /\ bridges \subseteq Conns \X Conns
            BY Zenon DEF Inv, TypeOK, ControlMade
        <3> QED BY Zenon, <3>1, CloseSet
    <2> QED BY Zenon, <2>1, <2>2
<1>5. q \in Seq(Conns) /\ DOMAIN q = 1..Len(q) /\ Len(q) \in Nat
    BY Zenon, LenProperties DEF Inv, TypeOK
<1>6. /\ \A c \in Conns : server'[c] = IF c = n THEN s ELSE server[c]
      /\ \A i \in DOMAIN q : q[i] \in Conns /\ q[i] # n /\ server[q[i]] = "proxy"
    <2>1. \A c \in Conns : server'[c] = IF c = n THEN s ELSE server[c]
        BY <1>1 DEF Inv, TypeOK
    <2>2. \A i \in DOMAIN q : q[i] \in Conns /\ server[q[i]] = "proxy"
        BY Zenon, <1>5, ElementOfSeq DEF Apart, QueueApart
    <2> QED BY Zenon, <1>3, <2>1, <2>2 DEF NoServer
<1>7. \A b \in bridges : b[1] \in Conns \ {n} /\ b[2] \in Conns \ {n}
    <2> TAKE b \in bridges
    <2>1. b[1] \in Conns /\ b[2] \in Conns
        BY Zenon DEF Inv, TypeOK
    <2>2. server[b[1]] = "proxy" /\ server[b[2]] = "ncx"
        BY Zenon DEF Apart, BridgeApart
    <2> QED BY Zenon, <1>3, <2>1, <2>2 DEF NoServer
<1>8. Settle({n}, {}, C, m, control, r)
    BY Zenon, <1>2
<1>9. /\ \A i \in DOMAIN r : \/ i \in DOMAIN q /\ r[i] = q[i]
                             \/ i = Len(q) + 1 /\ r[i] = n /\ s = "proxy"
      /\ Range(r) \subseteq Range(q) \cup {n}
    <2>1. CASE s = "proxy"
        <3>1. /\ r = Append(q, n) /\ r \in Seq(Conns) /\ Len(r) = Len(q) + 1
              /\ \A i \in 1..Len(q) : r[i] = q[i]
              /\ r[Len(q) + 1] = n
            BY <1>3, <1>5, <2>1, AppendProperties
        <3> HIDE DEF r, n
        <3>2. DOMAIN r = 1..(Len(q) + 1)
            BY Zenon, <3>1, LenProperties
        <3>3. \A i \in DOMAIN r : \/ i \in DOMAIN q /\ r[i] = q[i]
                                  \/ i = Len(q) + 1 /\ r[i] = n /\ s = "proxy"
            BY <1>5, <2>1, <3>1, <3>2
        <3> QED BY Zenon, <3>3 DEF Range
    <2>2. CASE s # "proxy"
        BY Zenon, <2>2
    <2> QED BY Zenon, <2>1, <2>2
<1> HIDE DEF C, m, r, q, n
<1>10. WasConnected' /\ control' = control /\ wait_handle_visitors_' = r
    BY Zenon, <1>3, <1>8, SettleConnected DEF Apart
<1>11. \A b \in bridges : ClosesWhole(C, b)
    <2>1. CASE C = {}
        BY Zenon, <2>1 DEF ClosesWhole
    <2>2. CASE C = handle_close(control, bridges)
        BY Zenon, <2>2, CloseWhole
    <2> QED BY Zenon, <2>1, <2>2 DEF C
<1>12. \A b \in bridges : \A o \in {b[1], b[2]} : o # control /\ o \notin Range(r)
    <2> TAKE b \in bridges
    <2> TAKE o \in {b[1], b[2]}
    <2>1. o # NoConn
        BY Zenon, EndsAreConns DEF Inv
    <2>2. (control # NoConn => o # control) /\ o \notin Range(q)
        BY Zenon, EndsUnowned DEF q
    <2>3. o # n
        BY Zenon, <1>7
    <2> QED BY Zenon, <1>9, <2>1, <2>2, <2>3
<1>13. EndsStep
    <2>1. ClosedReleased' /\ \A c \in {n} : object[c] = "none"
        BY Zenon, <1>3 DEF Inv
    <2>2. {n} \in SUBSET Conns /\ C \in SUBSET Conns
        BY Zenon, <1>3, <1>4
    <2> QED BY <1>8, <1>11, <1>12, <2>1, <2>2, SettleEnds
<1>14. QueueApart'
    <2>1. \A i, j \in DOMAIN q : q[i] = q[j] => i = j
        BY Zenon DEF Apart, QueueApart, q
    <2>2. \A i \in DOMAIN r : server'[r[i]] = "proxy"
        BY Zenon, <1>3, <1>6, <1>9
    <2>3. \A i, j \in DOMAIN r : r[i] = r[j] => i = j
        BY <1>6, <1>9, <2>1
    <2> QED BY Zenon, <1>10, <2>2, <2>3 DEF QueueApart
<1>15. BridgeApart'
    <2>1. \A b \in bridges : /\ server'[b[1]] = "proxy" /\ server'[b[2]] = "ncx"
                             /\ b[2] # control /\ b[1] \notin Range(r)
        BY Zenon, <1>6, <1>7, <1>12 DEF Apart, BridgeApart
    <2>2. \A a, b \in bridges : a[1] = b[1] \/ a[2] = b[2] => a = b
        BY Zenon DEF Apart, BridgeApart
    <2> QED BY Zenon, <1>1, <1>10, <2>1, <2>2 DEF BridgeApart
<1>16. ControlApart'
    <2>1. control # NoConn => server'[control] = "ncx"
        <3> HAVE control # NoConn
        <3>1. server[control] = "ncx" /\ control \in Conns
            BY Zenon DEF Apart, ControlApart, Inv, TypeOK
        <3> QED BY Zenon, <1>3, <1>6, <3>1 DEF NoServer
    <2> QED BY Zenon, <1>10, <2>1 DEF ControlApart
<1> QED BY Zenon, <1>10, <1>13, <1>14, <1>15, <1>16 DEF Apart

\* Bridges are whole after every step, and their ends stay apart.
LEMMA ApartStep == Inv /\ Inv' /\ Apart /\ [Next]_vars => Apart' /\ EndsStep
<1> SUFFICES ASSUME Inv, Inv', Apart, [Next]_vars PROVE Apart' /\ EndsStep
    BY Zenon
<1>1. ASSUME UNCHANGED <<object, state, server, control, wait_handle_visitors_, bridges>>
      PROVE  Apart' /\ EndsStep
    <2>1. WasConnected'
        BY Zenon, <1>1 DEF Apart, WasConnected
    <2>2. Apart'
        BY Zenon, <1>1, <2>1, FewerApart
    <2>3. EndsStep
        BY Zenon, <1>1 DEF EndsStep
    <2> QED BY Zenon, <2>2, <2>3
<1>2. ASSUME NEW x \in Conns, handle_event(x) PROVE Apart' /\ EndsStep
    <2>0. TypeOK /\ bridges \subseteq Conns \X Conns
        BY Zenon DEF Inv, TypeOK
    <2>1. CASE handle_data_in(x)
        <3>1. /\ server' = server /\ object[x] = "alive"
              /\ bridges' = BridgesAfterRead(x)
              /\ Settle({}, {x}, ClosedByRead(x), connections, control, wait_handle_visitors_)
            BY Zenon, <2>1 DEF handle_data_in, ReadNonBlocking
        <3>2. bridges' \subseteq bridges
            BY Zenon, <3>1 DEF BridgesAfterRead
        <3>3. x <= accepted
            BY Zenon, <2>0, <3>1 DEF TypeOK
        <3>4. handle_close(x, bridges) \subseteq Conns
            BY Zenon, <2>0, <3>3, CloseSet
        <3>5. /\ ClosedByRead(x) \in {{}, handle_close(x, bridges)}
              /\ ClosedByRead(x) \subseteq Conns
            BY Zenon, <3>4 DEF ClosedByRead
        <3> QED BY Zenon, <3>1, <3>2, <3>5, ReadKeepsApart
    <2>2. CASE handle_control_channel_hello(x)
        BY Zenon, <2>2, ControlHelloKeepsApart
    <2>3. CASE handle_data_channel_hello(x)
        BY Zenon, <2>3, DataHelloKeepsApart
    <2>4. CASE Forward(x)
        <3>1. server' = server
            BY Zenon, <2>4 DEF Forward, ReadNonBlocking
        <3>2. PICK y \in Peers(x), reset \in BOOLEAN :
                  /\ bridges' = IF reset THEN bridges \ BridgesOf(y, bridges) ELSE bridges
                  /\ Settle({}, {x}, IF reset THEN handle_close(y, bridges) ELSE {},
                            connections, control, wait_handle_visitors_)
            BY Zenon, <2>4 DEF Forward
        <3> DEFINE C == IF reset THEN handle_close(y, bridges) ELSE {}
        <3>3. y \in Conns /\ y <= accepted
            <4>1. \A b \in BridgesOf(x, bridges) : b[1] \in Conns /\ b[2] \in Conns
                BY Zenon, <2>0 DEF BridgesOf
            <4>2. y \in Conns /\ object[y] = "alive"
                BY Zenon, <4>1 DEF Peers
            <4> QED BY Zenon, <2>0, <4>2 DEF TypeOK
        <3>4. handle_close(y, bridges) \subseteq Conns
            BY Zenon, <2>0, <3>3, CloseSet
        <3>5. /\ C \in {{}, handle_close(y, bridges)} /\ C \subseteq Conns
              /\ bridges' \subseteq bridges
              /\ Settle({}, {x}, C, connections, control, wait_handle_visitors_)
            BY Zenon, <3>2, <3>4
        <3> HIDE DEF C
        <3> QED BY Zenon, <3>1, <3>5, ReadKeepsApart
    <2>5. CASE handle_event_freed(x)
        BY Zenon, <1>1, <2>5 DEF handle_event_freed
    <2> QED BY Zenon, <1>2, <2>1, <2>2, <2>3, <2>4, <2>5 DEF handle_event
<1>3. ASSUME NEW s \in Servers, newConnectionHandle(s) PROVE Apart' /\ EndsStep
    BY Zenon, <1>3, AcceptKeepsApart
<1>4. CASE poll
    BY Zenon, <1>1, <1>4 DEF poll
<1>5. ASSUME NEW s \in Servers, PeerConnects(s) PROVE Apart' /\ EndsStep
    BY Zenon, <1>1, <1>5 DEF PeerConnects
<1>6. ASSUME NEW c \in Conns, NEW what \in {"data", "eof"}, PeerSends(c, what)
      PROVE  Apart' /\ EndsStep
    BY Zenon, <1>1, <1>6 DEF PeerSends
<1>7. CASE UNCHANGED vars
    BY Zenon, <1>1, <1>7 DEF vars
<1> QED BY Zenon, <1>2, <1>3, <1>4, <1>5, <1>6, <1>7 DEF Next, Loop

\* When a handler closes one end of a registered bridge, both ends are destroyed
\* when it ends, whatever ids were drawn (BridgeCloser::~BridgeCloser).
THEOREM BridgeEndsTogether == Spec => EndsTogether
<1>1. Init => Apart
    <2> SUFFICES ASSUME Init PROVE Apart
        BY Zenon
    <2>1. QueueApart
        BY DEF Init, QueueApart
    <2>2. BridgeApart /\ ControlApart /\ WasConnected
        BY Zenon DEF Init, BridgeApart, ControlApart, WasConnected
    <2> QED BY Zenon, <2>1, <2>2 DEF Apart
<1>2. EndsStep => [\A b \in bridges : \A c \in {b[1], b[2]} :
          state[c] = "CONNECTED" /\ state'[c] = "DISCONNECTED" =>
              \A o \in {b[1], b[2]} : object'[o] = "freed"]_vars
    BY Zenon DEF EndsStep
<1> QED BY <1>1, <1>2, InitInv, InductiveStep, ApartStep, PTL DEF Spec, EndsTogether
=============================================================================
