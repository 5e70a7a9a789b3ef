---------------------------- MODULE TunnelProofs ----------------------------
(***************************************************************************)
(* Proofs about the control plane, for any services, visitors and data      *)
(* channels, any number of restarts and any batching of commands.           *)
(***************************************************************************)
EXTENDS Tunnel, SequenceTheorems, FiniteSetTheorems, TLAPS

\* The server process ends, killed or of its own.
Dies ==
    \E why \in {"killed", "bind", "nonce", "pop", "sigpipe", "visitor"} : ServerDies(why)

\* A write on a bridge to a peer that has gone cuts one of the bridge's open ends
\* off or ends the server.
LEMMA ForwardFacts ==
    ASSUME NEW v \in Visitors, NEW d \in DataChannels,
           ForwardToClient(v, d) \/ ForwardToVisitor(v, d)
    PROVE  /\ server = "up"
           /\ visitor[v] = "open" /\ dsrv[d] = "bridged"
           /\ UNCHANGED clientVars
           /\ Dies \/ cut_off_bridge({v}) \/ cut_off_bridge({d})
BY Zenon DEF ForwardToClient, ForwardToVisitor, WriteFails, Dies

\* The death of the server leaves a well-typed state behind.
LEMMA ServerDiesType ==
    ASSUME TypeOK, NEW why \in {"killed", "bind", "nonce", "pop", "sigpipe", "visitor"},
           ServerDies(why)
    PROVE  /\ server' \in {"up", "down"}
           /\ serverStarts' \in Nat
           /\ died' \in {"no", "killed", "bind", "nonce", "pop", "sigpipe", "visitor"}
           /\ sc_map_' \subseteq Controls
           /\ sconn' \in [Controls -> {"none", "pending", "open", "closed", "dead"}]
           /\ wait_handle_visitors_' \in [Controls -> Seq(Visitors)]
           /\ visitor' \in [Visitors -> {"new", "open", "closed"}]
           /\ home' \in [Visitors -> Controls \cup {None}]
           /\ bridge_closers_' \subseteq Visitors \X DataChannels
           /\ dsrv' \in [DataChannels -> {"none", "pending", "bridged", "cut", "dead"}]
<1>1. <<>> \in Seq(Visitors)
    BY Zenon, EmptySeq
<1>2. wait_handle_visitors_' \in [Controls -> Seq(Visitors)]
    BY Zenon, <1>1 DEF ServerDies
<1>3. dsrv' \in [DataChannels -> {"none", "pending", "bridged", "cut", "dead"}]
    BY Zenon DEF TypeOK, ServerDies
<1> QED BY Zenon, <1>2, <1>3 DEF TypeOK, ServerDies

\* So does the death of the client.
LEMMA ClientDiesType ==
    ASSUME TypeOK, ClientDies
    PROVE  /\ proxy_port' \in [Services -> Nat]
           /\ client' \in {"up", "down"}
           /\ clientStarts' \in 0..MaxClientStarts
           /\ cconn' \in [Controls -> {"none", "hello_sent", "established", "closed"}]
           /\ down' \in [Controls -> Nat]
           /\ input_buffer' \in [Controls -> Nat]
           /\ dcli' \in [DataChannels -> {"none", "hello_sent", "started", "gone"}]
           /\ nonce_' \in [DataChannels -> Controls \cup {None}]
BY Zenon DEF TypeOK, ClientDies

\* The state of both processes keeps its types under every handler and fault.
LEMMA TypeInduction == TypeOK /\ [Next]_vars => TypeOK'
<1> SUFFICES ASSUME TypeOK, [Next]_vars PROVE TypeOK'
    BY Zenon
<1> USE TunnelAssumption
<1>1. CASE ServerExits
    <2>1. ServerDies("killed") /\ UNCHANGED clientVars
        BY Zenon, <1>1 DEF ServerExits
    <2> QED BY Zenon, <2>1, ServerDiesType DEF TypeOK, clientVars
<1>2. CASE ServerStarts
    BY <1>2 DEF TypeOK, ServerStarts, clientVars
<1>3. CASE ClientExits
    <2>1. ClientDies /\ UNCHANGED serverVars
        BY Zenon, <1>3 DEF ClientExits
    <2> QED BY Zenon, <2>1, ClientDiesType DEF TypeOK, serverVars
<1>4. CASE ClientStarts
    BY <1>4 DEF TypeOK, ClientStarts, do_control_channel_handshake
<1>5. ASSUME NEW k \in Controls, handle_control_channel_hello(k) PROVE TypeOK'
    <2>1. down' \in [Controls -> Nat]
        BY <1>5 DEF TypeOK, handle_control_channel_hello
    <2>2. CASE ServerDies("bind")
        BY Zenon, <1>5, <2>1, <2>2, ServerDiesType DEF TypeOK, handle_control_channel_hello
    <2>3. CASE ~ServerDies("bind")
        <3>1. PICK c \in {"open", "closed"} : sconn' = [sconn EXCEPT ![k] = c]
            BY Zenon, <1>5, <2>3 DEF handle_control_channel_hello, AfterRead
        <3> QED BY <1>5, <2>1, <2>3, <3>1 DEF TypeOK, handle_control_channel_hello
    <2> QED BY Zenon, <2>2, <2>3
<1>6. ASSUME NEW k \in Controls, ControlEof(k) PROVE TypeOK'
    BY Zenon, <1>6 DEF TypeOK, ControlEof, clientVars
<1>7. ASSUME NEW k \in Controls, NEW v \in Visitors, handle_new_outside_connection(v, k)
      PROVE TypeOK'
    <2>1. down' \in [Controls -> Nat]
        <3>1. down' = down \/ down' = [down EXCEPT ![k] = @ + 1]
            BY Zenon, <1>7 DEF handle_new_outside_connection
        <3>2. down \in [Controls -> Nat] /\ down[k] + 1 \in Nat
            BY DEF TypeOK
        <3> QED BY Zenon, <3>1, <3>2
    <2>2. CASE ServerDies("sigpipe")
        BY Zenon, <1>7, <2>1, <2>2, ServerDiesType DEF TypeOK, handle_new_outside_connection
    <2>3. CASE Enqueue(v, k)
        <3>1. Append(wait_handle_visitors_[k], v) \in Seq(Visitors)
            BY AppendProperties DEF TypeOK
        <3>2. wait_handle_visitors_' \in [Controls -> Seq(Visitors)]
            BY Zenon, <2>3, <3>1 DEF TypeOK, Enqueue
        <3>3. CASE ~ServerDies("sigpipe")
            BY Zenon, <1>7, <2>1, <2>3, <3>2, <3>3 DEF TypeOK, Enqueue, newConnectionHandle,
                                                       handle_new_outside_connection
        <3> QED BY Zenon, <2>2, <3>3
    <2> QED BY Zenon, <1>7, <2>2, <2>3 DEF handle_new_outside_connection
<1>18. ASSUME Dies, UNCHANGED clientVars PROVE TypeOK'
    BY Zenon, <1>18, ServerDiesType DEF Dies, TypeOK, clientVars
<1>8. ASSUME NEW d \in DataChannels, handle_data_channel_hello(d) PROVE TypeOK'
    <2>1. CASE Dies
        BY Zenon, <1>8, <1>18, <2>1 DEF handle_data_channel_hello
    <2>2. CASE ~Dies
        <3> DEFINE k == nonce_[d]
        <3>1. k \in Controls /\ wait_handle_visitors_[k] # <<>>
            BY Zenon, <1>8, <2>2 DEF TypeOK, handle_data_channel_hello, Dies
        <3>2. wait_handle_visitors_[k] \in Seq(Visitors)
            BY Zenon, <3>1 DEF TypeOK
        <3>3. /\ Head(wait_handle_visitors_[k]) \in Visitors
              /\ Tail(wait_handle_visitors_[k]) \in Seq(Visitors)
            BY Zenon, <3>1, <3>2, HeadTailProperties
        <3>4. /\ wait_handle_visitors_' = [wait_handle_visitors_ EXCEPT ![k] = Tail(@)]
              /\ bridge_closers_' = bridge_closers_ \cup {<<Head(wait_handle_visitors_[k]), d>>}
              /\ dsrv' \in {[dsrv EXCEPT ![d] = "bridged"], [dsrv EXCEPT ![d] = "cut"]}
              /\ UNCHANGED <<server, serverStarts, died, sc_map_, sconn, visitor, home,
                             clientVars>>
            BY Zenon, <1>8, <2>2 DEF handle_data_channel_hello, pop_visitor, Dies
        <3>5. wait_handle_visitors_' \in [Controls -> Seq(Visitors)]
            BY Zenon, <3>1, <3>3, <3>4 DEF TypeOK
        <3>6. bridge_closers_' \subseteq Visitors \X DataChannels
            BY <3>3, <3>4 DEF TypeOK
        <3>7. dsrv' \in [DataChannels -> {"none", "pending", "bridged", "cut", "dead"}]
            BY Zenon, <3>4 DEF TypeOK
        <3>8. UNCHANGED <<server, serverStarts, died, sc_map_, sconn, visitor, home>>
              /\ UNCHANGED <<proxy_port, client, clientStarts, cconn, down, input_buffer,
                             dcli, nonce_>>
            BY ONLY Zenon, <3>4 DEF clientVars
        <3> HIDE DEF k
        <3> QED BY ONLY Zenon, TypeOK, <3>5, <3>6, <3>7, <3>8 DEF TypeOK
    <2> QED BY Zenon, <2>1, <2>2
<1>19. ASSUME NEW ends, cut_off_bridge(ends), UNCHANGED clientVars PROVE TypeOK'
    BY Zenon, <1>19 DEF TypeOK, cut_off_bridge, clientVars
<1>9. ASSUME NEW v \in Visitors, VisitorEof(v) PROVE TypeOK'
    BY Zenon, <1>9, <1>19 DEF VisitorEof
<1>10. ASSUME NEW d \in DataChannels, DataEof(d) PROVE TypeOK'
    BY Zenon, <1>10, <1>19 DEF DataEof
<1>20. ASSUME NEW v \in Visitors, NEW d \in DataChannels,
              ForwardToClient(v, d) \/ ForwardToVisitor(v, d)
       PROVE  TypeOK'
    BY Zenon, <1>18, <1>19, <1>20, ForwardFacts
<1>11. ASSUME NEW k \in Controls, NEW n \in 0..MaxBatch, NEW eof \in BOOLEAN,
              ReadEof(k, n, eof)
       PROVE TypeOK'
    BY Zenon, <1>11 DEF TypeOK, ReadEof, serverVars
<1>12. ASSUME NEW k \in Controls, NEW n \in 0..MaxBatch, NEW eof \in BOOLEAN,
              ReadEvent(k, n, eof), TakeOne(k, n, eof)
       PROVE  /\ down' \in [Controls -> Nat]
              /\ input_buffer' \in [Controls -> Nat]
              /\ cconn' \in [Controls -> {"none", "hello_sent", "established", "closed"}]
    BY <1>12 DEF TypeOK, ReadEvent, TakeOne, Buffered
<1>13. ASSUME NEW k \in Controls, NEW n \in 0..MaxBatch, NEW eof \in BOOLEAN,
              wait_control_channel_hello(k, n, eof)
       PROVE TypeOK'
    BY <1>12, <1>13 DEF TypeOK, wait_control_channel_hello, serverVars
<1>14. ASSUME NEW k \in Controls, NEW n \in 0..MaxBatch, NEW eof \in BOOLEAN,
              wait_server_cmd(k, n, eof)
       PROVE TypeOK'
    <2>1. CASE ClientDies /\ UNCHANGED serverVars
        BY Zenon, <2>1, ClientDiesType DEF TypeOK, serverVars
    <2>2. CASE TakeOne(k, n, eof) /\ handle_cmd_create_datachannel(k)
               /\ UNCHANGED <<server, serverStarts, died, sc_map_, sconn,
                              wait_handle_visitors_, visitor, home,
                              bridge_closers_, proxy_port, client, clientStarts>>
        <3>1. PICK d \in DataChannels : do_data_channel_handshake(d, k)
            BY Zenon, <2>2 DEF handle_cmd_create_datachannel
        <3>2. /\ dcli' \in [DataChannels -> {"none", "hello_sent", "started", "gone"}]
              /\ dsrv' \in [DataChannels -> {"none", "pending", "bridged", "cut", "dead"}]
              /\ nonce_' \in [DataChannels -> Controls \cup {None}]
            BY <3>1 DEF TypeOK, do_data_channel_handshake, newConnection
        <3>3. /\ down' \in [Controls -> Nat]
              /\ input_buffer' \in [Controls -> Nat]
              /\ cconn' \in [Controls -> {"none", "hello_sent", "established", "closed"}]
            BY Zenon, <1>12, <1>14, <2>2 DEF wait_server_cmd
        <3> QED BY Zenon, <2>2, <3>2, <3>3 DEF TypeOK
    <2> QED BY Zenon, <1>14, <2>1, <2>2 DEF wait_server_cmd
<1>15. ASSUME NEW d \in DataChannels, wait_data_channel_start_cmd(d) PROVE TypeOK'
    BY Zenon, <1>15, ClientDiesType DEF TypeOK, wait_data_channel_start_cmd, serverVars
<1>16. ASSUME NEW d \in DataChannels, delete_data_channel(d) PROVE TypeOK'
    BY Zenon, <1>16, ClientDiesType DEF TypeOK, delete_data_channel, serverVars
<1>17. CASE UNCHANGED vars
    BY Zenon, <1>17 DEF TypeOK, vars, serverVars, clientVars
<1> QED BY <1>1, <1>2, <1>3, <1>4, <1>5, <1>6, <1>7, <1>8, <1>9, <1>10, <1>11,
           <1>13, <1>14, <1>15, <1>16, <1>17, <1>20 DEF Next, ReadControl

\* Every reachable state of the tunnel is well typed.
THEOREM TypeCorrect == Spec => []TypeOK
<1>1. Init => TypeOK
    <2>1. <<>> \in Seq(Visitors)
        BY Zenon, EmptySeq
    <2> QED BY <2>1, TunnelAssumption DEF Init, TypeOK
<1> QED BY <1>1, TypeInduction, PTL DEF Spec

-----------------------------------------------------------------------------

\* Counting data channels.
LEMMA Counting ==
    ASSUME NEW S \in SUBSET DataChannels
    PROVE  /\ IsFiniteSet(S)
           /\ Cardinality(S) \in Nat
           /\ \A T \in SUBSET S : Cardinality(T) \in Nat /\ Cardinality(T) <= Cardinality(S)
           /\ \A d \in S : Cardinality(S \ {d}) = Cardinality(S) - 1 /\ Cardinality(S) > 0
           /\ \A d \in DataChannels :
                 Cardinality(S \cup {d}) \in Nat /\ Cardinality(S \cup {d}) <= Cardinality(S) + 1
<1>1. IsFiniteSet(S) /\ Cardinality(S) \in Nat
    BY Zenon, TunnelAssumption, FS_Subset, FS_CardinalityType
<1>2. \A T \in SUBSET S : Cardinality(T) \in Nat /\ Cardinality(T) <= Cardinality(S)
    BY Zenon, <1>1, FS_Subset, FS_CardinalityType
<1>3. ASSUME NEW d \in S PROVE Cardinality(S \ {d}) = Cardinality(S) - 1 /\ Cardinality(S) > 0
    <2>1. Cardinality(S \ {d}) = Cardinality(S) - 1
        BY Zenon, <1>1, FS_RemoveElement
    <2>2. Cardinality(S) # 0
        BY Zenon, <1>1, FS_EmptySet
    <2> QED BY <1>1, <2>1, <2>2
<1>4. ASSUME NEW d \in DataChannels
      PROVE  Cardinality(S \cup {d}) \in Nat /\ Cardinality(S \cup {d}) <= Cardinality(S) + 1
    <2>1. Cardinality(S \cup {d}) = IF d \in S THEN Cardinality(S) ELSE Cardinality(S) + 1
        BY Zenon, <1>1, FS_AddElement
    <2> QED BY <1>1, <2>1
<1> QED BY Zenon, <1>1, <1>2, <1>3, <1>4

\* The arithmetic of data channels leaving the set of unserved ones.
LEMMA Fewer ==
    ASSUME NEW u \in Nat, NEW u1 \in Nat, NEW x \in Nat, NEW y \in Nat, NEW l \in Nat,
           NEW h \in Nat, u1 <= u, u + x + y <= l + h
    PROVE  u1 + x + y <= l + h
OBVIOUS

\* A step that only lets connections close and data channels leave the set of
\* unserved ones keeps the pairing.
LEMMA QuietStep ==
    ASSUME TypeOK, Pairing,
           UNCHANGED <<sc_map_, wait_handle_visitors_, clientStarts, cconn,
                       down, input_buffer, nonce_>>,
           \A k \in Controls :
               /\ sconn'[k] = sconn[k]
                     \/ (sconn[k] # "none" /\ sconn'[k] \notin {"none", "pending"})
               /\ Pending(k)' \subseteq Pending(k)
    PROVE  Pairing'
<1> SUFFICES ASSUME NEW k \in Controls PROVE PairingOf(k)'
    BY Zenon DEF Pairing
<1>1. PairingOf(k)
    BY Zenon DEF Pairing
<1>2. /\ Cardinality(Pending(k)) \in Nat /\ Cardinality(Pending(k)') \in Nat
      /\ Cardinality(Pending(k)') <= Cardinality(Pending(k))
    <2>1. Pending(k) \in SUBSET DataChannels
        BY Zenon DEF Pending
    <2>2. Pending(k)' \in SUBSET Pending(k)
        BY Zenon
    <2> QED BY Zenon, <2>1, <2>2, Counting
<1>3. HelloDue(k)' = HelloDue(k) /\ HelloDue(k) \in Nat
    BY Zenon DEF HelloDue
<1>4. down[k] \in Nat /\ input_buffer[k] \in Nat /\ Len(wait_handle_visitors_[k]) \in Nat
    BY Zenon, LenProperties DEF TypeOK
<1>5. k \in sc_map_ => Covered(k)'
    <2> SUFFICES ASSUME k \in sc_map_ PROVE Covered(k)'
        BY Zenon
    <2>1. Covered(k)
        BY Zenon, <1>1 DEF PairingOf
    <2>2. /\ down' = down /\ input_buffer' = input_buffer
          /\ wait_handle_visitors_' = wait_handle_visitors_
        BY Zenon
    <2> HIDE DEF Pending, HelloDue
    <2> QED BY ONLY Zenon, <1>2, <1>3, <1>4, <2>1, <2>2, Fewer DEF Covered
<1>6. /\ sconn'[k] = sconn[k]
         \/ (sconn[k] # "none" /\ sconn'[k] \notin {"none", "pending"})
    BY Zenon
<1> QED BY Zenon, <1>1, <1>5, <1>6 DEF PairingOf

\* The server's death empties sc_map_: nothing is owed to anyone.
LEMMA ServerDiesPairing ==
    ASSUME TypeOK, Pairing, NEW why, ServerDies(why),
           UNCHANGED <<clientStarts, cconn, input_buffer, nonce_>>,
           \A k \in Controls : sconn[k] # "pending" => down'[k] = down[k]
    PROVE  Pairing'
<1> SUFFICES ASSUME NEW k \in Controls PROVE PairingOf(k)'
    BY Zenon DEF Pairing
<1>1. PairingOf(k)
    BY Zenon DEF Pairing
<1>2. k \notin sc_map_'
    BY Zenon DEF ServerDies
<1>3. sconn'[k] = IF sconn[k] \in {"pending", "open"} THEN "dead" ELSE sconn[k]
    BY Zenon DEF ServerDies
<1> QED BY Zenon, <1>1, <1>2, <1>3 DEF PairingOf

\* The client's death drops commands; the visitors they were sent for stay.
LEMMA ClientDiesPairing ==
    ASSUME TypeOK, Pairing, ClientDies, UNCHANGED serverVars
    PROVE  Pairing'
<1> SUFFICES ASSUME NEW k \in Controls PROVE PairingOf(k)'
    BY Zenon DEF Pairing
<1>1. PairingOf(k)
    BY Zenon DEF Pairing
<1>2. Pending(k)' = Pending(k) /\ Cardinality(Pending(k)) \in Nat
    <2>1. Pending(k)' = Pending(k)
        BY Zenon DEF Pending, ClientDies, serverVars
    <2>2. Pending(k) \in SUBSET DataChannels
        BY Zenon DEF Pending
    <2> QED BY Zenon, <2>1, <2>2, Counting
<1>3. /\ down'[k] = 0 /\ input_buffer'[k] = 0
      /\ cconn'[k] # "hello_sent" /\ (cconn'[k] = "established" => cconn[k] = "established")
      /\ HelloDue(k)' = 0
    BY Zenon DEF ClientDies, TypeOK, HelloDue
<1>4. /\ down[k] \in Nat /\ input_buffer[k] \in Nat /\ Len(wait_handle_visitors_[k]) \in Nat
      /\ HelloDue(k) \in Nat
    BY Zenon, LenProperties DEF TypeOK, HelloDue
<1>5. UNCHANGED <<sconn, sc_map_, wait_handle_visitors_, clientStarts, nonce_>>
    BY Zenon DEF ClientDies, serverVars
<1>6. k \in sc_map_ => Covered(k)'
    <2> SUFFICES ASSUME k \in sc_map_ PROVE Covered(k)'
        BY Zenon
    <2>1. Covered(k)
        BY Zenon, <1>1 DEF PairingOf
    <2>2. Cardinality(Pending(k)) <= Len(wait_handle_visitors_[k])
        BY ONLY <1>2, <1>4, <2>1 DEF Covered
    <2> QED BY ONLY <1>2, <1>3, <1>4, <1>5, <2>2 DEF Covered
<1> QED BY Zenon, <1>1, <1>3, <1>5, <1>6 DEF PairingOf

\* The facts about one control channel that the arithmetic below starts from.
LEMMA ChannelNumbers ==
    ASSUME TypeOK, NEW k \in Controls
    PROVE  /\ down[k] \in Nat
           /\ input_buffer[k] \in Nat
           /\ Len(wait_handle_visitors_[k]) \in Nat
           /\ HelloDue(k) \in Nat
           /\ Pending(k) \in SUBSET DataChannels
           /\ Cardinality(Pending(k)) \in Nat
<1>1. Pending(k) \in SUBSET DataChannels
    BY Zenon DEF Pending
<1>2. Cardinality(Pending(k)) \in Nat
    BY Zenon, <1>1, Counting
<1> QED BY Zenon, <1>1, <1>2, LenProperties DEF TypeOK, HelloDue

\* A data hello for a known control channel finds a visitor.
LEMMA PopFindsVisitor ==
    ASSUME TypeOK, Pairing, NEW d \in DataChannels, dsrv[d] = "pending",
           nonce_[d] \in sc_map_
    PROVE  /\ nonce_[d] \in Controls
           /\ wait_handle_visitors_[nonce_[d]] # <<>>
           /\ wait_handle_visitors_[nonce_[d]] \in Seq(Visitors)
<1> DEFINE k == nonce_[d]
<1>1. k \in Controls /\ wait_handle_visitors_[k] \in Seq(Visitors)
    BY Zenon DEF TypeOK
<1>2. PairingOf(k)
    BY Zenon, <1>1 DEF Pairing
<1>3. d \in Pending(k)
    BY Zenon DEF Pending
<1> HIDE DEF k
<1>4. Cardinality(Pending(k)) > 0
    BY Zenon, <1>1, <1>3, ChannelNumbers, Counting
<1>5. Len(wait_handle_visitors_[k]) > 0
    <2>1. Covered(k)
        BY Zenon, <1>2 DEF PairingOf, k
    <2>2. /\ down[k] \in Nat /\ input_buffer[k] \in Nat /\ HelloDue(k) \in Nat
          /\ Len(wait_handle_visitors_[k]) \in Nat /\ Cardinality(Pending(k)) \in Nat
        BY Zenon, <1>1, ChannelNumbers
    <2> QED BY ONLY <1>4, <2>1, <2>2 DEF Covered
<1>6. wait_handle_visitors_[k] # <<>>
    BY <1>5, EmptySeq
<1> QED BY Zenon, <1>1, <1>6 DEF k

\* The arithmetic of a visitor given to a data channel.
LEMMA OneServed ==
    ASSUME NEW u \in Nat, NEW x \in Nat, NEW y \in Nat, NEW l \in Nat, NEW h \in Nat,
           u + x + y <= l + h
    PROVE  (u - 1) + x + y <= (l - 1) + h
OBVIOUS

\* The arithmetic of a handler that takes one command: u data channels were
\* unserved, x + y commands on the way, l visitors queued.
LEMMA OneTaken ==
    ASSUME NEW u \in Nat, NEW x \in Nat, NEW y \in Nat, NEW l \in Nat,
           NEW x1 \in Nat, NEW y1 \in Nat, x1 + y1 = x + y - 1
    PROVE  /\ u + x + y <= l + 1 => u + x1 + y1 <= l
           /\ u + x + y <= l => \A u1 \in Nat : u1 <= u + 1 => u1 + x1 + y1 <= l
OBVIOUS

\* A new client's control channels start with nothing on their way.
LEMMA ClientStartsPairing ==
    ASSUME TypeOK, Pairing,
           ClientStarts
    PROVE  Pairing'
<1> SUFFICES ASSUME NEW k \in Controls PROVE PairingOf(k)'
    BY Zenon DEF Pairing
<1>1. PairingOf(k)
    BY Zenon DEF Pairing
<1>2. k[2] \in Nat /\ clientStarts \in Nat /\ clientStarts' = clientStarts + 1
    BY DEF Controls, TypeOK, ClientStarts
<1>3. CASE k[2] = clientStarts'
    <2>1. sconn[k] = "none"
        BY <1>1, <1>2, <1>3 DEF PairingOf
    <2>2. sconn'[k] = "pending" /\ cconn'[k] = "hello_sent"
        BY Zenon, <1>3 DEF ClientStarts, do_control_channel_handshake
    <2> QED BY <1>1, <1>2, <1>3, <2>1, <2>2 DEF PairingOf, ClientStarts
<1>4. CASE k[2] # clientStarts'
    <2>1. sconn'[k] = sconn[k] /\ cconn'[k] = cconn[k]
        BY Zenon, <1>4 DEF ClientStarts, do_control_channel_handshake
    <2>2. Pending(k)' = Pending(k) /\ HelloDue(k)' = HelloDue(k)
        BY Zenon, <2>1 DEF ClientStarts, Pending, HelloDue
    <2>3. UNCHANGED <<sc_map_, wait_handle_visitors_, down, input_buffer, nonce_>>
        BY Zenon DEF ClientStarts
    <2>4. Covered(k)' = Covered(k)
        BY ONLY Zenon, <2>2, <2>3 DEF Covered
    <2>5. k[2] > clientStarts' => k[2] > clientStarts
        BY ONLY <1>2
    <2> QED BY ONLY Zenon, <1>1, <2>1, <2>3, <2>4, <2>5 DEF PairingOf
<1> QED BY Zenon, <1>3, <1>4

\* The HELLO is the first command on its control connection.
LEMMA ControlHelloPairing ==
    ASSUME TypeOK, Pairing,
           NEW k \in Controls, handle_control_channel_hello(k)
    PROVE  Pairing'
<1>1. CASE ServerDies("bind")
    <2>1. \A j \in Controls : sconn[j] # "pending" => down'[j] = down[j]
        BY Zenon DEF handle_control_channel_hello, TypeOK
    <2> QED BY Zenon, <1>1, <2>1, ServerDiesPairing DEF handle_control_channel_hello
<1>2. CASE ~ServerDies("bind")
    <2>1. PICK c \in {"open", "closed"} : sconn' = [sconn EXCEPT ![k] = c]
        BY Zenon, <1>2 DEF handle_control_channel_hello, AfterRead
    <2> SUFFICES ASSUME NEW j \in Controls PROVE PairingOf(j)'
        BY Zenon DEF Pairing
    <2>2. PairingOf(j)
        BY Zenon DEF Pairing
    <2>3. Pending(j)' = Pending(j) /\ HelloDue(j)' = HelloDue(j)
        BY Zenon, <1>2 DEF handle_control_channel_hello, Pending, HelloDue
    <2>4. CASE j # k
        <3>1. /\ down'[j] = down[j] /\ sconn'[j] = sconn[j] /\ (j \in sc_map_' <=> j \in sc_map_)
              /\ UNCHANGED <<wait_handle_visitors_, clientStarts, cconn, input_buffer, nonce_>>
            BY Zenon, <1>2, <2>1, <2>4 DEF handle_control_channel_hello, TypeOK
        <3>2. Covered(j)' = Covered(j)
            BY ONLY Zenon, <2>3, <3>1 DEF Covered
        <3> QED BY ONLY Zenon, <2>2, <3>1, <3>2 DEF PairingOf
    <2>5. CASE j = k
        <3>1. /\ sconn[k] = "pending" /\ sconn'[k] = c
              /\ down[k] = 0 /\ input_buffer[k] = 0 /\ cconn[k] # "established"
              /\ \A d \in DataChannels : nonce_[d] # k
            BY Zenon, <2>1, <2>2, <2>5 DEF PairingOf, handle_control_channel_hello, TypeOK
        <3>2. Cardinality(Pending(k)) = 0
            <4>1. Pending(k) = {}
                BY Zenon, <3>1 DEF Pending
            <4> QED BY Zenon, <4>1, FS_EmptySet
        <3>3. down'[k] = HelloDue(k)
            <4>1. ClientReceives(k) = (cconn[k] = "hello_sent")
                BY ONLY <3>1 DEF ClientReceives
            <4>2. down' = IF cconn[k] = "hello_sent" THEN [down EXCEPT ![k] = @ + 1] ELSE down
                BY Zenon, <4>1 DEF handle_control_channel_hello
            <4>3. down \in [Controls -> Nat]
                BY Zenon DEF TypeOK
            <4> QED BY <3>1, <4>2, <4>3 DEF HelloDue
        <3>4. UNCHANGED <<wait_handle_visitors_, clientStarts, cconn, input_buffer, nonce_>>
            BY Zenon, <1>2 DEF handle_control_channel_hello
        <3>5. k[2] > clientStarts => FALSE
            BY Zenon, <2>2, <2>5, <3>1 DEF PairingOf
        <3>6. Covered(k)'
            <4>1. HelloDue(k) \in Nat /\ Len(wait_handle_visitors_[k]) \in Nat
                BY Zenon, ChannelNumbers
            <4>2. /\ Pending(k)' = Pending(k) /\ HelloDue(k)' = HelloDue(k)
                  /\ input_buffer'[k] = 0
                BY Zenon, <2>3, <2>5, <3>1, <3>4
            <4> QED BY ONLY <3>2, <3>3, <3>4, <4>1, <4>2 DEF Covered
        <3>7. cconn'[k] = "hello_sent" => input_buffer'[k] = 0
            BY Zenon, <3>1, <3>4
        <3>8. sconn'[k] \notin {"none", "pending"}
            BY Zenon, <3>1
        <3> QED BY ONLY Zenon, <2>5, <3>4, <3>5, <3>6, <3>7, <3>8 DEF PairingOf
    <2> QED BY Zenon, <2>4, <2>5
<1> QED BY Zenon, <1>1, <1>2

\* A visitor is queued together with its CREATE.
LEMMA NewVisitorPairing ==
    ASSUME TypeOK, Pairing,
           NEW k \in Controls, NEW v \in Visitors, handle_new_outside_connection(v, k)
    PROVE  Pairing'
<1>1. CASE ServerDies("sigpipe")
    <2>1. CASE down' = down
        BY Zenon, <1>1, <2>1, ServerDiesPairing DEF handle_new_outside_connection
    <2>2. CASE down' # down
        <3>1. server = "up" /\ server' = server
            BY Zenon, <2>2 DEF handle_new_outside_connection
        <3> QED BY Zenon, <1>1, <3>1 DEF ServerDies
    <2> QED BY Zenon, <2>1, <2>2
<1>2. CASE ~ServerDies("sigpipe")
    <2>1. /\ k \in sc_map_ /\ Enqueue(v, k)
          /\ down' = down \/ down' = [down EXCEPT ![k] = @ + 1]
          /\ sconn' = sconn \/ sconn' = [sconn EXCEPT ![k] = "closed"]
          /\ UNCHANGED <<sc_map_, dsrv, clientStarts, cconn, input_buffer, nonce_>>
        BY Zenon, <1>2 DEF handle_new_outside_connection
    <2> SUFFICES ASSUME NEW j \in Controls PROVE PairingOf(j)'
        BY Zenon DEF Pairing
    <2>2. PairingOf(j)
        BY Zenon DEF Pairing
    <2>3. Pending(j)' = Pending(j) /\ HelloDue(j)' = HelloDue(j)
        BY Zenon, <2>1 DEF Pending, HelloDue
    <2>4. CASE j # k
        <3>1. /\ down'[j] = down[j] /\ sconn'[j] = sconn[j]
              /\ wait_handle_visitors_'[j] = wait_handle_visitors_[j]
            BY <2>1, <2>4 DEF Enqueue, TypeOK
        <3>2. Covered(j)' = Covered(j)
            BY ONLY Zenon, <2>1, <2>3, <3>1 DEF Covered
        <3> QED BY ONLY Zenon, <2>1, <2>2, <3>1, <3>2 DEF PairingOf
    <2>5. CASE j = k
        <3>1. wait_handle_visitors_'[k] = Append(wait_handle_visitors_[k], v)
            BY Zenon, <2>1 DEF Enqueue, TypeOK
        <3>2. Len(wait_handle_visitors_'[k]) = Len(wait_handle_visitors_[k]) + 1
            <4>1. wait_handle_visitors_[k] \in Seq(Visitors)
                BY Zenon DEF TypeOK
            <4> QED BY <3>1, <4>1, AppendProperties
        <3>3. down'[k] \in {down[k], down[k] + 1}
            BY Zenon, <2>1 DEF TypeOK
        <3>4. sconn[k] \notin {"none", "pending"} /\ sconn'[k] \notin {"none", "pending"}
            BY <2>1, <2>2, <2>5 DEF PairingOf, TypeOK
        <3>5. Covered(k)'
            <4>1. /\ HelloDue(k) <= down[k]
                  /\ Cardinality(Pending(k)) + down[k] + input_buffer[k]
                         <= Len(wait_handle_visitors_[k]) + HelloDue(k)
                BY Zenon, <2>1, <2>2, <2>5 DEF PairingOf, Covered
            <4>2. /\ down[k] \in Nat /\ input_buffer[k] \in Nat /\ HelloDue(k) \in Nat
                  /\ Len(wait_handle_visitors_[k]) \in Nat
                  /\ Cardinality(Pending(k)) \in Nat
                BY Zenon, ChannelNumbers
            <4>3. \A u, x, y, l, h \in Nat :
                     h <= x /\ u + x + y <= l + h =>
                         /\ h <= x + 1
                         /\ u + x + y <= (l + 1) + h
                         /\ u + (x + 1) + y <= (l + 1) + h
                OBVIOUS
            <4>4. /\ HelloDue(k) <= down[k] + 1
                  /\ Cardinality(Pending(k)) + down[k] + input_buffer[k]
                         <= (Len(wait_handle_visitors_[k]) + 1) + HelloDue(k)
                  /\ Cardinality(Pending(k)) + (down[k] + 1) + input_buffer[k]
                         <= (Len(wait_handle_visitors_[k]) + 1) + HelloDue(k)
                BY ONLY Zenon, <4>1, <4>2, <4>3
            <4>0. /\ Pending(k)' = Pending(k) /\ HelloDue(k)' = HelloDue(k)
                  /\ input_buffer' = input_buffer
                BY Zenon, <2>1, <2>3, <2>5
            <4>5. CASE down'[k] = down[k]
                BY ONLY Zenon, <3>2, <4>0, <4>1, <4>4, <4>5 DEF Covered
            <4>6. CASE down'[k] = down[k] + 1
                BY ONLY Zenon, <3>2, <4>0, <4>4, <4>6 DEF Covered
            <4> QED BY Zenon, <3>3, <4>5, <4>6
        <3>6. k[2] > clientStarts => FALSE
            BY Zenon, <2>2, <2>5, <3>4 DEF PairingOf
        <3> QED BY ONLY Zenon, <2>1, <2>2, <2>5, <3>4, <3>5, <3>6 DEF PairingOf
    <2> QED BY Zenon, <2>4, <2>5
<1> QED BY Zenon, <1>1, <1>2

\* A data hello takes one unserved data channel and one visitor.
LEMMA DataHelloPairing ==
    ASSUME TypeOK, Pairing,
           NEW d \in DataChannels, handle_data_channel_hello(d)
    PROVE  Pairing'
<1> DEFINE k == nonce_[d]
<1>1. UNCHANGED clientVars /\ dsrv[d] = "pending"
    BY Zenon DEF handle_data_channel_hello
<1>2. CASE Dies
    BY Zenon, <1>1, <1>2, ServerDiesPairing DEF Dies, clientVars
<1>3. CASE ~Dies
    <2>1. /\ k \in sc_map_ /\ wait_handle_visitors_[k] # <<>>
          /\ wait_handle_visitors_' = [wait_handle_visitors_ EXCEPT ![k] = Tail(@)]
          /\ dsrv' \in {[dsrv EXCEPT ![d] = "bridged"], [dsrv EXCEPT ![d] = "cut"]}
          /\ UNCHANGED <<sc_map_, sconn>>
        BY Zenon, <1>3 DEF handle_data_channel_hello, pop_visitor, Dies
    <2>2. k \in Controls
        BY Zenon, <2>1 DEF TypeOK
    <2> SUFFICES ASSUME NEW j \in Controls PROVE PairingOf(j)'
        BY Zenon DEF Pairing
    <2>3. PairingOf(j) /\ HelloDue(j)' = HelloDue(j)
        BY Zenon, <1>1 DEF Pairing, HelloDue, clientVars
    <2>4. Pending(j)' = IF j = k THEN Pending(j) \ {d} ELSE Pending(j)
        BY <1>1, <2>1 DEF Pending, clientVars, TypeOK
    <2>5. CASE j # k
        <3>1. wait_handle_visitors_'[j] = wait_handle_visitors_[j]
            BY Zenon, <2>1, <2>5 DEF TypeOK
        <3>2. Pending(j)' = Pending(j)
            BY Zenon, <2>4, <2>5
        <3>3. Covered(j)' = Covered(j)
            BY ONLY Zenon, <1>1, <2>3, <3>1, <3>2 DEF Covered, clientVars
        <3> QED BY ONLY Zenon, <1>1, <2>1, <2>3, <3>3 DEF PairingOf, clientVars
    <2>6. CASE j = k
        <3>1. d \in Pending(j)
            BY Zenon, <1>1, <2>6 DEF Pending
        <3>2. Cardinality(Pending(j)') = Cardinality(Pending(j)) - 1
            BY Zenon, <2>4, <2>6, <3>1, ChannelNumbers, Counting
        <3>3. Len(wait_handle_visitors_'[j]) = Len(wait_handle_visitors_[j]) - 1
            <4>1. /\ wait_handle_visitors_[j] \in Seq(Visitors)
                  /\ wait_handle_visitors_[j] # <<>>
                  /\ wait_handle_visitors_'[j] = Tail(wait_handle_visitors_[j])
                BY Zenon, <2>1, <2>6 DEF TypeOK
            <4> QED BY Zenon, <4>1, HeadTailProperties
        <3>4. Covered(j)'
            <4>1. Covered(j)
                BY Zenon, <2>1, <2>3, <2>6 DEF PairingOf
            <4>2. /\ down[j] \in Nat /\ input_buffer[j] \in Nat /\ HelloDue(j) \in Nat
                  /\ Len(wait_handle_visitors_[j]) \in Nat
                  /\ Cardinality(Pending(j)) \in Nat
                BY Zenon, ChannelNumbers
            <4>3. down' = down /\ input_buffer' = input_buffer
                BY Zenon, <1>1 DEF clientVars
            <4>4. /\ HelloDue(j) <= down[j]
                  /\ Cardinality(Pending(j)) + down[j] + input_buffer[j]
                         <= Len(wait_handle_visitors_[j]) + HelloDue(j)
                BY ONLY Zenon, <4>1 DEF Covered
            <4>5. (Cardinality(Pending(j)) - 1) + down[j] + input_buffer[j]
                      <= (Len(wait_handle_visitors_[j]) - 1) + HelloDue(j)
                BY ONLY Zenon, <4>2, <4>4, OneServed
            <4> QED BY ONLY Zenon, <2>3, <3>2, <3>3, <4>3, <4>4, <4>5 DEF Covered
        <3> QED BY ONLY Zenon, <1>1, <2>1, <2>3, <3>4 DEF PairingOf, clientVars
    <2> QED BY Zenon, <2>5, <2>6
<1> QED BY Zenon, <1>2, <1>3

\* Nothing is on its way on a connection read to its end.
LEMMA ReadEofPairing ==
    ASSUME TypeOK, Pairing,
           NEW k \in Controls, NEW n \in Nat, NEW eof \in BOOLEAN,
           ReadEof(k, n, eof)
    PROVE  Pairing'
<1>1. /\ cconn' = [cconn EXCEPT ![k] = "closed"]
      /\ UNCHANGED <<serverVars, clientStarts, down, input_buffer, nonce_>>
      /\ down[k] = 0
    <2>1. eof /\ n = 0
        BY DEF ReadEof, ReadEvent, Buffered, TypeOK
    <2> QED BY Zenon, <2>1 DEF ReadEof, ReadEvent
<1> SUFFICES ASSUME NEW j \in Controls PROVE PairingOf(j)'
    BY Zenon DEF Pairing
<1>2. PairingOf(j) /\ Pending(j)' = Pending(j)
    BY Zenon, <1>1 DEF Pairing, Pending, serverVars
<1>3. /\ cconn'[j] # "established" \/ cconn'[j] = cconn[j]
      /\ cconn'[j] # "hello_sent" \/ cconn'[j] = cconn[j]
    BY Zenon, <1>1 DEF TypeOK
<1>4. j \in sc_map_ => HelloDue(j)' = HelloDue(j)
    <2>1. CASE j # k
        BY Zenon, <1>1, <2>1 DEF HelloDue, TypeOK
    <2>2. CASE j = k
        <3>1. cconn'[k] = "closed"
            BY Zenon, <1>1 DEF TypeOK
        <3>2. k \in sc_map_ => HelloDue(k) <= 0
            BY Zenon, <1>1, <1>2, <2>2 DEF PairingOf, Covered
        <3> QED BY ONLY <2>2, <3>1, <3>2 DEF HelloDue
    <2> QED BY Zenon, <2>1, <2>2
<1>5. j \in sc_map_ => Covered(j)'
    <2>1. j \in sc_map_ => Covered(j)
        BY Zenon, <1>2 DEF PairingOf
    <2> QED BY ONLY Zenon, <1>1, <1>2, <1>4, <2>1 DEF Covered, serverVars
<1> QED BY ONLY Zenon, <1>1, <1>2, <1>3, <1>5 DEF PairingOf, serverVars

\* What a read event and its one command do to the numbers of a channel.
LEMMA TakeOneFacts ==
    ASSUME TypeOK, Pairing,
           NEW k \in Controls, NEW n \in Nat, NEW eof \in BOOLEAN,
           ReadEvent(k, n, eof), TakeOne(k, n, eof)
    PROVE  /\ down'[k] + input_buffer'[k] = down[k] + input_buffer[k] - 1
           /\ down'[k] \in Nat /\ input_buffer'[k] \in Nat
           /\ sconn[k] \notin {"none", "pending"}
           /\ HelloDue(k)' = 0
           /\ cconn'[k] # "hello_sent"
           /\ \A j \in Controls \ {k} :
                 /\ down'[j] = down[j] /\ input_buffer'[j] = input_buffer[j]
                 /\ cconn'[j] = cconn[j] /\ HelloDue(j)' = HelloDue(j)
<1>1. down'[k] = down[k] - n /\ input_buffer'[k] = input_buffer[k] + n - 1
    BY DEF TakeOne, Buffered, TypeOK
<1>2. n <= down[k] /\ input_buffer[k] + n > 0
    BY Zenon DEF ReadEvent, TakeOne, Buffered
<1>3. down[k] \in Nat /\ input_buffer[k] \in Nat /\ n \in Nat
    BY Zenon DEF TypeOK
<1>4. /\ down'[k] + input_buffer'[k] = down[k] + input_buffer[k] - 1
      /\ down'[k] \in Nat /\ input_buffer'[k] \in Nat
    <2> DEFINE a == down[k]
               b == input_buffer[k]
    <2>1. a \in Nat /\ b \in Nat /\ n <= a /\ b + n > 0
        BY ONLY Zenon, <1>2, <1>3
    <2> HIDE DEF a, b
    <2>2. a - n \in Nat /\ b + n - 1 \in Nat /\ (a - n) + (b + n - 1) = a + b - 1
        BY ONLY <2>1, n \in Nat
    <2> QED BY ONLY Zenon, <1>1, <2>2 DEF a, b
<1>5. sconn[k] \notin {"none", "pending"}
    <2>1. PairingOf(k)
        BY Zenon DEF Pairing
    <2>2. ~(down[k] = 0 /\ input_buffer[k] = 0)
        BY ONLY <1>2, <1>3
    <2> QED BY ONLY Zenon, <2>1, <2>2 DEF PairingOf
<1>6. cconn'[k] \in {"closed", "established"}
    BY Zenon DEF TakeOne, TypeOK
<1>7. \A j \in Controls \ {k} :
         /\ down'[j] = down[j] /\ input_buffer'[j] = input_buffer[j]
         /\ cconn'[j] = cconn[j]
    BY DEF TakeOne, TypeOK
<1> QED BY Zenon, <1>4, <1>5, <1>6, <1>7 DEF HelloDue

\* The client takes the HELLO off the connection.
LEMMA HelloReadPairing ==
    ASSUME TypeOK, Pairing,
           NEW k \in Controls, NEW n \in Nat, NEW eof \in BOOLEAN,
           wait_control_channel_hello(k, n, eof)
    PROVE  Pairing'
<1>1. /\ ReadEvent(k, n, eof) /\ TakeOne(k, n, eof) /\ cconn[k] = "hello_sent"
      /\ UNCHANGED <<serverVars, clientStarts, nonce_>>
    BY Zenon DEF wait_control_channel_hello
<1> SUFFICES ASSUME NEW j \in Controls PROVE PairingOf(j)'
    BY Zenon DEF Pairing
<1>2. PairingOf(j) /\ Pending(j)' = Pending(j)
    BY Zenon, <1>1 DEF Pairing, Pending, serverVars
<1>3. CASE j # k
    <2>1. /\ down'[j] = down[j] /\ input_buffer'[j] = input_buffer[j]
          /\ cconn'[j] = cconn[j] /\ HelloDue(j)' = HelloDue(j)
        BY Zenon, TakeOneFacts, <1>1, <1>3
    <2>2. Covered(j)' = Covered(j)
        BY ONLY Zenon, <1>1, <1>2, <2>1 DEF Covered, serverVars
    <2> QED BY ONLY Zenon, <1>1, <1>2, <2>1, <2>2 DEF PairingOf, serverVars
<1>4. CASE j = k
    <2>1. /\ down'[k] + input_buffer'[k] = down[k] + input_buffer[k] - 1
          /\ down'[k] \in Nat /\ input_buffer'[k] \in Nat
          /\ sconn[k] \notin {"none", "pending"}
          /\ HelloDue(k)' = 0 /\ cconn'[k] # "hello_sent"
        BY Zenon, TakeOneFacts, <1>1
    <2>2. HelloDue(k) = 1
        BY Zenon, <1>1 DEF HelloDue
    <2>3. k \in sc_map_ => Cardinality(Pending(k)) + down'[k] + input_buffer'[k]
                               <= Len(wait_handle_visitors_[k])
        <3>1. k \in sc_map_ => Cardinality(Pending(k)) + down[k] + input_buffer[k]
                                   <= Len(wait_handle_visitors_[k]) + 1
            BY Zenon, <1>2, <1>4, <2>2 DEF PairingOf, Covered
        <3>2. /\ down[k] \in Nat /\ input_buffer[k] \in Nat
              /\ Len(wait_handle_visitors_[k]) \in Nat
              /\ Cardinality(Pending(k)) \in Nat
            BY Zenon, ChannelNumbers
        <3> QED BY Zenon, <2>1, <3>1, <3>2, OneTaken
    <2>4. k \in sc_map_ => Covered(k)'
        <3>1. Len(wait_handle_visitors_[k]) \in Nat
            BY Zenon, ChannelNumbers
        <3>2. Pending(k)' = Pending(k) /\ wait_handle_visitors_' = wait_handle_visitors_
            BY Zenon, <1>1, <1>2, <1>4 DEF serverVars
        <3>0. \A x \in Nat : x + 0 = x /\ 0 <= x
            OBVIOUS
        <3>3. /\ Len(wait_handle_visitors_[k]) + 0 = Len(wait_handle_visitors_[k])
              /\ 0 <= down'[k]
            BY ONLY Zenon, <2>1, <3>0, <3>1
        <3>4. HelloDue(k)' = 0
            BY ONLY Zenon, <2>1
        <3> QED BY ONLY Zenon, <2>3, <3>2, <3>3, <3>4 DEF Covered
    <2> QED BY ONLY Zenon, <1>1, <1>2, <1>4, <2>1, <2>4 DEF PairingOf, serverVars
<1> QED BY Zenon, <1>3, <1>4

\* A command becomes at most one unserved data channel.
LEMMA ServerCmdPairing ==
    ASSUME TypeOK, Pairing,
           NEW k \in Controls, NEW n \in Nat, NEW eof \in BOOLEAN,
           wait_server_cmd(k, n, eof)
    PROVE  Pairing'
<1>1. CASE ClientDies /\ UNCHANGED serverVars
    BY Zenon, <1>1, ClientDiesPairing
<1>2. CASE TakeOne(k, n, eof) /\ handle_cmd_create_datachannel(k)
           /\ UNCHANGED <<server, serverStarts, died, sc_map_, sconn,
                          wait_handle_visitors_, visitor, home,
                          bridge_closers_, proxy_port, client, clientStarts>>
    <2>1. ReadEvent(k, n, eof) /\ cconn[k] = "established"
        BY Zenon DEF wait_server_cmd
    <2>2. PICK d \in DataChannels :
              /\ dsrv' = [dsrv EXCEPT ![d] = "pending"]
              /\ nonce_' = [nonce_ EXCEPT ![d] = k]
        BY ONLY Zenon, <1>2 DEF handle_cmd_create_datachannel, do_data_channel_handshake, newConnection
    <2> SUFFICES ASSUME NEW j \in Controls PROVE PairingOf(j)'
        BY Zenon DEF Pairing
    <2>3. PairingOf(j)
        BY Zenon DEF Pairing
    <2>4. CASE j # k
        <3>1. /\ down'[j] = down[j] /\ input_buffer'[j] = input_buffer[j]
              /\ cconn'[j] = cconn[j] /\ HelloDue(j)' = HelloDue(j)
            BY Zenon, TakeOneFacts, <1>2, <2>1, <2>4
        <3>2. Pending(j)' \in SUBSET Pending(j)
            BY Zenon, <2>2, <2>4 DEF Pending, TypeOK
        <3>3. /\ Cardinality(Pending(j)') \in Nat
              /\ Cardinality(Pending(j)') <= Cardinality(Pending(j))
            BY Zenon, <3>2, ChannelNumbers, Counting
        <3>4. (\A e \in DataChannels : nonce_[e] # j) =>
                  (\A e \in DataChannels : nonce_'[e] # j)
            BY Zenon, <2>2, <2>4 DEF TypeOK
        <3>5. j \in sc_map_ => Covered(j)'
            <4> SUFFICES ASSUME j \in sc_map_ PROVE Covered(j)'
                BY Zenon
            <4>1. Covered(j)
                BY Zenon, <2>3 DEF PairingOf
            <4>2. /\ down[j] \in Nat /\ input_buffer[j] \in Nat /\ HelloDue(j) \in Nat
                  /\ Len(wait_handle_visitors_[j]) \in Nat
                  /\ Cardinality(Pending(j)) \in Nat
                BY Zenon, ChannelNumbers
            <4>3. wait_handle_visitors_' = wait_handle_visitors_
                BY Zenon, <1>2
            <4> QED BY ONLY Zenon, <3>1, <3>3, <4>1, <4>2, <4>3, Fewer DEF Covered
        <3> QED BY ONLY Zenon, <1>2, <2>3, <3>1, <3>4, <3>5 DEF PairingOf
    <2>5. CASE j = k
        <3>1. /\ down'[k] + input_buffer'[k] = down[k] + input_buffer[k] - 1
              /\ down'[k] \in Nat /\ input_buffer'[k] \in Nat
              /\ sconn[k] \notin {"none", "pending"}
              /\ HelloDue(k)' = 0 /\ cconn'[k] # "hello_sent"
            BY Zenon, TakeOneFacts, <1>2, <2>1
        <3>2. HelloDue(k) = 0
            BY Zenon, <2>1 DEF HelloDue
        <3>3. Pending(k)' = Pending(k) \cup {d}
            BY Zenon, <2>2 DEF Pending, TypeOK
        <3>4. /\ Cardinality(Pending(k)') \in Nat
              /\ Cardinality(Pending(k)') <= Cardinality(Pending(k)) + 1
            BY Zenon, <3>3, ChannelNumbers, Counting
        <3>5. k \in sc_map_ => Cardinality(Pending(k)') + down'[k] + input_buffer'[k]
                                   <= Len(wait_handle_visitors_[k])
            <4>1. k \in sc_map_ => Cardinality(Pending(k)) + down[k] + input_buffer[k]
                                       <= Len(wait_handle_visitors_[k])
                <5>1. Len(wait_handle_visitors_[k]) \in Nat
                    BY Zenon, ChannelNumbers
                <5>2. k \in sc_map_ => Covered(k)
                    BY Zenon, <2>3, <2>5 DEF PairingOf
                <5>3. Len(wait_handle_visitors_[k]) + 0 = Len(wait_handle_visitors_[k])
                    BY ONLY <5>1
                <5>4. k \in sc_map_ => Cardinality(Pending(k)) + down[k] + input_buffer[k]
                                           <= Len(wait_handle_visitors_[k]) + HelloDue(k)
                    BY ONLY Zenon, <5>2 DEF Covered
                <5> QED BY ONLY Zenon, <3>2, <5>3, <5>4
            <4>2. /\ down[k] \in Nat /\ input_buffer[k] \in Nat
                  /\ Len(wait_handle_visitors_[k]) \in Nat
                  /\ Cardinality(Pending(k)) \in Nat
                BY Zenon, ChannelNumbers
            <4> QED BY Zenon, <3>1, <3>4, <4>1, <4>2, OneTaken
        <3>6. k \in sc_map_ => Covered(k)'
            <4>1. Len(wait_handle_visitors_[k]) \in Nat
                BY Zenon, ChannelNumbers
            <4>2. wait_handle_visitors_' = wait_handle_visitors_
                BY Zenon, <1>2
            <4>3. /\ Len(wait_handle_visitors_[k]) + 0 = Len(wait_handle_visitors_[k])
                  /\ 0 <= down'[k]
                BY ONLY <3>1, <4>1
            <4>4. HelloDue(k)' = 0
                BY ONLY Zenon, <3>1
            <4> QED BY ONLY Zenon, <3>5, <4>2, <4>3, <4>4 DEF Covered
        <3> QED BY ONLY Zenon, <1>2, <2>3, <2>5, <3>1, <3>6 DEF PairingOf
    <2> QED BY Zenon, <2>4, <2>5
<1> QED BY Zenon, <1>1, <1>2 DEF wait_server_cmd

\* Every step of either process, and every fault, keeps the pairing.
LEMMA PairingInduction == TypeOK /\ Pairing /\ [Next]_vars => Pairing'
<1> SUFFICES ASSUME TypeOK, Pairing, [Next]_vars PROVE Pairing'
    BY Zenon
<1> USE TunnelAssumption
<1>1. CASE ServerExits
    <2>1. ServerDies("killed") /\ UNCHANGED clientVars
        BY Zenon, <1>1 DEF ServerExits
    <2> QED BY Zenon, <2>1, ServerDiesPairing DEF clientVars
<1>2. CASE ServerStarts
    <2>1. UNCHANGED <<sc_map_, sconn, wait_handle_visitors_, dsrv, clientVars>>
        BY Zenon, <1>2 DEF ServerStarts
    <2>2. \A j \in Controls : Pending(j)' \subseteq Pending(j)
        BY ONLY Zenon, <2>1 DEF Pending, clientVars
    <2> QED BY Zenon, <2>1, <2>2, QuietStep DEF clientVars
<1>3. CASE ClientExits
    BY Zenon, <1>3, ClientDiesPairing DEF ClientExits
<1>4. CASE ClientStarts
    BY Zenon, <1>4, ClientStartsPairing
<1>5. ASSUME NEW k \in Controls, handle_control_channel_hello(k) PROVE Pairing'
    BY Zenon, <1>5, ControlHelloPairing
<1>6. ASSUME NEW k \in Controls, ControlEof(k) PROVE Pairing'
    <2>1. \A j \in Controls : Pending(j)' = Pending(j)
        BY Zenon, <1>6 DEF ControlEof, clientVars, Pending
    <2>2. \A j \in Controls : sconn'[j] = sconn[j]
             \/ (sconn[j] # "none" /\ sconn'[j] \notin {"none", "pending"})
        BY Zenon, <1>6 DEF ControlEof, TypeOK
    <2> QED BY Zenon, <1>6, <2>1, <2>2, QuietStep DEF ControlEof, clientVars
<1>7. ASSUME NEW k \in Controls, NEW v \in Visitors, handle_new_outside_connection(v, k)
      PROVE Pairing'
    BY Zenon, <1>7, NewVisitorPairing
<1>8. ASSUME NEW d \in DataChannels, handle_data_channel_hello(d) PROVE Pairing'
    BY Zenon, <1>8, DataHelloPairing
<1>9. ASSUME NEW ends, cut_off_bridge(ends), UNCHANGED clientVars PROVE Pairing'
    <2>1. \A j \in Controls : Pending(j)' \subseteq Pending(j)
        BY Zenon, <1>9 DEF cut_off_bridge, clientVars, Pending
    <2> QED BY Zenon, <1>9, <2>1, QuietStep DEF cut_off_bridge, clientVars
<1>10. ASSUME NEW v \in Visitors, VisitorEof(v) PROVE Pairing'
    BY Zenon, <1>9, <1>10 DEF VisitorEof
<1>11. ASSUME NEW d \in DataChannels, DataEof(d) PROVE Pairing'
    BY Zenon, <1>9, <1>11 DEF DataEof
<1>20. ASSUME NEW v \in Visitors, NEW d \in DataChannels,
              ForwardToClient(v, d) \/ ForwardToVisitor(v, d)
       PROVE  Pairing'
    BY Zenon, <1>9, <1>20, ForwardFacts, ServerDiesPairing DEF Dies, clientVars
<1>12. ASSUME NEW k \in Controls, NEW n \in 0..MaxBatch, NEW eof \in BOOLEAN,
              ReadEof(k, n, eof)
       PROVE Pairing'
    <2>1. n \in Nat
        OBVIOUS
    <2> QED BY Zenon, <1>12, <2>1, ReadEofPairing
<1>14. ASSUME NEW k \in Controls, NEW n \in 0..MaxBatch, NEW eof \in BOOLEAN,
              wait_control_channel_hello(k, n, eof)
       PROVE Pairing'
    <2>1. n \in Nat
        OBVIOUS
    <2> QED BY Zenon, <1>14, <2>1, HelloReadPairing
<1>15. ASSUME NEW k \in Controls, NEW n \in 0..MaxBatch, NEW eof \in BOOLEAN,
              wait_server_cmd(k, n, eof)
       PROVE Pairing'
    <2>1. n \in Nat
        OBVIOUS
    <2> QED BY Zenon, <1>15, <2>1, ServerCmdPairing
<1>16. ASSUME UNCHANGED <<serverVars, client, clientStarts, cconn, down, input_buffer, nonce_>>
       PROVE  Pairing'
    <2>1. \A j \in Controls : Pending(j)' = Pending(j)
        BY Zenon, <1>16 DEF serverVars, Pending
    <2> QED BY Zenon, <1>16, <2>1, QuietStep DEF serverVars
<1>17. ASSUME NEW d \in DataChannels, wait_data_channel_start_cmd(d) PROVE Pairing'
    BY Zenon, <1>16, <1>17, ClientDiesPairing DEF wait_data_channel_start_cmd
<1>18. ASSUME NEW d \in DataChannels, delete_data_channel(d) PROVE Pairing'
    BY Zenon, <1>16, <1>18, ClientDiesPairing DEF delete_data_channel
<1>19. CASE UNCHANGED vars
    BY Zenon, <1>16, <1>19 DEF vars, clientVars
<1> QED BY <1>1, <1>2, <1>3, <1>4, <1>5, <1>6, <1>7, <1>8, <1>10, <1>11, <1>12,
           <1>14, <1>15, <1>17, <1>18, <1>19, <1>20 DEF Next, ReadControl

\* Every unserved data channel and every CREATE on the way has a visitor of
\* its own in the queue of its control channel.
THEOREM PairingHolds == Spec => []Pairing
<1>1. Init => Pairing
    <2> SUFFICES ASSUME Init, NEW k \in Controls PROVE PairingOf(k)
        BY Zenon DEF Pairing
    <2>1. k # None
        BY DEF Controls, None
    <2> QED BY Zenon, <2>1 DEF Init, PairingOf
<1> QED BY <1>1, TypeCorrect, PairingInduction, PTL DEF Spec

\* pop_visitor never takes the front of an empty queue: handle_data_channel_hello
\* always has a visitor for a data channel of a known control channel.
THEOREM QueueNeverEmptyOnPop == Spec => []NeverPopsEmpty
<1>1. Init => NeverPopsEmpty
    BY Zenon DEF Init, NeverPopsEmpty
<1>2. TypeOK /\ Pairing /\ NeverPopsEmpty /\ [Next]_vars => NeverPopsEmpty'
    <2> SUFFICES ASSUME TypeOK, Pairing, died # "pop", [Next]_vars PROVE died' # "pop"
        BY Zenon DEF NeverPopsEmpty
    <2>1. ASSUME NEW d \in DataChannels, handle_data_channel_hello(d) PROVE died' # "pop"
        <3>1. dsrv[d] = "pending"
            BY Zenon, <2>1 DEF handle_data_channel_hello
        <3>2. CASE nonce_[d] \in sc_map_
            BY Zenon, <2>1, <3>1, <3>2, PopFindsVisitor
                DEF handle_data_channel_hello, ServerDies
        <3>3. CASE nonce_[d] \notin sc_map_
            BY Zenon, <2>1, <3>3 DEF handle_data_channel_hello, ServerDies
        <3> QED BY Zenon, <3>2, <3>3
    <2>2. ASSUME NEW k \in Controls, ReadControl(k) PROVE died' # "pop"
        BY Zenon, <2>2 DEF ReadControl, ReadEof, wait_control_channel_hello,
                    wait_server_cmd, serverVars
    <2>3. CASE ServerExits \/ ServerStarts
        BY Zenon, <2>3 DEF ServerExits, ServerStarts, ServerDies
    <2>4. CASE ClientExits \/ ClientStarts \/ UNCHANGED vars
        BY Zenon, <2>4 DEF ClientExits, ClientStarts, vars, serverVars
    <2>5. ASSUME NEW k \in Controls, handle_control_channel_hello(k) PROVE died' # "pop"
        BY Zenon, <2>5 DEF handle_control_channel_hello, ServerDies
    <2>6. ASSUME NEW k \in Controls, ControlEof(k) PROVE died' # "pop"
        BY Zenon, <2>6 DEF ControlEof
    <2>7. ASSUME NEW k \in Controls, NEW v \in Visitors, handle_new_outside_connection(v, k)
          PROVE died' # "pop"
        BY Zenon, <2>7 DEF handle_new_outside_connection, ServerDies
    <2>8. ASSUME NEW v \in Visitors, VisitorEof(v) PROVE died' # "pop"
        BY Zenon, <2>8 DEF VisitorEof, cut_off_bridge
    <2>9. ASSUME NEW d \in DataChannels,
                 DataEof(d) \/ wait_data_channel_start_cmd(d) \/ delete_data_channel(d)
          PROVE died' # "pop"
        BY Zenon, <2>9 DEF DataEof, cut_off_bridge, wait_data_channel_start_cmd,
                    delete_data_channel, serverVars
    <2>10. ASSUME NEW v \in Visitors, NEW d \in DataChannels,
                  ForwardToClient(v, d) \/ ForwardToVisitor(v, d)
           PROVE  died' # "pop"
        BY Zenon, <2>10 DEF ForwardToClient, ForwardToVisitor, WriteFails, cut_off_bridge,
                            ServerDies
    <2> QED BY Zenon, <2>1, <2>2, <2>3, <2>4, <2>5, <2>6, <2>7, <2>8, <2>9, <2>10 DEF Next
<1> QED BY <1>1, <1>2, TypeCorrect, PairingHolds, PTL DEF Spec

-----------------------------------------------------------------------------

\* The visitor is somewhere in the queue.
Holds(q, v) == \E i \in DOMAIN q : q[i] = v

\* No visitor is twice in the queue.
Distinct(q) == \A i, j \in DOMAIN q : q[i] = q[j] => i = j

\* A visitor is queued by the control channel whose port it came to.
QueuesSound ==
    \A k \in Controls :
        /\ Distinct(wait_handle_visitors_[k])
        /\ \A v \in Visitors :
              Holds(wait_handle_visitors_[k], v) => home[v] = k /\ visitor[v] # "new"

\* A bridge joins a visitor that was accepted with a data channel that was
\* given it, and both are of one control channel.
BridgeSound(b) ==
    /\ home[b[1]] = nonce_[b[2]]
    /\ visitor[b[1]] # "new"
    /\ dsrv[b[2]] \in {"bridged", "cut"}
    /\ dcli[b[2]] # "none"

\* No two bridges share an end.
BridgesApart ==
    \A a, b \in bridge_closers_ : (a[1] = b[1] \/ a[2] = b[2]) => a = b

\* A visitor that is bridged has left its queue.
BridgedLeft ==
    \A b \in bridge_closers_ : \A k \in Controls : ~Holds(wait_handle_visitors_[k], b[1])

\* An open visitor is queued or bridged.
OpenKept ==
    \A v \in Visitors : visitor[v] = "open" =>
        \/ \E k \in Controls : Holds(wait_handle_visitors_[k], v)
        \/ \E b \in bridge_closers_ : b[1] = v

\* Where visitors are: the inductive strengthening of VisitorInOnePlace and
\* RightService.
Places ==
    /\ QueuesSound
    /\ \A b \in bridge_closers_ : BridgeSound(b)
    /\ BridgesApart
    /\ BridgedLeft
    /\ OpenKept

\* A hello of a data channel is one the client has made, for a control channel.
PendingMade ==
    \A d \in DataChannels : dsrv[d] = "pending" => nonce_[d] \in Controls /\ dcli[d] # "none"

\* While the first server runs, it knows every control channel that has had its
\* HELLO.
FirstServer ==
    /\ serverStarts >= 1
    /\ server = "up" => died = "no"
    /\ serverStarts = 1 /\ server = "up" =>
          \A k \in Controls :
              /\ sconn[k] # "dead"
              /\ sconn[k] \in {"open", "closed"} => k \in sc_map_

\* A client process has come to its end.
ClientEnded == clientStarts > 1 \/ (clientStarts >= 1 /\ client = "down")

\* The running client keeps its end of a control connection until the server's
\* has died.
KeepsControl(k) ==
    /\ k \in sc_map_ => sconn[k] # "dead"
    /\ client = "up" /\ k[2] = clientStarts /\ sconn[k] # "dead" => ClientReceives(k)

\* Without a client that has ended, a data channel is deleted only after the
\* server has closed it.
KeepsData(d) == dcli[d] = "gone" => dsrv[d] \in {"cut", "dead"} \/ ClientEnded

\* Why a write of the server finds nobody: the client has ended.
ClientKeepsEnds ==
    /\ client = "up" => clientStarts >= 1
    /\ \A k \in Controls : KeepsControl(k)
    /\ \A d \in DataChannels : KeepsData(d)

\* The bridge outlives the step with both ends open.
StaysOpen(b) ==
    b \in bridge_closers_' /\ visitor'[b[1]] = "open" /\ dsrv'[b[2]] = "bridged"

\* The step closes both ends and forgets the bridge.
FallsWhole(b) ==
    b \notin bridge_closers_' /\ visitor'[b[1]] = "closed" /\ dsrv'[b[2]] = "cut"

\* What Append does to a queue, seen as the visitors in it.
LEMMA AppendHolds ==
    ASSUME NEW q \in Seq(Visitors), NEW v \in Visitors
    PROVE  /\ \A u \in Visitors : Holds(Append(q, v), u) <=> Holds(q, u) \/ u = v
           /\ Distinct(q) /\ ~Holds(q, v) => Distinct(Append(q, v))
<1> DEFINE r == Append(q, v)
<1>1. /\ Len(q) \in Nat /\ DOMAIN q = 1..Len(q)
      /\ DOMAIN r = 1..(Len(q) + 1)
      /\ \A i \in 1..Len(q) : r[i] = q[i]
      /\ r[Len(q) + 1] = v
    BY AppendProperties, LenProperties
<1>2. \A i \in DOMAIN r : i \in DOMAIN q \/ i = Len(q) + 1
    BY <1>1
<1>3. DOMAIN q \subseteq DOMAIN r /\ Len(q) + 1 \in DOMAIN r
    BY <1>1
<1> HIDE DEF r
<1>4. ASSUME NEW u \in Visitors PROVE Holds(r, u) <=> Holds(q, u) \/ u = v
    BY Zenon, <1>1, <1>2, <1>3 DEF Holds
<1>5. Distinct(q) /\ ~Holds(q, v) => Distinct(r)
    BY Zenon, <1>1, <1>2, <1>3 DEF Holds, Distinct
<1> QED BY Zenon, <1>4, <1>5 DEF r

\* What pop() leaves of a queue whose visitors are distinct.
LEMMA TailHolds ==
    ASSUME NEW q \in Seq(Visitors), q # <<>>, Distinct(q)
    PROVE  /\ Head(q) \in Visitors
           /\ Holds(q, Head(q))
           /\ \A u \in Visitors : Holds(Tail(q), u) <=> Holds(q, u) /\ u # Head(q)
           /\ Distinct(Tail(q))
<1> DEFINE r == Tail(q)
<1>1. /\ Len(q) \in Nat /\ Len(q) > 0 /\ DOMAIN q = 1..Len(q)
      /\ Head(q) = q[1] /\ Head(q) \in Visitors
      /\ DOMAIN r = 1..(Len(q) - 1)
      /\ \A i \in 1..(Len(q) - 1) : r[i] = q[i + 1]
    <2>1. /\ Head(q) \in Visitors /\ Tail(q) \in Seq(Visitors)
          /\ Len(Tail(q)) = Len(q) - 1
          /\ \A i \in 1..Len(Tail(q)) : Tail(q)[i] = q[i + 1]
        BY Zenon, HeadTailProperties
    <2>2. Len(q) \in Nat /\ DOMAIN q = 1..Len(q) /\ DOMAIN r = 1..Len(r)
        BY Zenon, <2>1, LenProperties
    <2>3. Len(q) # 0
        BY Zenon, EmptySeq
    <2>4. Head(q) = q[1]
        OBVIOUS
    <2> QED BY <2>1, <2>2, <2>3, <2>4
<1>2. 1 \in DOMAIN q /\ \A i \in DOMAIN r : i + 1 \in DOMAIN q /\ i + 1 # 1 /\ r[i] = q[i + 1]
    BY <1>1
<1>3. \A i \in DOMAIN q : i # 1 => i - 1 \in DOMAIN r /\ r[i - 1] = q[i]
    BY <1>1
<1>4. \A i, j \in DOMAIN r : i + 1 = j + 1 => i = j
    BY <1>1
<1> HIDE DEF r
<1>5. ASSUME NEW u \in Visitors PROVE Holds(r, u) <=> Holds(q, u) /\ u # Head(q)
    <2>1. ASSUME Holds(r, u) PROVE Holds(q, u) /\ u # Head(q)
        BY ZenonT(40), <1>1, <1>2, <2>1 DEF Holds, Distinct
    <2>2. ASSUME Holds(q, u), u # Head(q) PROVE Holds(r, u)
        BY Zenon, <1>1, <1>3, <2>2 DEF Holds
    <2> QED BY Zenon, <2>1, <2>2
<1>6. Distinct(r)
    BY Zenon, <1>2, <1>4 DEF Distinct
<1>7. Holds(q, Head(q))
    BY Zenon, <1>1, <1>2 DEF Holds
<1> QED BY Zenon, <1>1, <1>5, <1>6, <1>7 DEF r

\* A step that moves no visitor and no bridge.
LEMMA QuietPlaces ==
    ASSUME TypeOK, Places,
           UNCHANGED <<wait_handle_visitors_, visitor, home, bridge_closers_>>,
           \A b \in bridge_closers_ :
               /\ nonce_'[b[2]] = nonce_[b[2]]
               /\ dsrv'[b[2]] \in {"bridged", "cut"}
               /\ dcli'[b[2]] # "none"
    PROVE  Places'
<1>1. QueuesSound' /\ BridgesApart' /\ BridgedLeft' /\ OpenKept'
    BY Zenon DEF Places, QueuesSound, BridgesApart, BridgedLeft, OpenKept
<1>2. \A b \in bridge_closers_' : BridgeSound(b)'
    BY Zenon DEF Places, BridgeSound
<1> QED BY Zenon, <1>1, <1>2 DEF Places

\* With the server every place a visitor can be in goes, and every visitor.
LEMMA ServerDiesPlaces ==
    ASSUME TypeOK, Places, NEW why, ServerDies(why)
    PROVE  Places'
<1>1. \A k \in Controls : wait_handle_visitors_'[k] = <<>>
    BY Zenon DEF ServerDies
<1>2. \A k \in Controls : \A v : ~Holds(wait_handle_visitors_'[k], v)
    BY <1>1 DEF Holds
<1>3. \A k \in Controls : Distinct(wait_handle_visitors_'[k])
    BY <1>1 DEF Distinct
<1>4. bridge_closers_' = {}
    BY Zenon DEF ServerDies
<1>5. \A v \in Visitors : visitor'[v] # "open"
    BY Zenon DEF ServerDies, TypeOK
<1> QED BY ONLY Zenon, <1>2, <1>3, <1>4, <1>5
        DEF Places, QueuesSound, BridgesApart, BridgedLeft, OpenKept

\* A visitor that connects joins the queue of the channel it connected to.
LEMMA EnqueuePlaces ==
    ASSUME TypeOK, Places, NEW k \in Controls, NEW v \in Visitors, visitor[v] = "new",
           Enqueue(v, k), UNCHANGED <<bridge_closers_, dsrv, dcli, nonce_>>
    PROVE  Places'
<1> DEFINE q == wait_handle_visitors_
<1>1. q[k] \in Seq(Visitors)
    BY Zenon DEF TypeOK
<1>2. /\ q'[k] = Append(q[k], v)
      /\ \A j \in Controls : j # k => q'[j] = q[j]
    BY Zenon DEF Enqueue, TypeOK
<1>3. /\ visitor'[v] = "open" /\ home'[v] = k
      /\ \A u \in Visitors : u # v => visitor'[u] = visitor[u] /\ home'[u] = home[u]
    BY Zenon DEF Enqueue, newConnectionHandle, TypeOK
<1>4. \A j \in Controls : ~Holds(q[j], v)
    BY Zenon DEF Places, QueuesSound
<1>5. \A b \in bridge_closers_ : b[1] \in Visitors /\ b[1] # v
    BY DEF Places, BridgeSound, TypeOK
<1>6. /\ \A u \in Visitors : Holds(q'[k], u) <=> Holds(q[k], u) \/ u = v
      /\ Distinct(q[k]) => Distinct(q'[k])
    BY <1>1, <1>2, <1>4, AppendHolds
<1> HIDE DEF q
<1>7. QueuesSound'
    <2> SUFFICES ASSUME NEW j \in Controls
                 PROVE  /\ Distinct(q'[j])
                        /\ \A u \in Visitors : Holds(q'[j], u) => home'[u] = j /\ visitor'[u] # "new"
        BY Zenon DEF QueuesSound, q
    <2>1. /\ Distinct(q[j])
          /\ \A u \in Visitors : Holds(q[j], u) => home[u] = j /\ visitor[u] # "new"
        BY Zenon DEF Places, QueuesSound, q
    <2>2. CASE j = k
        BY Zenon, <1>3, <1>6, <2>1, <2>2
    <2>3. CASE j # k
        BY Zenon, <1>2, <1>3, <1>4, <2>1, <2>3
    <2> QED BY Zenon, <2>2, <2>3
<1>8. \A b \in bridge_closers_' : BridgeSound(b)'
    BY Zenon, <1>3, <1>5 DEF Places, BridgeSound
<1>9. BridgesApart'
    BY Zenon DEF Places, BridgesApart
<1>10. BridgedLeft'
    BY Zenon, <1>2, <1>5, <1>6 DEF Places, BridgedLeft, q
<1>11. OpenKept'
    <2> SUFFICES ASSUME NEW u \in Visitors, visitor'[u] = "open"
                 PROVE  \/ \E j \in Controls : Holds(q'[j], u)
                        \/ \E b \in bridge_closers_ : b[1] = u
        BY Zenon DEF OpenKept, q
    <2>1. CASE u = v
        BY Zenon, <1>6, <2>1
    <2>2. CASE u # v
        <3>1. \/ \E j \in Controls : Holds(q[j], u)
              \/ \E b \in bridge_closers_ : b[1] = u
            BY Zenon, <1>3, <2>2 DEF Places, OpenKept, q
        <3> QED BY Zenon, <1>2, <1>6, <3>1
    <2> QED BY Zenon, <2>1, <2>2
<1> QED BY Zenon, <1>7, <1>8, <1>9, <1>10, <1>11 DEF Places

\* pop_visitor and the new bridge: the head of the queue moves into one bridge,
\* with a data channel that was in none.
LEMMA BridgePlaces ==
    ASSUME TypeOK, Places, NEW d \in DataChannels, dsrv[d] = "pending", dcli[d] # "none",
           nonce_[d] \in Controls, wait_handle_visitors_[nonce_[d]] # <<>>,
           pop_visitor(nonce_[d]),
           bridge_closers_' = bridge_closers_
               \cup {<<Head(wait_handle_visitors_[nonce_[d]]), d>>},
           dsrv' \in {[dsrv EXCEPT ![d] = "bridged"], [dsrv EXCEPT ![d] = "cut"]},
           UNCHANGED <<visitor, home, dcli, nonce_>>
    PROVE  Places'
<1> DEFINE q == wait_handle_visitors_
           k == nonce_[d]
           h == Head(q[k])
           new == <<h, d>>
<1>1. q[k] \in Seq(Visitors) /\ Distinct(q[k])
    BY Zenon DEF TypeOK, Places, QueuesSound
<1>2. /\ q'[k] = Tail(q[k])
      /\ \A j \in Controls : j # k => q'[j] = q[j]
    BY Zenon DEF pop_visitor, TypeOK
<1>3. /\ h \in Visitors /\ Holds(q[k], h)
      /\ \A u \in Visitors : Holds(q'[k], u) <=> Holds(q[k], u) /\ u # h
      /\ Distinct(q'[k])
    BY <1>1, <1>2, TailHolds
<1>4. home[h] = k /\ visitor[h] # "new" /\ \A j \in Controls : j # k => ~Holds(q[j], h)
    BY <1>3 DEF Places, QueuesSound
<1>5. /\ dsrv'[d] \in {"bridged", "cut"}
      /\ \A e \in DataChannels : e # d => dsrv'[e] = dsrv[e]
    BY DEF TypeOK
<1>6. \A b \in bridge_closers_ :
         b[1] \in Visitors /\ b[2] \in DataChannels /\ b[2] # d /\ b[1] # h
    <2> SUFFICES ASSUME NEW b \in bridge_closers_
                 PROVE  b[1] \in Visitors /\ b[2] \in DataChannels /\ b[2] # d /\ b[1] # h
        BY Zenon
    <2>1. b[1] \in Visitors /\ b[2] \in DataChannels
        BY Zenon DEF TypeOK
    <2>2. dsrv[b[2]] # "pending" /\ ~Holds(q[k], b[1])
        BY Zenon DEF Places, BridgeSound, BridgedLeft
    <2> HIDE DEF q, k, h
    <2> QED BY Zenon, <1>3, <2>1, <2>2
<1>7. /\ bridge_closers_' = bridge_closers_ \cup {new}
      /\ new[1] = h /\ new[2] = d
    BY Zenon
<1>8. UNCHANGED <<visitor, home, dcli, nonce_>> /\ dcli[d] # "none" /\ nonce_[d] = k
      /\ k \in Controls
    BY Zenon
<1> HIDE DEF q, k, h, new
<1>9. QueuesSound'
    <2> SUFFICES ASSUME NEW j \in Controls
                 PROVE  /\ Distinct(q'[j])
                        /\ \A u \in Visitors : Holds(q'[j], u) => home[u] = j /\ visitor[u] # "new"
        BY Zenon, <1>8 DEF QueuesSound, q
    <2>1. /\ Distinct(q[j])
          /\ \A u \in Visitors : Holds(q[j], u) => home[u] = j /\ visitor[u] # "new"
        BY Zenon DEF Places, QueuesSound, q
    <2>2. CASE j = k
        BY Zenon, <1>3, <2>1, <2>2
    <2>3. CASE j # k
        BY Zenon, <1>2, <2>1, <2>3
    <2> QED BY Zenon, <2>2, <2>3
<1>10. \A b \in bridge_closers_' : BridgeSound(b)'
    BY ZenonT(40), <1>4, <1>5, <1>6, <1>7, <1>8 DEF Places, BridgeSound
<1>11. BridgesApart'
    BY Zenon, <1>6, <1>7 DEF Places, BridgesApart
<1>12. BridgedLeft'
    BY Zenon, <1>2, <1>3, <1>4, <1>6, <1>7 DEF Places, BridgedLeft, q
<1>13. OpenKept'
    <2> SUFFICES ASSUME NEW u \in Visitors, visitor[u] = "open"
                 PROVE  \/ \E j \in Controls : Holds(q'[j], u)
                        \/ \E b \in bridge_closers_' : b[1] = u
        BY Zenon, <1>8 DEF OpenKept, q
    <2>1. \/ \E j \in Controls : Holds(q[j], u)
          \/ \E b \in bridge_closers_ : b[1] = u
        BY ZenonT(40) DEF Places, OpenKept, q
    <2> QED BY Zenon, <1>2, <1>3, <1>7, <1>8, <2>1
<1> QED BY Zenon, <1>9, <1>10, <1>11, <1>12, <1>13 DEF Places

\* A bridge that is cut leaves no open visitor behind.
LEMMA CutPlaces ==
    ASSUME TypeOK, Places, NEW ends, cut_off_bridge(ends),
           \A v \in Visitors \cap ends : visitor[v] = "open",
           \A d \in DataChannels \cap ends : dsrv[d] = "bridged",
           UNCHANGED clientVars
    PROVE  Places'
<1> DEFINE cut == BridgesOf(ends)
<1>1. /\ bridge_closers_' = bridge_closers_ \ cut
      /\ UNCHANGED <<wait_handle_visitors_, home>> /\ UNCHANGED <<dcli, nonce_>>
    BY Zenon DEF cut_off_bridge, clientVars
<1>2. \A v \in Visitors : visitor'[v] = IF v \in ends \/ \E b \in cut : b[1] = v
                                        THEN "closed" ELSE visitor[v]
    BY Zenon DEF cut_off_bridge
<1>3. \A d \in DataChannels : dsrv'[d] = IF d \in ends \/ \E b \in cut : b[2] = d
                                         THEN "cut" ELSE dsrv[d]
    BY Zenon DEF cut_off_bridge
<1>4. \A b \in bridge_closers_ : b[1] \in Visitors /\ b[2] \in DataChannels
    BY Zenon DEF TypeOK
<1>5. \A v \in Visitors : visitor[v] # "new" => visitor'[v] # "new"
    BY Zenon, <1>2
<1>6. \A d \in DataChannels : dsrv[d] \in {"bridged", "cut"} => dsrv'[d] \in {"bridged", "cut"}
    BY Zenon, <1>3
<1>7. \A v \in Visitors : visitor'[v] = "open" =>
         visitor[v] = "open" /\ \A b \in cut : b[1] # v
    BY Zenon, <1>2
<1> HIDE DEF cut
<1>8. QueuesSound'
    BY Zenon, <1>1, <1>5 DEF Places, QueuesSound
<1>9. \A b \in bridge_closers_' : BridgeSound(b)'
    BY Zenon, <1>1, <1>4, <1>5, <1>6 DEF Places, BridgeSound
<1>10. BridgesApart' /\ BridgedLeft'
    BY Zenon, <1>1 DEF Places, BridgesApart, BridgedLeft
<1>11. OpenKept'
    BY Zenon, <1>1, <1>7 DEF Places, OpenKept
<1> QED BY ZenonT(40), <1>8, <1>9, <1>10, <1>11 DEF Places

\* A data channel with its hello under way was made by the client, with the
\* nonce of a control channel.
LEMMA PendingAreMade == Spec => []PendingMade
<1>1. Init => PendingMade
    BY Zenon DEF Init, PendingMade
<1>2. TypeOK /\ PendingMade /\ [Next]_vars => PendingMade'
    <2> SUFFICES ASSUME TypeOK, PendingMade, [Next]_vars PROVE PendingMade'
        BY Zenon
    <2>1. ASSUME UNCHANGED nonce_,
                 \A d \in DataChannels : dsrv'[d] = "pending" => dsrv[d] = "pending",
                 \A d \in DataChannels : dcli[d] # "none" => dcli'[d] # "none"
          PROVE  PendingMade'
        BY Zenon, <2>1 DEF PendingMade
    <2>2. ASSUME NEW why, ServerDies(why), UNCHANGED <<dcli, nonce_>> PROVE PendingMade'
        BY Zenon, <2>1, <2>2 DEF ServerDies
    <2>3. ASSUME ClientDies, UNCHANGED serverVars PROVE PendingMade'
        BY Zenon, <2>1, <2>3 DEF ClientDies, serverVars
    <2>4. CASE ServerExits
        BY Zenon, <2>2, <2>4 DEF ServerExits, clientVars
    <2>5. CASE ServerStarts \/ ClientStarts \/ UNCHANGED vars
        BY Zenon, <2>1, <2>5 DEF ServerStarts, ClientStarts, vars, serverVars, clientVars
    <2>6. CASE ClientExits
        BY Zenon, <2>3, <2>6 DEF ClientExits
    <2>7. ASSUME NEW k \in Controls, handle_control_channel_hello(k) \/ ControlEof(k)
          PROVE  PendingMade'
        BY Zenon, <2>1, <2>2, <2>7 DEF handle_control_channel_hello, ControlEof, clientVars
    <2>8. ASSUME NEW k \in Controls, NEW v \in Visitors, handle_new_outside_connection(v, k)
          PROVE  PendingMade'
        BY Zenon, <2>1, <2>2, <2>8 DEF handle_new_outside_connection
    <2>9. ASSUME NEW e \in DataChannels, handle_data_channel_hello(e) PROVE PendingMade'
        <3>1. UNCHANGED <<dcli, nonce_>>
            BY Zenon, <2>9 DEF handle_data_channel_hello, clientVars
        <3>2. \A d \in DataChannels : dsrv'[d] = "pending" => dsrv[d] = "pending"
            BY <2>9 DEF handle_data_channel_hello, ServerDies, TypeOK
        <3> QED BY Zenon, <2>1, <3>1, <3>2
    <2>10. ASSUME NEW ends, cut_off_bridge(ends), UNCHANGED clientVars PROVE PendingMade'
        BY Zenon, <2>1, <2>10 DEF cut_off_bridge, clientVars
    <2>11. ASSUME NEW v \in Visitors, VisitorEof(v) PROVE PendingMade'
        BY Zenon, <2>10, <2>11 DEF VisitorEof
    <2>12. ASSUME NEW d \in DataChannels, DataEof(d) PROVE PendingMade'
        BY Zenon, <2>10, <2>12 DEF DataEof
    <2>16. ASSUME NEW v \in Visitors, NEW d \in DataChannels,
                  ForwardToClient(v, d) \/ ForwardToVisitor(v, d)
           PROVE  PendingMade'
        BY Zenon, <2>2, <2>10, <2>16, ForwardFacts DEF Dies, clientVars
    <2>13. ASSUME NEW k \in Controls, NEW n \in 0..MaxBatch, NEW eof \in BOOLEAN,
                  ReadEof(k, n, eof) \/ wait_control_channel_hello(k, n, eof)
           PROVE  PendingMade'
        BY Zenon, <2>1, <2>13 DEF ReadEof, wait_control_channel_hello, serverVars
    <2>14. ASSUME NEW k \in Controls, NEW n \in 0..MaxBatch, NEW eof \in BOOLEAN,
                  wait_server_cmd(k, n, eof)
           PROVE  PendingMade'
        <3>1. CASE ClientDies /\ UNCHANGED serverVars
            BY Zenon, <2>3, <3>1
        <3>2. CASE handle_cmd_create_datachannel(k)
            BY <3>2 DEF handle_cmd_create_datachannel, do_data_channel_handshake,
                        newConnection, PendingMade, TypeOK
        <3> QED BY Zenon, <2>14, <3>1, <3>2 DEF wait_server_cmd
    <2>15. ASSUME NEW d \in DataChannels,
                  wait_data_channel_start_cmd(d) \/ delete_data_channel(d)
           PROVE  PendingMade'
        <3>1. CASE ClientDies /\ UNCHANGED serverVars
            BY Zenon, <2>3, <3>1
        <3>2. CASE /\ dcli' \in {[dcli EXCEPT ![d] = "started"], [dcli EXCEPT ![d] = "gone"]}
                   /\ UNCHANGED nonce_ /\ UNCHANGED serverVars
            BY ZenonT(40), <2>1, <3>2 DEF serverVars, TypeOK
        <3> QED BY Zenon, <2>15, <3>1, <3>2 DEF wait_data_channel_start_cmd, delete_data_channel
    <2> QED BY <2>4, <2>5, <2>6, <2>7, <2>8, <2>9, <2>11, <2>12, <2>13, <2>14, <2>15,
               <2>16
            DEF Next, ReadControl
<1> QED BY <1>1, <1>2, TypeCorrect, PTL DEF Spec

\* Every step of either process, and every fault, keeps visitors in place.
LEMMA PlacesInduction ==
    TypeOK /\ Pairing /\ PendingMade /\ Places /\ [Next]_vars => Places'
<1> SUFFICES ASSUME TypeOK, Pairing, PendingMade, Places, [Next]_vars PROVE Places'
    BY Zenon
<1> USE TunnelAssumption
<1>1. ASSUME UNCHANGED <<wait_handle_visitors_, visitor, home, bridge_closers_, dsrv, nonce_>>,
             \A d \in DataChannels : dcli[d] # "none" => dcli'[d] # "none"
      PROVE  Places'
    <2>1. \A b \in bridge_closers_ :
             /\ nonce_'[b[2]] = nonce_[b[2]]
             /\ dsrv'[b[2]] \in {"bridged", "cut"}
             /\ dcli'[b[2]] # "none"
        BY Zenon, <1>1 DEF Places, BridgeSound, TypeOK
    <2> QED BY Zenon, <1>1, <2>1, QuietPlaces
<1>2. ASSUME ClientDies, UNCHANGED serverVars PROVE Places'
    <2>1. UNCHANGED <<wait_handle_visitors_, visitor, home, bridge_closers_, dsrv, nonce_>>
        BY Zenon, <1>2 DEF ClientDies, serverVars
    <2>2. \A d \in DataChannels : dcli[d] # "none" => dcli'[d] # "none"
        BY Zenon, <1>2 DEF ClientDies
    <2> QED BY Zenon, <1>1, <2>1, <2>2
<1>3. CASE ServerExits
    BY Zenon, <1>3, ServerDiesPlaces DEF ServerExits
<1>4. CASE ServerStarts
    BY Zenon, <1>1, <1>4 DEF ServerStarts, clientVars
<1>5. CASE ClientExits
    BY Zenon, <1>2, <1>5 DEF ClientExits
<1>6. CASE ClientStarts
    BY Zenon, <1>1, <1>6 DEF ClientStarts
<1>7. ASSUME NEW k \in Controls, handle_control_channel_hello(k) PROVE Places'
    <2>1. CASE ServerDies("bind")
        BY Zenon, <2>1, ServerDiesPlaces
    <2>2. CASE ~ServerDies("bind")
        BY Zenon, <1>1, <1>7, <2>2 DEF handle_control_channel_hello
    <2> QED BY Zenon, <2>1, <2>2
<1>8. ASSUME NEW k \in Controls, ControlEof(k) PROVE Places'
    BY Zenon, <1>1, <1>8 DEF ControlEof, clientVars
<1>9. ASSUME NEW k \in Controls, NEW v \in Visitors, handle_new_outside_connection(v, k)
      PROVE  Places'
    <2>1. CASE ServerDies("sigpipe")
        BY Zenon, <2>1, ServerDiesPlaces
    <2>2. CASE ~ServerDies("sigpipe")
        <3>1. /\ visitor[v] = "new" /\ Enqueue(v, k)
              /\ UNCHANGED <<bridge_closers_, dsrv, dcli, nonce_>>
            BY Zenon, <1>9, <2>2 DEF handle_new_outside_connection
        <3> QED BY Zenon, <3>1, EnqueuePlaces
    <2> QED BY Zenon, <2>1, <2>2
<1>10. ASSUME NEW d \in DataChannels, handle_data_channel_hello(d) PROVE Places'
    <2>1. CASE Dies
        BY Zenon, <2>1, ServerDiesPlaces DEF Dies
    <2>2. CASE ~Dies
        <3>1. /\ dsrv[d] = "pending" /\ nonce_[d] \in sc_map_
              /\ pop_visitor(nonce_[d])
              /\ bridge_closers_' = bridge_closers_
                     \cup {<<Head(wait_handle_visitors_[nonce_[d]]), d>>}
              /\ dsrv' \in {[dsrv EXCEPT ![d] = "bridged"], [dsrv EXCEPT ![d] = "cut"]}
              /\ UNCHANGED <<visitor, home, dcli, nonce_>>
            BY Zenon, <1>10, <2>2 DEF handle_data_channel_hello, clientVars, Dies
        <3>2. nonce_[d] \in Controls /\ wait_handle_visitors_[nonce_[d]] # <<>>
            BY Zenon, <3>1, PopFindsVisitor
        <3>3. dcli[d] # "none"
            BY Zenon, <3>1 DEF PendingMade
        <3> QED BY Zenon, <3>1, <3>2, <3>3, BridgePlaces
    <2> QED BY Zenon, <2>1, <2>2
<1>11. ASSUME NEW v \in Visitors, VisitorEof(v) PROVE Places'
    <2>1. /\ \A u \in Visitors \cap {v} : visitor[u] = "open"
          /\ \A e \in DataChannels \cap {v} : dsrv[e] = "bridged"
        BY Zenon, <1>11 DEF VisitorEof
    <2> QED BY Zenon, <1>11, <2>1, CutPlaces DEF VisitorEof
<1>12. ASSUME NEW d \in DataChannels, DataEof(d) PROVE Places'
    <2>1. /\ \A u \in Visitors \cap {d} : visitor[u] = "open"
          /\ \A e \in DataChannels \cap {d} : dsrv[e] = "bridged"
        BY Zenon, <1>12 DEF DataEof
    <2> QED BY Zenon, <1>12, <2>1, CutPlaces DEF DataEof
<1>18. ASSUME NEW v \in Visitors, NEW d \in DataChannels,
              ForwardToClient(v, d) \/ ForwardToVisitor(v, d)
       PROVE  Places'
    <2>1. /\ visitor[v] = "open" /\ dsrv[d] = "bridged" /\ UNCHANGED clientVars
          /\ Dies \/ cut_off_bridge({v}) \/ cut_off_bridge({d})
        BY Zenon, <1>18, ForwardFacts
    <2>2. CASE Dies
        BY Zenon, <2>2, ServerDiesPlaces DEF Dies
    <2>3. ASSUME NEW end \in {v, d}, cut_off_bridge({end}) PROVE Places'
        <3>1. /\ \A u \in Visitors \cap {end} : visitor[u] = "open"
              /\ \A e \in DataChannels \cap {end} : dsrv[e] = "bridged"
            BY Zenon, <2>1
        <3> QED BY Zenon, <2>1, <2>3, <3>1, CutPlaces
    <2> QED BY Zenon, <2>1, <2>2, <2>3
<1>13. ASSUME NEW k \in Controls, NEW n \in 0..MaxBatch, NEW eof \in BOOLEAN,
              ReadEof(k, n, eof) \/ wait_control_channel_hello(k, n, eof)
       PROVE  Places'
    BY Zenon, <1>1, <1>13 DEF ReadEof, wait_control_channel_hello, serverVars
<1>14. ASSUME NEW k \in Controls, NEW n \in 0..MaxBatch, NEW eof \in BOOLEAN,
              wait_server_cmd(k, n, eof)
       PROVE  Places'
    <2>1. CASE ClientDies /\ UNCHANGED serverVars
        BY Zenon, <1>2, <2>1
    <2>2. CASE ~(ClientDies /\ UNCHANGED serverVars)
        <3>1. /\ handle_cmd_create_datachannel(k)
              /\ UNCHANGED <<wait_handle_visitors_, visitor, home, bridge_closers_>>
            BY Zenon, <1>14, <2>2 DEF wait_server_cmd
        <3>2. PICK d \in DataChannels :
                  /\ dcli[d] = "none"
                  /\ dcli' = [dcli EXCEPT ![d] = "hello_sent"]
                  /\ dsrv' = [dsrv EXCEPT ![d] = "pending"]
                  /\ nonce_' = [nonce_ EXCEPT ![d] = k]
            BY ONLY Zenon, <3>1 DEF handle_cmd_create_datachannel, do_data_channel_handshake,
                                    newConnection
        <3>3. ASSUME NEW b \in bridge_closers_
              PROVE  /\ nonce_'[b[2]] = nonce_[b[2]]
                     /\ dsrv'[b[2]] \in {"bridged", "cut"}
                     /\ dcli'[b[2]] # "none"
            <4>1. b[2] \in DataChannels /\ BridgeSound(b)
                BY Zenon DEF Places, TypeOK
            <4> QED BY <3>2, <4>1 DEF BridgeSound, TypeOK
        <3> QED BY Zenon, <3>1, <3>3, QuietPlaces
    <2> QED BY Zenon, <2>1, <2>2
<1>15. ASSUME NEW d \in DataChannels, wait_data_channel_start_cmd(d) PROVE Places'
    <2>1. CASE ClientDies
        BY Zenon, <1>2, <1>15, <2>1 DEF wait_data_channel_start_cmd
    <2>2. CASE dcli' = [dcli EXCEPT ![d] = "started"] /\ UNCHANGED nonce_
        BY Zenon, <1>1, <1>15, <2>2 DEF wait_data_channel_start_cmd, serverVars, TypeOK
    <2> QED BY Zenon, <1>15, <2>1, <2>2 DEF wait_data_channel_start_cmd
<1>16. ASSUME NEW d \in DataChannels, delete_data_channel(d) PROVE Places'
    <2>1. CASE ClientDies
        BY Zenon, <1>2, <1>16, <2>1 DEF delete_data_channel
    <2>2. CASE dcli' = [dcli EXCEPT ![d] = "gone"] /\ UNCHANGED nonce_
        BY Zenon, <1>1, <1>16, <2>2 DEF delete_data_channel, serverVars, TypeOK
    <2> QED BY Zenon, <1>16, <2>1, <2>2 DEF delete_data_channel
<1>17. CASE UNCHANGED vars
    BY Zenon, <1>1, <1>17 DEF vars, serverVars, clientVars
<1> QED BY <1>3, <1>4, <1>5, <1>6, <1>7, <1>8, <1>9, <1>10, <1>11, <1>12, <1>13,
           <1>14, <1>15, <1>16, <1>17, <1>18 DEF Next, ReadControl

\* Every reachable state has its visitors in place.
LEMMA PlacesHold == Spec => []Places
<1>1. Init => Places
    <2> SUFFICES ASSUME Init PROVE Places
        BY Zenon
    <2>1. \A k \in Controls : wait_handle_visitors_[k] = <<>>
        BY Zenon DEF Init
    <2>2. \A k \in Controls : Distinct(wait_handle_visitors_[k])
                              /\ \A v : ~Holds(wait_handle_visitors_[k], v)
        BY <2>1 DEF Distinct, Holds
    <2>3. bridge_closers_ = {} /\ (\A v \in Visitors : visitor[v] # "open")
        BY Zenon DEF Init
    <2> QED BY ONLY Zenon, <2>2, <2>3
            DEF Places, QueuesSound, BridgesApart, BridgedLeft, OpenKept
<1> QED BY <1>1, TypeCorrect, PairingHolds, PendingAreMade, PlacesInduction, PTL DEF Spec

\* A visitor is in its queue, in one bridge or gone, from the accept to the
\* close: pop_visitor hands each out once and loses none.
THEOREM VisitorsPlaced == Spec => []VisitorInOnePlace
<1>1. TypeOK /\ Places => VisitorInOnePlace
    <2> SUFFICES ASSUME TypeOK, Places PROVE VisitorInOnePlace
        BY Zenon
    <2>1. \A v \in Visitors : ~(Queued(v) /\ Bridged(v))
        BY Zenon DEF Places, BridgedLeft, Queued, Bridged, Holds
    <2>2. \A k \in Controls : Distinct(wait_handle_visitors_[k])
        BY Zenon DEF Places, QueuesSound
    <2>3. OpenVisitorTracked
        BY Zenon DEF Places, OpenKept, OpenVisitorTracked, Queued, Bridged, Holds
    <2> QED BY Zenon, <2>1, <2>2, <2>3
            DEF Places, BridgesApart, VisitorInOnePlace, HandedOutOnce, Distinct
<1> QED BY <1>1, TypeCorrect, PlacesHold, PTL

\* A visitor is served by a data channel of the control channel whose port it
\* connected to, whatever was restarted in between.
THEOREM BridgedToRightService == Spec => []RightService
<1>1. Places => RightService
    BY Zenon DEF Places, BridgeSound, RightService
<1> QED BY <1>1, PlacesHold, PTL

\* What a step does to a bridge whose ends are both open.
LEMMA BridgeStep ==
    ASSUME TypeOK, Places, [Next]_vars,
           NEW b \in bridge_closers_, visitor[b[1]] = "open", dsrv[b[2]] = "bridged"
    PROVE  StaysOpen(b) \/ FallsWhole(b)
<1>1. b[1] \in Visitors /\ b[2] \in DataChannels /\ BridgeSound(b)
    BY Zenon DEF TypeOK, Places
<1>2. ASSUME UNCHANGED <<visitor, bridge_closers_, dsrv>> PROVE StaysOpen(b)
    BY Zenon, <1>2 DEF StaysOpen
<1>3. ASSUME NEW why, ServerDies(why) PROVE FallsWhole(b)
    BY Zenon, <1>1, <1>3 DEF ServerDies, FallsWhole
<1>4. ASSUME NEW ends, cut_off_bridge(ends), ends \cap Visitors # {} => ends \cap DataChannels = {}
      PROVE  StaysOpen(b) \/ FallsWhole(b)
    <2> DEFINE cut == BridgesOf(ends)
    <2>1. /\ bridge_closers_' = bridge_closers_ \ cut
          /\ visitor'[b[1]] = IF b[1] \in ends \/ \E a \in cut : a[1] = b[1]
                              THEN "closed" ELSE visitor[b[1]]
          /\ dsrv'[b[2]] = IF b[2] \in ends \/ \E a \in cut : a[2] = b[2]
                           THEN "cut" ELSE dsrv[b[2]]
        BY Zenon, <1>1, <1>4 DEF cut_off_bridge
    <2>2. cut \subseteq bridge_closers_
        BY Zenon DEF BridgesOf
    <2>3. CASE b \in cut
        BY Zenon, <2>1, <2>3 DEF FallsWhole
    <2>4. CASE b \notin cut
        <3>1. b[1] \notin ends /\ b[2] \notin ends
            BY Zenon, <2>4 DEF BridgesOf
        <3>2. \A a \in cut : a[1] # b[1] /\ a[2] # b[2]
            BY ZenonT(40), <2>2, <2>4 DEF Places, BridgesApart
        <3> HIDE DEF cut
        <3> QED BY Zenon, <2>1, <2>4, <3>1, <3>2 DEF StaysOpen
    <2> QED BY Zenon, <2>3, <2>4
<1>5. CASE ServerExits
    BY ZenonT(40), <1>3, <1>5 DEF ServerExits
<1>6. CASE ServerStarts \/ ClientStarts \/ ClientExits \/ UNCHANGED vars
    BY Zenon, <1>2, <1>6 DEF ServerStarts, ClientStarts, ClientExits, vars, serverVars
<1>7. ASSUME NEW k \in Controls, handle_control_channel_hello(k) \/ ControlEof(k)
      PROVE  StaysOpen(b) \/ FallsWhole(b)
    BY Zenon, <1>2, <1>3, <1>7 DEF handle_control_channel_hello, ControlEof
<1>8. ASSUME NEW k \in Controls, NEW v \in Visitors, handle_new_outside_connection(v, k)
      PROVE  StaysOpen(b) \/ FallsWhole(b)
    <2>1. CASE ServerDies("sigpipe")
        BY Zenon, <1>3, <2>1
    <2>2. CASE ~ServerDies("sigpipe")
        <3>1. /\ visitor[v] = "new" /\ visitor' = [visitor EXCEPT ![v] = "open"]
              /\ UNCHANGED <<bridge_closers_, dsrv>>
            BY Zenon, <1>8, <2>2 DEF handle_new_outside_connection, Enqueue, newConnectionHandle
        <3> QED BY Zenon, <1>1, <3>1 DEF StaysOpen, TypeOK
    <2> QED BY Zenon, <2>1, <2>2
<1>9. ASSUME NEW d \in DataChannels, handle_data_channel_hello(d)
      PROVE  StaysOpen(b) \/ FallsWhole(b)
    <2>1. CASE Dies
        BY Zenon, <1>3, <2>1 DEF Dies
    <2>2. CASE ~Dies
        <3>1. /\ dsrv[d] = "pending" /\ bridge_closers_ \subseteq bridge_closers_'
              /\ dsrv' \in {[dsrv EXCEPT ![d] = "bridged"], [dsrv EXCEPT ![d] = "cut"]}
              /\ UNCHANGED visitor
            BY ZenonT(40), <1>9, <2>2 DEF handle_data_channel_hello, Dies
        <3> QED BY <1>1, <3>1 DEF StaysOpen, TypeOK
    <2> QED BY Zenon, <2>1, <2>2
<1>10. ASSUME NEW v \in Visitors, VisitorEof(v) PROVE StaysOpen(b) \/ FallsWhole(b)
    <2>1. {v} \cap Visitors # {} => {v} \cap DataChannels = {}
        BY Zenon, TunnelAssumption
    <2> QED BY ZenonT(40), <1>4, <1>10, <2>1 DEF VisitorEof
<1>11. ASSUME NEW d \in DataChannels, DataEof(d) PROVE StaysOpen(b) \/ FallsWhole(b)
    <2>1. {d} \cap Visitors # {} => {d} \cap DataChannels = {}
        BY ZenonT(40), TunnelAssumption
    <2> QED BY ZenonT(40), <1>4, <1>11, <2>1 DEF DataEof
<1>15. ASSUME NEW v \in Visitors, NEW d \in DataChannels,
              ForwardToClient(v, d) \/ ForwardToVisitor(v, d)
       PROVE  StaysOpen(b) \/ FallsWhole(b)
    <2>1. Dies \/ cut_off_bridge({v}) \/ cut_off_bridge({d})
        BY ONLY Zenon, <1>15, ForwardFacts
    <2>2. CASE Dies
        BY Zenon, <1>3, <2>2 DEF Dies
    <2>3. /\ {v} \cap Visitors # {} => {v} \cap DataChannels = {}
          /\ {d} \cap Visitors # {} => {d} \cap DataChannels = {}
        BY ZenonT(40), TunnelAssumption
    <2> QED BY ZenonT(40), <1>4, <2>1, <2>2, <2>3
<1>12. ASSUME NEW k \in Controls, NEW n \in 0..MaxBatch, NEW eof \in BOOLEAN,
              ReadEof(k, n, eof) \/ wait_control_channel_hello(k, n, eof)
       PROVE  StaysOpen(b)
    BY ZenonT(40), <1>2, <1>12 DEF ReadEof, wait_control_channel_hello, serverVars
<1>13. ASSUME NEW k \in Controls, NEW n \in 0..MaxBatch, NEW eof \in BOOLEAN,
              wait_server_cmd(k, n, eof)
       PROVE  StaysOpen(b)
    <2>1. CASE UNCHANGED serverVars
        BY ZenonT(40), <1>2, <2>1 DEF serverVars
    <2>2. CASE handle_cmd_create_datachannel(k) /\ UNCHANGED <<visitor, bridge_closers_>>
        <3>1. PICK d \in DataChannels : dcli[d] = "none" /\ dsrv' = [dsrv EXCEPT ![d] = "pending"]
            BY Zenon, <2>2 DEF handle_cmd_create_datachannel, do_data_channel_handshake, newConnection
        <3>2. b[2] # d
            BY Zenon, <1>1, <3>1 DEF BridgeSound
        <3> QED BY <1>1, <2>2, <3>1, <3>2 DEF StaysOpen, TypeOK
    <2> QED BY ZenonT(40), <1>13, <2>1, <2>2 DEF wait_server_cmd
<1>14. ASSUME NEW d \in DataChannels, wait_data_channel_start_cmd(d) \/ delete_data_channel(d)
       PROVE  StaysOpen(b)
    BY Zenon, <1>2, <1>14 DEF wait_data_channel_start_cmd, delete_data_channel, serverVars
<1> QED BY ZenonT(40), <1>5, <1>6, <1>7, <1>8, <1>9, <1>10, <1>11, <1>12, <1>13, <1>14,
           <1>15
        DEF Next, ReadControl

\* BridgeCloser takes a bridge down as a whole: no step closes one of its two
\* open ends and leaves the other.
THEOREM BridgesWhole == Spec => BridgesFallWhole
<1>1. TypeOK /\ Places /\ [Next]_vars =>
          [\A b \in bridge_closers_ :
              (visitor[b[1]] = "open" /\ dsrv[b[2]] = "bridged") =>
                  \/ /\ b \in bridge_closers_'
                     /\ visitor'[b[1]] = "open" /\ dsrv'[b[2]] = "bridged"
                  \/ /\ b \notin bridge_closers_'
                     /\ visitor'[b[1]] = "closed" /\ dsrv'[b[2]] = "cut"]_vars
    BY Zenon, BridgeStep DEF StaysOpen, FallsWhole
<1> QED BY <1>1, TypeCorrect, PlacesHold, PTL DEF Spec, BridgesFallWhole

\* A port cannot be bound only if an earlier client's control channel has it or
\* the client's file names a port twice or one in use.
LEMMA BindFails ==
    ASSUME TypeOK, Pairing, NEW k \in Controls, sconn[k] = "pending", ~CanBind(k)
    PROVE  clientStarts > 1 \/ PortsClash
<1>0. k[1] \in Services /\ k[2] \in Nat /\ k[2] >= 1 /\ k = <<k[1], k[2]>>
    BY TunnelAssumption DEF Controls
<1>1. CASE proxy_port[k[1]] \in TakenPorts
    BY Zenon, <1>0, <1>1 DEF PortsClash
<1>2. CASE proxy_port[k[1]] \notin TakenPorts
    <2>1. PICK j \in sc_map_ : proxy_port[j[1]] = proxy_port[k[1]]
        BY Zenon, <1>2 DEF CanBind
    <2>2. j \in Controls /\ j # k
        BY Zenon, <2>1 DEF TypeOK, Pairing, PairingOf
    <2>3. j[1] \in Services /\ j[2] \in Nat /\ j[2] >= 1 /\ j = <<j[1], j[2]>>
        BY <2>2, TunnelAssumption DEF Controls
    <2>4. CASE j[1] # k[1]
        BY Zenon, <1>0, <2>1, <2>3, <2>4 DEF PortsClash
    <2>5. CASE j[1] = k[1]
        <3>1. j[2] # k[2]
            BY Zenon, <1>0, <2>2, <2>3, <2>5
        <3>2. sconn[j] # "none"
            BY Zenon, <2>1, <2>2 DEF Pairing, PairingOf
        <3>3. ~(k[2] > clientStarts) /\ ~(j[2] > clientStarts)
            BY Zenon, <2>2, <3>2 DEF Pairing, PairingOf
        <3>4. clientStarts \in Nat
            BY TunnelAssumption DEF TypeOK
        <3> QED BY ONLY <1>0, <2>3, <3>1, <3>3, <3>4
    <2> QED BY Zenon, <2>4, <2>5
<1> QED BY Zenon, <1>1, <1>2

\* On a control channel the server knows, a running first client receives.
LEMMA SilentOnlyIfEnded ==
    ASSUME TypeOK, Pairing, ClientKeepsEnds, NEW k \in sc_map_, ~ClientReceives(k)
    PROVE  clientStarts > 1 \/ client = "down"
<1> SUFFICES ASSUME ~(clientStarts > 1), client = "up" PROVE FALSE
    BY Zenon DEF TypeOK
<1>1. k \in Controls /\ sconn[k] # "none" /\ sconn[k] # "dead"
    BY Zenon DEF TypeOK, Pairing, PairingOf, ClientKeepsEnds, KeepsControl
<1>2. ~(k[2] > clientStarts)
    BY Zenon, <1>1 DEF Pairing, PairingOf
<1>3. /\ clientStarts \in Nat /\ clientStarts >= 1
      /\ k[2] \in Nat /\ k[2] >= 1
    BY <1>1, TunnelAssumption DEF TypeOK, Controls, ClientKeepsEnds
<1>4. k[2] = clientStarts
    BY ONLY <1>2, <1>3, ~(clientStarts > 1)
<1> QED BY Zenon, <1>1, <1>4 DEF ClientKeepsEnds, KeepsControl

\* The first server knows the nonce of every data channel.
LEMMA FirstNonceKnown ==
    ASSUME TypeOK, Pairing, PendingMade, FirstServer, server = "up", serverStarts = 1,
           NEW d \in DataChannels, dsrv[d] = "pending"
    PROVE  nonce_[d] \in sc_map_
<1> DEFINE k == nonce_[d]
<1>1. k \in Controls
    BY Zenon DEF PendingMade
<1>2. sconn[k] \notin {"none", "pending"}
    BY Zenon, <1>1 DEF Pairing, PairingOf
<1>3. sconn[k] # "dead"
    BY Zenon, <1>1 DEF FirstServer
<1>4. sconn[k] \in {"open", "closed"}
    BY Zenon, <1>1, <1>2, <1>3 DEF TypeOK
<1> QED BY Zenon, <1>1, <1>4 DEF FirstServer

\* Every step keeps what is known of the first server.
LEMMA FirstServerInduction ==
    TypeOK /\ FirstServer /\ [Next]_vars => FirstServer'
<1> SUFFICES ASSUME TypeOK, FirstServer, [Next]_vars PROVE FirstServer'
    BY Zenon
<1> DEFINE Known(k) ==
        /\ sconn[k] # "dead"
        /\ sconn[k] \in {"open", "closed"} => k \in sc_map_
<1>0. serverStarts \in Nat /\ serverStarts >= 1
    BY Zenon DEF TypeOK, FirstServer
<1>1. ASSUME NEW why, ServerDies(why) PROVE FirstServer'
    BY Zenon, <1>0, <1>1 DEF ServerDies, FirstServer
<1>2. ASSUME UNCHANGED <<server, serverStarts, died>>,
             \A k \in Controls : Known(k) => Known(k)'
      PROVE  FirstServer'
    BY Zenon, <1>2 DEF FirstServer
<1>3. ASSUME UNCHANGED <<server, serverStarts, died, sc_map_, sconn>> PROVE FirstServer'
    BY Zenon, <1>2, <1>3
<1>4. CASE ServerExits
    BY Zenon, <1>1, <1>4 DEF ServerExits
<1>5. CASE ServerStarts
    BY <1>0, <1>5 DEF ServerStarts, FirstServer
<1>6. CASE ClientExits \/ UNCHANGED vars
    BY Zenon, <1>3, <1>6 DEF ClientExits, vars, serverVars
<1>7. CASE ClientStarts
    <2>1. UNCHANGED <<server, serverStarts, died, sc_map_>>
        BY Zenon, <1>7 DEF ClientStarts
    <2>2. ASSUME NEW k \in Controls, Known(k) PROVE Known(k)'
        BY Zenon, <1>7, <2>1, <2>2 DEF ClientStarts, do_control_channel_handshake
    <2> QED BY Zenon, <1>2, <2>1, <2>2
<1>8. ASSUME NEW j \in Controls, handle_control_channel_hello(j) PROVE FirstServer'
    <2>1. CASE ServerDies("bind")
        BY Zenon, <1>1, <2>1
    <2>2. CASE ~ServerDies("bind")
        <3>1. PICK c \in {"open", "closed"} : sconn' = [sconn EXCEPT ![j] = c]
            BY Zenon, <1>8, <2>2 DEF handle_control_channel_hello, AfterRead
        <3>2. UNCHANGED <<server, serverStarts, died>> /\ sc_map_' = sc_map_ \cup {j}
            BY Zenon, <1>8, <2>2 DEF handle_control_channel_hello
        <3>3. ASSUME NEW k \in Controls, Known(k) PROVE Known(k)'
            BY Zenon, <3>1, <3>2, <3>3 DEF TypeOK
        <3> QED BY Zenon, <1>2, <3>2, <3>3
    <2> QED BY Zenon, <2>1, <2>2
<1>9. ASSUME NEW j \in Controls, ControlEof(j) PROVE FirstServer'
    <2>1. UNCHANGED <<server, serverStarts, died, sc_map_>>
        BY Zenon, <1>9 DEF ControlEof
    <2>2. ASSUME NEW k \in Controls, Known(k) PROVE Known(k)'
        BY Zenon, <1>9, <2>1, <2>2 DEF ControlEof, TypeOK
    <2> QED BY Zenon, <1>2, <2>1, <2>2
<1>10. ASSUME NEW j \in Controls, NEW v \in Visitors, handle_new_outside_connection(v, j)
       PROVE  FirstServer'
    <2>1. CASE ServerDies("sigpipe")
        BY Zenon, <1>1, <2>1
    <2>2. CASE ~ServerDies("sigpipe")
        <3>1. /\ UNCHANGED <<server, serverStarts, died, sc_map_>>
              /\ j \in sc_map_ /\ sconn' \in {sconn, [sconn EXCEPT ![j] = "closed"]}
            BY Zenon, <1>10, <2>2 DEF handle_new_outside_connection
        <3>2. ASSUME NEW k \in Controls, Known(k) PROVE Known(k)'
            BY Zenon, <3>1, <3>2 DEF TypeOK
        <3> QED BY Zenon, <1>2, <3>1, <3>2
    <2> QED BY Zenon, <2>1, <2>2
<1>11. ASSUME NEW d \in DataChannels, handle_data_channel_hello(d) PROVE FirstServer'
    <2>1. CASE Dies
        BY Zenon, <1>1, <2>1 DEF Dies
    <2>2. CASE ~Dies
        BY Zenon, <1>3, <1>11, <2>2 DEF handle_data_channel_hello, Dies
    <2> QED BY Zenon, <2>1, <2>2
<1>12. ASSUME NEW ends, cut_off_bridge(ends) PROVE FirstServer'
    BY Zenon, <1>3, <1>12 DEF cut_off_bridge
<1>13. ASSUME NEW v \in Visitors, VisitorEof(v) PROVE FirstServer'
    BY Zenon, <1>12, <1>13 DEF VisitorEof
<1>14. ASSUME NEW d \in DataChannels, DataEof(d) PROVE FirstServer'
    BY Zenon, <1>12, <1>14 DEF DataEof
<1>15. ASSUME NEW v \in Visitors, NEW d \in DataChannels,
              ForwardToClient(v, d) \/ ForwardToVisitor(v, d)
       PROVE  FirstServer'
    BY Zenon, <1>1, <1>12, <1>15, ForwardFacts DEF Dies
<1>16. ASSUME NEW k \in Controls, ReadControl(k) PROVE FirstServer'
    BY Zenon, <1>3, <1>16 DEF ReadControl, ReadEof, wait_control_channel_hello,
                              wait_server_cmd, serverVars
<1>17. ASSUME NEW d \in DataChannels, wait_data_channel_start_cmd(d) \/ delete_data_channel(d)
       PROVE  FirstServer'
    BY Zenon, <1>3, <1>17 DEF wait_data_channel_start_cmd, delete_data_channel, serverVars
<1> QED BY <1>4, <1>5, <1>6, <1>7, <1>8, <1>9, <1>10, <1>11, <1>13, <1>14, <1>15,
           <1>16, <1>17 DEF Next

\* Every step keeps what is known of the client's ends.
LEMMA ClientEndsInduction ==
    TypeOK /\ ClientKeepsEnds /\ [Next]_vars => ClientKeepsEnds'
<1> SUFFICES ASSUME TypeOK, ClientKeepsEnds, [Next]_vars PROVE ClientKeepsEnds'
    BY Zenon
<1>0. /\ clientStarts \in Nat /\ (client = "up" => clientStarts >= 1)
      /\ \A k \in Controls : KeepsControl(k)
      /\ \A d \in DataChannels : KeepsData(d)
    BY TunnelAssumption DEF TypeOK, ClientKeepsEnds
<1>1. ASSUME UNCHANGED <<client, clientStarts>>,
             \A k \in Controls : KeepsControl(k)', \A d \in DataChannels : KeepsData(d)'
      PROVE  ClientKeepsEnds'
    BY Zenon, <1>0, <1>1 DEF ClientKeepsEnds
<1>2. ASSUME UNCHANGED <<client, clientStarts, cconn, sconn, sc_map_>>
      PROVE  \A k \in Controls : KeepsControl(k)'
    BY Zenon, <1>0, <1>2 DEF KeepsControl, ClientReceives
<1>3. ASSUME UNCHANGED <<client, clientStarts, dcli, dsrv>>
      PROVE  \A d \in DataChannels : KeepsData(d)'
    BY Zenon, <1>0, <1>3 DEF KeepsData, ClientEnded
<1>4. ASSUME NEW why, ServerDies(why), UNCHANGED <<client, clientStarts, cconn, dcli>>
      PROVE  ClientKeepsEnds'
    <2>1. ASSUME NEW k \in Controls PROVE KeepsControl(k)'
        BY Zenon, <1>0, <1>4 DEF ServerDies, KeepsControl, ClientReceives
    <2>2. ASSUME NEW d \in DataChannels PROVE KeepsData(d)'
        BY Zenon, <1>0, <1>4 DEF ServerDies, KeepsData, ClientEnded
    <2> QED BY Zenon, <1>1, <1>4, <2>1, <2>2
<1>5. ASSUME ClientDies, client = "up", UNCHANGED serverVars PROVE ClientKeepsEnds'
    <2>1. client' = "down" /\ clientStarts' = clientStarts
        BY Zenon, <1>5 DEF ClientDies
    <2>2. ASSUME NEW k \in Controls PROVE KeepsControl(k)'
        BY Zenon, <1>0, <1>5, <2>1 DEF KeepsControl, serverVars
    <2>3. ASSUME NEW d \in DataChannels PROVE KeepsData(d)'
        BY Zenon, <1>0, <1>5, <2>1 DEF KeepsData, ClientEnded
    <2> QED BY Zenon, <2>1, <2>2, <2>3 DEF ClientKeepsEnds
<1>6. CASE ServerExits
    BY Zenon, <1>4, <1>6 DEF ServerExits, clientVars
<1>7. CASE ServerStarts \/ UNCHANGED vars
    BY Zenon, <1>1, <1>2, <1>3, <1>7 DEF ServerStarts, vars, serverVars, clientVars
<1>8. CASE ClientExits
    BY Zenon, <1>5, <1>8 DEF ClientExits
<1>9. CASE ClientStarts
    <2>1. /\ clientStarts' = clientStarts + 1 /\ UNCHANGED <<sc_map_, dcli, dsrv>>
          /\ do_control_channel_handshake(clientStarts')
        BY Zenon, <1>9 DEF ClientStarts
    <2>2. clientStarts' >= 1 /\ (clientStarts >= 1 => clientStarts' > 1)
          /\ (clientStarts > 1 => clientStarts >= 1)
        BY <1>0, <2>1
    <2>3. ASSUME NEW k \in Controls PROVE KeepsControl(k)'
        <3>1. CASE k[2] = clientStarts'
            BY Zenon, <2>1, <3>1 DEF do_control_channel_handshake, KeepsControl, ClientReceives
        <3>2. CASE k[2] # clientStarts'
            BY Zenon, <1>0, <2>1, <3>2 DEF do_control_channel_handshake, KeepsControl
        <3> QED BY Zenon, <3>1, <3>2
    <2>4. ASSUME NEW d \in DataChannels PROVE KeepsData(d)'
        BY Zenon, <1>0, <2>1, <2>2 DEF KeepsData, ClientEnded
    <2> QED BY Zenon, <2>2, <2>3, <2>4 DEF ClientKeepsEnds
<1>10. ASSUME NEW j \in Controls, handle_control_channel_hello(j) PROVE ClientKeepsEnds'
    <2>1. CASE ServerDies("bind")
        BY Zenon, <1>4, <1>10, <2>1 DEF handle_control_channel_hello
    <2>2. CASE ~ServerDies("bind")
        <3>1. PICK c \in {"open", "closed"} : sconn' = [sconn EXCEPT ![j] = c]
            BY Zenon, <1>10, <2>2 DEF handle_control_channel_hello, AfterRead
        <3>2. /\ UNCHANGED <<client, clientStarts, cconn, dcli, dsrv>>
              /\ sc_map_' = sc_map_ \cup {j} /\ sconn[j] = "pending"
            BY Zenon, <1>10, <2>2 DEF handle_control_channel_hello
        <3>3. ASSUME NEW k \in Controls PROVE KeepsControl(k)'
            BY Zenon, <1>0, <3>1, <3>2 DEF TypeOK, KeepsControl, ClientReceives
        <3> QED BY Zenon, <1>1, <1>3, <3>2, <3>3
    <2> QED BY Zenon, <2>1, <2>2
<1>11. ASSUME NEW j \in Controls, sconn[j] # "dead",
              sconn' \in {sconn, [sconn EXCEPT ![j] = "closed"]},
              UNCHANGED <<client, clientStarts, cconn, sc_map_, dcli, dsrv>>
       PROVE  ClientKeepsEnds'
    <2>1. ASSUME NEW k \in Controls PROVE KeepsControl(k)'
        BY Zenon, <1>0, <1>11 DEF TypeOK, KeepsControl, ClientReceives
    <2> QED BY Zenon, <1>1, <1>3, <1>11, <2>1
<1>12. ASSUME NEW j \in Controls, ControlEof(j) PROVE ClientKeepsEnds'
    BY Zenon, <1>11, <1>12 DEF ControlEof, clientVars
<1>13. ASSUME NEW j \in Controls, NEW v \in Visitors, handle_new_outside_connection(v, j)
       PROVE  ClientKeepsEnds'
    <2>1. CASE ServerDies("sigpipe")
        BY Zenon, <1>4, <1>13, <2>1 DEF handle_new_outside_connection
    <2>2. CASE ~ServerDies("sigpipe")
        <3>1. /\ UNCHANGED <<client, clientStarts, cconn, sc_map_, dcli, dsrv>>
              /\ j \in sc_map_ /\ sconn' \in {sconn, [sconn EXCEPT ![j] = "closed"]}
            BY Zenon, <1>13, <2>2 DEF handle_new_outside_connection
        <3>2. sconn[j] # "dead"
            BY Zenon, <1>0, <3>1 DEF KeepsControl
        <3> QED BY Zenon, <1>11, <3>1, <3>2
    <2> QED BY Zenon, <2>1, <2>2
<1>14. ASSUME NEW e \in DataChannels, handle_data_channel_hello(e) PROVE ClientKeepsEnds'
    <2>1. UNCHANGED clientVars /\ dsrv[e] = "pending"
        BY Zenon, <1>14 DEF handle_data_channel_hello
    <2>2. CASE Dies
        BY Zenon, <1>4, <2>1, <2>2 DEF Dies, clientVars
    <2>3. CASE ~Dies
        <3>1. /\ dsrv' \in {[dsrv EXCEPT ![e] = "bridged"], [dsrv EXCEPT ![e] = "cut"]}
              /\ UNCHANGED <<sc_map_, sconn>>
            BY Zenon, <1>14, <2>3 DEF handle_data_channel_hello, Dies
        <3>2. ASSUME NEW d \in DataChannels PROVE KeepsData(d)'
            BY Zenon, <1>0, <2>1, <3>1 DEF TypeOK, KeepsData, ClientEnded, clientVars
        <3> QED BY Zenon, <1>1, <1>2, <2>1, <3>1, <3>2 DEF clientVars
    <2> QED BY Zenon, <2>2, <2>3
<1>15. ASSUME NEW ends, cut_off_bridge(ends), UNCHANGED clientVars PROVE ClientKeepsEnds'
    <2>1. ASSUME NEW d \in DataChannels PROVE KeepsData(d)'
        BY Zenon, <1>0, <1>15 DEF cut_off_bridge, KeepsData, ClientEnded, clientVars
    <2> QED BY Zenon, <1>1, <1>2, <1>15, <2>1 DEF cut_off_bridge, clientVars
<1>16. ASSUME NEW v \in Visitors, VisitorEof(v) PROVE ClientKeepsEnds'
    BY Zenon, <1>15, <1>16 DEF VisitorEof
<1>17. ASSUME NEW d \in DataChannels, DataEof(d) PROVE ClientKeepsEnds'
    BY Zenon, <1>15, <1>17 DEF DataEof
<1>18. ASSUME NEW v \in Visitors, NEW d \in DataChannels,
              ForwardToClient(v, d) \/ ForwardToVisitor(v, d)
       PROVE  ClientKeepsEnds'
    BY Zenon, <1>4, <1>15, <1>18, ForwardFacts DEF Dies, clientVars
<1>19. ASSUME NEW j \in Controls, NEW eof \in BOOLEAN,
              UNCHANGED <<sc_map_, sconn, client, clientStarts>>,
              cconn' = [cconn EXCEPT ![j] = IF eof THEN "closed" ELSE "established"],
              eof => sconn[j] = "dead",
              \A d \in DataChannels : KeepsData(d)'
       PROVE  ClientKeepsEnds'
    <2>1. ASSUME NEW k \in Controls PROVE KeepsControl(k)'
        BY Zenon, <1>0, <1>19 DEF TypeOK, KeepsControl, ClientReceives
    <2> QED BY Zenon, <1>1, <1>19, <2>1
<1>20. ASSUME NEW k \in Controls, NEW n \in 0..MaxBatch, NEW eof \in BOOLEAN,
              ReadEof(k, n, eof)
       PROVE  ClientKeepsEnds'
    <2>1. input_buffer[k] \in Nat /\ n \in Nat
        BY TunnelAssumption DEF TypeOK
    <2>2. eof /\ sconn[k] = "dead"
        BY <1>20, <2>1 DEF ReadEof, ReadEvent, Buffered
    <2> QED BY Zenon, <1>3, <1>19, <1>20, <2>2 DEF ReadEof, serverVars
<1>21. ASSUME NEW k \in Controls, NEW n \in 0..MaxBatch, NEW eof \in BOOLEAN,
              wait_control_channel_hello(k, n, eof)
       PROVE  ClientKeepsEnds'
    BY Zenon, <1>3, <1>19, <1>21 DEF wait_control_channel_hello, ReadEvent, TakeOne, serverVars
<1>22. ASSUME NEW k \in Controls, NEW n \in 0..MaxBatch, NEW eof \in BOOLEAN,
              wait_server_cmd(k, n, eof)
       PROVE  ClientKeepsEnds'
    <2>1. CASE ClientDies /\ UNCHANGED serverVars
        BY Zenon, <1>5, <1>22, <2>1 DEF wait_server_cmd, ReadEvent
    <2>2. CASE ~(ClientDies /\ UNCHANGED serverVars)
        <3>1. /\ handle_cmd_create_datachannel(k) /\ TakeOne(k, n, eof)
              /\ eof => sconn[k] = "dead"
              /\ UNCHANGED <<sc_map_, sconn, client, clientStarts>>
            BY Zenon, <1>22, <2>2 DEF wait_server_cmd, ReadEvent
        <3>2. PICK e \in DataChannels :
                  /\ dcli' = [dcli EXCEPT ![e] = "hello_sent"]
                  /\ dsrv' = [dsrv EXCEPT ![e] = "pending"]
            BY ONLY Zenon, <3>1 DEF handle_cmd_create_datachannel, do_data_channel_handshake,
                                    newConnection
        <3>3. ASSUME NEW d \in DataChannels PROVE KeepsData(d)'
            BY Zenon, <1>0, <3>1, <3>2 DEF TypeOK, KeepsData, ClientEnded
        <3> QED BY Zenon, <1>19, <3>1, <3>3 DEF TakeOne
    <2> QED BY Zenon, <2>1, <2>2
<1>23. ASSUME NEW e \in DataChannels, wait_data_channel_start_cmd(e) \/ delete_data_channel(e)
       PROVE  ClientKeepsEnds'
    <2>1. client = "up" /\ UNCHANGED serverVars
        BY Zenon, <1>23 DEF wait_data_channel_start_cmd, delete_data_channel
    <2>2. CASE ClientDies
        BY Zenon, <1>5, <2>1, <2>2
    <2>3. CASE ~ClientDies
        <3>1. /\ UNCHANGED <<client, clientStarts, cconn>>
              /\ \/ dcli' = [dcli EXCEPT ![e] = "started"]
                 \/ dcli' = [dcli EXCEPT ![e] = "gone"] /\ dsrv[e] \in {"cut", "dead"}
            BY Zenon, <1>23, <2>3 DEF wait_data_channel_start_cmd, delete_data_channel
        <3>2. ASSUME NEW d \in DataChannels PROVE KeepsData(d)'
            BY Zenon, <1>0, <2>1, <3>1 DEF TypeOK, KeepsData, ClientEnded, serverVars
        <3> QED BY Zenon, <1>1, <1>2, <2>1, <3>1, <3>2 DEF serverVars
    <2> QED BY Zenon, <2>2, <2>3
<1> QED BY <1>6, <1>7, <1>8, <1>9, <1>10, <1>12, <1>13, <1>14, <1>16, <1>17, <1>18,
           <1>20, <1>21, <1>22, <1>23 DEF Next, ReadControl

\* Why a server dies, step by step.
LEMMA DeathInduction ==
    ASSUME TypeOK, Pairing, PendingMade, FirstServer, ClientKeepsEnds, NeverPopsEmpty',
           DeathHasCause, [Next]_vars
    PROVE  DeathHasCause'
<1>0. serverStarts \in Nat /\ serverStarts >= 1 /\ clientStarts \in Nat
    BY TunnelAssumption DEF TypeOK, FirstServer
<1>1. ASSUME UNCHANGED <<died, serverStarts, proxy_port, clientStarts>>,
             client' = client \/ client' = "down"
      PROVE  DeathHasCause'
    BY Zenon, <1>1 DEF DeathHasCause, PortsClash
<1>2. ASSUME UNCHANGED serverVars, ClientDies PROVE DeathHasCause'
    BY Zenon, <1>1, <1>2 DEF ClientDies, serverVars
<1>3. ASSUME UNCHANGED <<serverStarts, proxy_port, client, clientStarts>>,
             \/ died' \in {"no", "killed", "visitor"}
             \/ died' = "nonce" /\ serverStarts > 1
             \/ died' = "bind" /\ (clientStarts > 1 \/ PortsClash)
             \/ died' = "sigpipe" /\ (clientStarts > 1 \/ client = "down")
      PROVE  DeathHasCause'
    BY Zenon, <1>3 DEF DeathHasCause, NeverPopsEmpty, PortsClash
<1>4. CASE ServerExits
    BY Zenon, <1>3, <1>4 DEF ServerExits, ServerDies, clientVars
<1>5. CASE ServerStarts \/ ClientStarts
    <2>1. died' = "no"
        BY Zenon, <1>5 DEF ServerStarts, ClientStarts, Connects, FirstServer
    <2> QED BY Zenon, <2>1 DEF DeathHasCause
<1>6. CASE ClientExits
    BY Zenon, <1>2, <1>6 DEF ClientExits
<1>7. ASSUME NEW k \in Controls, handle_control_channel_hello(k) PROVE DeathHasCause'
    <2>1. UNCHANGED <<proxy_port, client, clientStarts, serverStarts>> /\ sconn[k] = "pending"
        BY Zenon, <1>7 DEF handle_control_channel_hello, ServerDies
    <2>2. CASE CanBind(k)
        BY Zenon, <1>1, <1>7, <2>1, <2>2 DEF handle_control_channel_hello
    <2>3. CASE ~CanBind(k)
        <3>1. died' = "bind"
            BY Zenon, <1>7, <2>3 DEF handle_control_channel_hello, ServerDies
        <3> QED BY Zenon, <1>3, <2>1, <2>3, <3>1, BindFails
    <2> QED BY Zenon, <2>2, <2>3
<1>8. ASSUME NEW k \in Controls, ControlEof(k) PROVE DeathHasCause'
    BY Zenon, <1>1, <1>8 DEF ControlEof, clientVars
<1>9. ASSUME NEW k \in Controls, NEW v \in Visitors, handle_new_outside_connection(v, k)
      PROVE  DeathHasCause'
    <2>1. UNCHANGED <<proxy_port, client, clientStarts, serverStarts>> /\ k \in sc_map_
        BY Zenon, <1>9 DEF handle_new_outside_connection, ServerDies
    <2>2. CASE died' = died
        BY Zenon, <1>1, <2>1, <2>2
    <2>3. CASE died' # died
        <3>1. died' = "sigpipe" /\ ~ClientReceives(k)
            BY Zenon, <1>9, <2>3 DEF handle_new_outside_connection, ServerDies
        <3> QED BY Zenon, <1>3, <2>1, <3>1, SilentOnlyIfEnded
    <2> QED BY Zenon, <2>2, <2>3
<1>10. ASSUME NEW d \in DataChannels, dcli[d] = "gone", dsrv[d] \in {"pending", "bridged"}
       PROVE  clientStarts > 1 \/ client = "down"
    BY Zenon, <1>10 DEF ClientKeepsEnds, KeepsData, ClientEnded
<1>11. ASSUME NEW d \in DataChannels, handle_data_channel_hello(d) PROVE DeathHasCause'
    <2>1. /\ UNCHANGED <<proxy_port, client, clientStarts, serverStarts>>
          /\ server = "up" /\ dsrv[d] = "pending"
        BY Zenon, <1>11 DEF handle_data_channel_hello, ServerDies, clientVars
    <2>2. CASE died' = died
        BY Zenon, <1>1, <2>1, <2>2
    <2>3. CASE died' # died
        <3>1. \/ died' = "nonce" /\ nonce_[d] \notin sc_map_
              \/ died' = "sigpipe" /\ dcli[d] = "gone"
            BY Zenon, <1>11, <2>3 DEF handle_data_channel_hello, ServerDies, NeverPopsEmpty
        <3>2. CASE died' = "nonce" /\ nonce_[d] \notin sc_map_
            <4>1. serverStarts # 1
                BY Zenon, <2>1, <3>2, FirstNonceKnown
            <4>2. serverStarts > 1
                BY ONLY <1>0, <4>1
            <4> QED BY Zenon, <1>3, <2>1, <3>2, <4>2
        <3>3. CASE died' = "sigpipe" /\ dcli[d] = "gone"
            BY Zenon, <1>3, <1>10, <2>1, <3>3
        <3> QED BY Zenon, <3>1, <3>2, <3>3
    <2> QED BY Zenon, <2>2, <2>3
<1>12. ASSUME NEW ends, cut_off_bridge(ends), UNCHANGED clientVars PROVE DeathHasCause'
    BY Zenon, <1>1, <1>12 DEF cut_off_bridge, clientVars
<1>13. ASSUME NEW v \in Visitors, VisitorEof(v) PROVE DeathHasCause'
    BY Zenon, <1>12, <1>13 DEF VisitorEof
<1>14. ASSUME NEW d \in DataChannels, DataEof(d) PROVE DeathHasCause'
    BY Zenon, <1>12, <1>14 DEF DataEof
<1>15. ASSUME NEW v \in Visitors, NEW d \in DataChannels, ForwardToClient(v, d)
       PROVE  DeathHasCause'
    <2>1. /\ dcli[d] = "gone" /\ dsrv[d] = "bridged" /\ UNCHANGED clientVars
          /\ cut_off_bridge({d}) \/ ServerDies("sigpipe")
        BY Zenon, <1>15 DEF ForwardToClient, WriteFails
    <2>2. CASE ServerDies("sigpipe")
        BY Zenon, <1>3, <1>10, <2>1, <2>2 DEF ServerDies, clientVars
    <2> QED BY Zenon, <1>12, <2>1, <2>2
<1>16. ASSUME NEW v \in Visitors, NEW d \in DataChannels, ForwardToVisitor(v, d)
       PROVE  DeathHasCause'
    <2>1. UNCHANGED clientVars /\ (cut_off_bridge({v}) \/ ServerDies("visitor"))
        BY Zenon, <1>16 DEF ForwardToVisitor, WriteFails
    <2>2. CASE ServerDies("visitor")
        BY Zenon, <1>3, <2>1, <2>2 DEF ServerDies, clientVars
    <2> QED BY Zenon, <1>12, <2>1, <2>2
<1>17. ASSUME NEW k \in Controls, NEW n \in 0..MaxBatch, NEW eof \in BOOLEAN,
              ReadEof(k, n, eof) \/ wait_control_channel_hello(k, n, eof)
       PROVE  DeathHasCause'
    BY Zenon, <1>1, <1>17 DEF ReadEof, wait_control_channel_hello, serverVars
<1>18. ASSUME NEW k \in Controls, NEW n \in 0..MaxBatch, NEW eof \in BOOLEAN,
              wait_server_cmd(k, n, eof)
       PROVE  DeathHasCause'
    BY Zenon, <1>1, <1>2, <1>18 DEF wait_server_cmd
<1>19. ASSUME NEW d \in DataChannels, wait_data_channel_start_cmd(d) \/ delete_data_channel(d)
       PROVE  DeathHasCause'
    BY Zenon, <1>1, <1>2, <1>19 DEF wait_data_channel_start_cmd, delete_data_channel, serverVars
<1>20. CASE UNCHANGED vars
    BY Zenon, <1>1, <1>20 DEF vars, serverVars, clientVars
<1> QED BY <1>4, <1>5, <1>6, <1>7, <1>8, <1>9, <1>11, <1>13, <1>14, <1>15, <1>16,
           <1>17, <1>18, <1>19, <1>20 DEF Next, ReadControl

\* For any files, faults, orders and numbers of restarts the server dies of its own
\* only for a cause outside it: an unknown nonce needs an earlier server, a port
\* that cannot be bound an earlier client or a file that names it twice or one in
\* use, a broken pipe a visitor that left or a client that ended; and no order of
\* visits, hellos and losses makes it pop an empty queue.
THEOREM DeathsHaveCauses == Spec => []DeathHasCause
<1>1. Init => FirstServer /\ ClientKeepsEnds /\ DeathHasCause
    <2> SUFFICES ASSUME Init PROVE FirstServer /\ ClientKeepsEnds /\ DeathHasCause
        BY Zenon
    <2>1. FirstServer /\ DeathHasCause
        BY DEF Init, FirstServer, DeathHasCause, NeverPopsEmpty
    <2>2. ClientKeepsEnds
        BY Zenon DEF Init, ClientKeepsEnds, KeepsControl, KeepsData
    <2> QED BY Zenon, <2>1, <2>2
<1>2. Spec => []FirstServer
    BY <1>1, TypeCorrect, FirstServerInduction, PTL DEF Spec
<1>3. Spec => []ClientKeepsEnds
    BY <1>1, TypeCorrect, ClientEndsInduction, PTL DEF Spec
<1>4. TypeOK /\ Pairing /\ PendingMade /\ FirstServer /\ ClientKeepsEnds /\ NeverPopsEmpty'
          /\ DeathHasCause /\ [Next]_vars => DeathHasCause'
    BY Zenon, DeathInduction
<1> QED BY <1>1, <1>2, <1>3, <1>4, TypeCorrect, PairingHolds, PendingAreMade,
           QueueNeverEmptyOnPop, PTL DEF Spec

\* A data channel the client has not made is known to nobody.
UnmadeUnknown ==
    \A d \in DataChannels : dcli[d] = "none" => dsrv[d] = "none" /\ nonce_[d] = None

\* The server meets a data channel, and a nonce is given to it, only after the
\* client has made it.
LEMMA UnmadeAreUnknown == Spec => []UnmadeUnknown
<1>1. Init => UnmadeUnknown
    BY Zenon DEF Init, UnmadeUnknown
<1>2. TypeOK /\ PendingMade /\ Places /\ UnmadeUnknown /\ [Next]_vars => UnmadeUnknown'
    <2> SUFFICES ASSUME TypeOK, PendingMade, Places, UnmadeUnknown, [Next]_vars
                 PROVE  UnmadeUnknown'
        BY Zenon
    <2>1. ASSUME UNCHANGED nonce_,
                 \A d \in DataChannels : dcli'[d] = "none" => dcli[d] = "none",
                 \A d \in DataChannels : dcli[d] = "none" => dsrv'[d] = dsrv[d]
          PROVE  UnmadeUnknown'
        BY Zenon, <2>1 DEF UnmadeUnknown
    <2>2. ASSUME NEW why, ServerDies(why), UNCHANGED <<dcli, nonce_>> PROVE UnmadeUnknown'
        <3>1. \A d \in DataChannels : dsrv[d] = "none" => dsrv'[d] = "none"
            BY Zenon, <2>2 DEF ServerDies
        <3> QED BY Zenon, <2>2, <3>1 DEF UnmadeUnknown
    <2>3. ASSUME ClientDies, UNCHANGED serverVars PROVE UnmadeUnknown'
        BY Zenon, <2>1, <2>3 DEF ClientDies, serverVars
    <2>4. CASE ServerExits
        BY Zenon, <2>2, <2>4 DEF ServerExits, clientVars
    <2>5. CASE ServerStarts \/ ClientStarts \/ UNCHANGED vars
        BY Zenon, <2>1, <2>5 DEF ServerStarts, ClientStarts, vars, serverVars, clientVars
    <2>6. CASE ClientExits
        BY Zenon, <2>3, <2>6 DEF ClientExits
    <2>7. ASSUME NEW k \in Controls, handle_control_channel_hello(k) \/ ControlEof(k)
          PROVE  UnmadeUnknown'
        BY Zenon, <2>1, <2>2, <2>7 DEF handle_control_channel_hello, ControlEof, clientVars
    <2>8. ASSUME NEW k \in Controls, NEW v \in Visitors, handle_new_outside_connection(v, k)
          PROVE  UnmadeUnknown'
        BY Zenon, <2>1, <2>2, <2>8 DEF handle_new_outside_connection
    <2>9. ASSUME NEW e \in DataChannels, handle_data_channel_hello(e) PROVE UnmadeUnknown'
        <3>1. UNCHANGED <<dcli, nonce_>> /\ dcli[e] # "none"
            BY Zenon, <2>9 DEF handle_data_channel_hello, clientVars, PendingMade
        <3>2. CASE Dies
            BY Zenon, <2>2, <3>1, <3>2 DEF Dies
        <3>3. CASE dsrv' \in {[dsrv EXCEPT ![e] = "bridged"], [dsrv EXCEPT ![e] = "cut"]}
            BY Zenon, <2>1, <3>1, <3>3 DEF TypeOK
        <3> QED BY Zenon, <2>9, <3>2, <3>3 DEF handle_data_channel_hello, Dies
    <2>10. ASSUME NEW ends, cut_off_bridge(ends), UNCHANGED clientVars,
                  \A d \in DataChannels \cap ends : dsrv[d] = "bridged"
           PROVE UnmadeUnknown'
        <3>1. \A b \in bridge_closers_ : dcli[b[2]] # "none"
            BY Zenon DEF Places, BridgeSound
        <3>2. \A d \in DataChannels : dcli[d] = "none" => d \notin ends
            BY Zenon, <2>10 DEF UnmadeUnknown
        <3>3. \A d \in DataChannels : dcli[d] = "none" => dsrv'[d] = dsrv[d]
            BY Zenon, <2>10, <3>1, <3>2 DEF cut_off_bridge, BridgesOf
        <3> QED BY Zenon, <2>1, <2>10, <3>3 DEF clientVars
    <2>11. ASSUME NEW v \in Visitors, VisitorEof(v) PROVE UnmadeUnknown'
        BY Zenon, <2>10, <2>11, TunnelAssumption DEF VisitorEof
    <2>12. ASSUME NEW d \in DataChannels, DataEof(d) PROVE UnmadeUnknown'
        BY Zenon, <2>10, <2>12 DEF DataEof
    <2>16. ASSUME NEW v \in Visitors, NEW d \in DataChannels,
                  ForwardToClient(v, d) \/ ForwardToVisitor(v, d)
           PROVE  UnmadeUnknown'
        <3>1. /\ dsrv[d] = "bridged" /\ UNCHANGED clientVars
              /\ Dies \/ cut_off_bridge({v}) \/ cut_off_bridge({d})
            BY Zenon, <2>16, ForwardFacts
        <3>2. CASE Dies
            BY Zenon, <2>2, <3>1, <3>2 DEF Dies, clientVars
        <3>3. CASE cut_off_bridge({v})
            BY Zenon, <2>10, <3>1, <3>3, TunnelAssumption
        <3>4. CASE cut_off_bridge({d})
            BY Zenon, <2>10, <3>1, <3>4
        <3> QED BY Zenon, <3>1, <3>2, <3>3, <3>4
    <2>13. ASSUME NEW k \in Controls, NEW n \in 0..MaxBatch, NEW eof \in BOOLEAN,
                  ReadEof(k, n, eof) \/ wait_control_channel_hello(k, n, eof)
           PROVE  UnmadeUnknown'
        BY Zenon, <2>1, <2>13 DEF ReadEof, wait_control_channel_hello, serverVars
    <2>14. ASSUME NEW k \in Controls, NEW n \in 0..MaxBatch, NEW eof \in BOOLEAN,
                  wait_server_cmd(k, n, eof)
           PROVE  UnmadeUnknown'
        <3>1. CASE ClientDies /\ UNCHANGED serverVars
            BY Zenon, <2>3, <3>1
        <3>2. CASE handle_cmd_create_datachannel(k)
            BY <3>2 DEF handle_cmd_create_datachannel, do_data_channel_handshake,
                        newConnection, UnmadeUnknown, TypeOK
        <3> QED BY Zenon, <2>14, <3>1, <3>2 DEF wait_server_cmd
    <2>15. ASSUME NEW d \in DataChannels,
                  wait_data_channel_start_cmd(d) \/ delete_data_channel(d)
           PROVE  UnmadeUnknown'
        <3>1. CASE ClientDies /\ UNCHANGED serverVars
            BY Zenon, <2>3, <3>1
        <3>2. CASE /\ dcli' \in {[dcli EXCEPT ![d] = "started"], [dcli EXCEPT ![d] = "gone"]}
                   /\ UNCHANGED nonce_ /\ UNCHANGED serverVars
            BY Zenon, <2>1, <3>2 DEF serverVars, TypeOK
        <3> QED BY Zenon, <2>15, <3>1, <3>2 DEF wait_data_channel_start_cmd, delete_data_channel
    <2> QED BY SMTT(20), <2>4, <2>5, <2>6, <2>7, <2>8, <2>9, <2>11, <2>12, <2>13, <2>14, <2>15,
               <2>16
            DEF Next, ReadControl
<1> QED BY <1>1, <1>2, TypeCorrect, PendingAreMade, PlacesHold, PTL DEF Spec

-----------------------------------------------------------------------------

\* The data channels that were given a visitor.
Carrying == {d \in DataChannels : dsrv[d] \in {"bridged", "cut"}}

\* A step of either process that no visitor sees.
DeskUnchanged ==
    UNCHANGED <<wait_handle_visitors_, visitor, nonce_, Carrying, bridge_closers_>>

\* The end of the server process closes the desk.
LEMMA ServerDiesDesk ==
    ASSUME NEW why, TypeOK, ServerDies(why), UNCHANGED nonce_
    PROVE  Desk!Next
<1>1. Carrying' = Carrying
    BY Zenon DEF ServerDies, Carrying
<1> QED BY Zenon, <1>1 DEF ServerDies, Carrying, Desk!Next, Desk!Close

\* The end of a bridge or of a visitor, by the close of one of its ends.
LEMMA CutDesk ==
    ASSUME TypeOK, Places, NEW x \in Visitors \cup DataChannels, cut_off_bridge({x}),
           x \in Visitors => visitor[x] = "open",
           x \in DataChannels => dsrv[x] = "bridged",
           UNCHANGED nonce_
    PROVE  Desk!Next \/ DeskUnchanged
<1>1. /\ bridge_closers_' = bridge_closers_ \ BridgesOf({x})
      /\ visitor' = [v \in Visitors |->
                          IF v = x \/ \E b \in BridgesOf({x}) : b[1] = v
                          THEN "closed" ELSE visitor[v]]
      /\ dsrv' = [d \in DataChannels |->
                       IF d = x \/ \E b \in BridgesOf({x}) : b[2] = d
                       THEN "cut" ELSE dsrv[d]]
      /\ UNCHANGED <<wait_handle_visitors_, nonce_>>
    BY Zenon DEF cut_off_bridge
<1>2. BridgesOf({x}) = {b \in bridge_closers_ : b[1] = x \/ b[2] = x}
    BY Zenon DEF BridgesOf
<1>3. \A b \in bridge_closers_ :
         b[1] \in Visitors /\ b[2] \in DataChannels /\ dsrv[b[2]] \in {"bridged", "cut"}
    BY Zenon DEF TypeOK, Places, BridgeSound
<1>4. Carrying' = Carrying
    BY Zenon, <1>1, <1>2, <1>3 DEF Carrying
<1>5. \A a, b \in BridgesOf({x}) : a = b
    BY Zenon, <1>2, <1>3, TunnelAssumption DEF Places, BridgesApart
<1>6. CASE BridgesOf({x}) = {}
    <2>1. bridge_closers_' = bridge_closers_
        BY Zenon, <1>1, <1>6
    <2>2. CASE x \in Visitors
        <3>1. visitor' = [visitor EXCEPT ![x] = "closed"]
            BY Zenon, <1>1, <1>6, <2>2 DEF TypeOK
        <3>2. \A p \in bridge_closers_ : p[1] # x
            BY Zenon, <1>2, <1>6
        <3>3. Desk!WalkOff(x)
            BY Zenon, <1>1, <1>4, <2>1, <2>2, <3>1, <3>2 DEF Desk!WalkOff, Carrying
        <3> QED BY Zenon, <2>2, <3>3 DEF Desk!Next
    <2>3. CASE x \notin Visitors
        <3>1. visitor' = visitor
            BY Zenon, <1>1, <1>6, <2>3 DEF TypeOK
        <3> QED BY Zenon, <1>1, <1>4, <2>1, <3>1 DEF DeskUnchanged
    <2> QED BY Zenon, <2>2, <2>3
<1>7. CASE BridgesOf({x}) # {}
    <2>1. PICK p \in BridgesOf({x}) : TRUE
        BY Zenon, <1>7
    <2>2. BridgesOf({x}) = {p} /\ p \in bridge_closers_
        BY Zenon, <1>2, <1>5, <2>1
    <2>3. p[1] \in Visitors /\ p[2] \in DataChannels /\ (p[1] = x \/ p[2] = x)
        BY Zenon, <1>2, <1>3, <2>1
    <2>4. visitor' = [visitor EXCEPT ![p[1]] = "closed"]
        BY Zenon, <1>1, <2>2, <2>3, TunnelAssumption DEF TypeOK
    <2>5. Desk!Part(p)
        BY Zenon, <1>1, <1>4, <2>2, <2>4 DEF Desk!Part, Carrying
    <2> QED BY ZenonT(40), <2>2, <2>5 DEF Desk!Next
<1> QED BY Zenon, <1>6, <1>7

\* Every step of the two processes is a step of the desk, or none.
LEMMA DeskSimulation ==
    TypeOK /\ Pairing /\ PendingMade /\ Places /\ UnmadeUnknown /\ [Next]_vars
        => [Desk!Next]_(Desk!vars)
<1> SUFFICES ASSUME TypeOK, Pairing, PendingMade, Places, UnmadeUnknown, [Next]_vars
             PROVE  Desk!Next \/ DeskUnchanged
    BY Zenon DEF DeskUnchanged, Carrying, Desk!vars
<1>1. ASSUME UNCHANGED <<wait_handle_visitors_, visitor, nonce_, dsrv, bridge_closers_>>
      PROVE  DeskUnchanged
    BY Zenon, <1>1 DEF DeskUnchanged, Carrying
<1>2. ASSUME ClientDies, UNCHANGED serverVars PROVE DeskUnchanged
    BY Zenon, <1>1, <1>2 DEF ClientDies, serverVars
<1>3. CASE ServerExits
    BY Zenon, <1>3, ServerDiesDesk DEF ServerExits, clientVars
<1>4. CASE ServerStarts \/ ClientStarts \/ UNCHANGED vars
    BY Zenon, <1>1, <1>4 DEF ServerStarts, ClientStarts, vars, serverVars, clientVars
<1>5. CASE ClientExits
    BY Zenon, <1>2, <1>5 DEF ClientExits
<1>6. ASSUME NEW k \in Controls, handle_control_channel_hello(k) \/ ControlEof(k)
      PROVE  Desk!Next \/ DeskUnchanged
    BY Zenon, <1>1, <1>6, ServerDiesDesk DEF handle_control_channel_hello, ControlEof, clientVars
<1>7. ASSUME NEW k \in Controls, NEW v \in Visitors, handle_new_outside_connection(v, k)
      PROVE  Desk!Next
    <2>1. CASE ServerDies("sigpipe")
        BY Zenon, <1>7, <2>1, ServerDiesDesk DEF handle_new_outside_connection
    <2>2. CASE ~ServerDies("sigpipe")
        <3>1. /\ visitor[v] = "new" /\ Enqueue(v, k)
              /\ UNCHANGED <<bridge_closers_, dsrv, nonce_>>
            BY Zenon, <1>7, <2>2 DEF handle_new_outside_connection
        <3>2. Carrying' = Carrying
            BY Zenon, <3>1 DEF Carrying
        <3>3. Desk!Come(v, k)
            BY Zenon, <3>1, <3>2 DEF Enqueue, newConnectionHandle, Desk!Come, Carrying
        <3> QED BY Zenon, <3>3 DEF Desk!Next
    <2> QED BY Zenon, <2>1, <2>2
<1>8. ASSUME NEW d \in DataChannels, handle_data_channel_hello(d) PROVE Desk!Next
    <2>1. CASE Dies
        BY Zenon, <1>8, <2>1, ServerDiesDesk DEF handle_data_channel_hello, clientVars, Dies
    <2>2. CASE ~Dies
        <3>1. /\ dsrv[d] = "pending" /\ nonce_[d] \in sc_map_
              /\ wait_handle_visitors_[nonce_[d]] # <<>>
              /\ pop_visitor(nonce_[d])
              /\ bridge_closers_' = bridge_closers_
                     \cup {<<Head(wait_handle_visitors_[nonce_[d]]), d>>}
              /\ dsrv' \in {[dsrv EXCEPT ![d] = "bridged"], [dsrv EXCEPT ![d] = "cut"]}
              /\ UNCHANGED <<visitor, nonce_>>
            BY ZenonT(40), <1>8, <2>2 DEF handle_data_channel_hello, clientVars, Dies
        <3>2. nonce_[d] \in Controls
            BY Zenon, <3>1 DEF TypeOK
        <3>3. d \notin Carrying /\ Carrying' = Carrying \cup {d}
            BY <3>1 DEF Carrying, TypeOK
        <3>4. Desk!Take(d)
            BY Zenon, <3>1, <3>2, <3>3 DEF pop_visitor, Desk!Take, Carrying
        <3> QED BY Zenon, <3>4 DEF Desk!Next
    <2> QED BY Zenon, <2>1, <2>2
<1>9. ASSUME NEW v \in Visitors, VisitorEof(v) PROVE Desk!Next \/ DeskUnchanged
    BY Zenon, <1>9, CutDesk, TunnelAssumption DEF VisitorEof, clientVars
<1>10. ASSUME NEW d \in DataChannels, DataEof(d) PROVE Desk!Next \/ DeskUnchanged
    BY Zenon, <1>10, CutDesk, TunnelAssumption DEF DataEof, clientVars
<1>14. ASSUME NEW v \in Visitors, NEW d \in DataChannels,
              ForwardToClient(v, d) \/ ForwardToVisitor(v, d)
       PROVE  Desk!Next \/ DeskUnchanged
    <2>1. /\ visitor[v] = "open" /\ dsrv[d] = "bridged" /\ UNCHANGED clientVars
          /\ Dies \/ cut_off_bridge({v}) \/ cut_off_bridge({d})
        BY Zenon, <1>14, ForwardFacts
    <2>2. CASE Dies
        BY Zenon, <2>1, <2>2, ServerDiesDesk DEF Dies, clientVars
    <2>3. v \notin DataChannels /\ d \notin Visitors /\ UNCHANGED nonce_
        BY Zenon, <2>1, TunnelAssumption DEF clientVars
    <2> QED BY Zenon, <2>1, <2>2, <2>3, CutDesk
<1>11. ASSUME NEW k \in Controls, NEW n \in 0..MaxBatch, NEW eof \in BOOLEAN,
              ReadEof(k, n, eof) \/ wait_control_channel_hello(k, n, eof)
       PROVE  DeskUnchanged
    BY Zenon, <1>1, <1>11 DEF ReadEof, wait_control_channel_hello, serverVars
<1>12. ASSUME NEW k \in Controls, NEW n \in 0..MaxBatch, NEW eof \in BOOLEAN,
              wait_server_cmd(k, n, eof)
       PROVE  Desk!Next \/ DeskUnchanged
    <2>1. CASE ClientDies /\ UNCHANGED serverVars
        BY Zenon, <1>2, <2>1
    <2>2. CASE ~(ClientDies /\ UNCHANGED serverVars)
        <3>1. /\ handle_cmd_create_datachannel(k)
              /\ UNCHANGED <<wait_handle_visitors_, visitor, bridge_closers_>>
            BY Zenon, <1>12, <2>2 DEF wait_server_cmd
        <3>2. PICK d \in DataChannels :
                  /\ dcli[d] = "none"
                  /\ dsrv' = [dsrv EXCEPT ![d] = "pending"]
                  /\ nonce_' = [nonce_ EXCEPT ![d] = k]
            BY ONLY Zenon, <3>1 DEF handle_cmd_create_datachannel, do_data_channel_handshake,
                                    newConnection
        <3>3. dsrv[d] = "none" /\ nonce_[d] = None
            BY Zenon, <3>2 DEF UnmadeUnknown
        <3>4. Carrying' = Carrying
            BY Zenon, <3>2, <3>3 DEF Carrying, TypeOK
        <3>5. Desk!Call(d, k)
            BY Zenon, <3>1, <3>2, <3>3, <3>4 DEF Desk!Call, Carrying
        <3> QED BY Zenon, <3>5 DEF Desk!Next
    <2> QED BY Zenon, <2>1, <2>2
<1>13. ASSUME NEW d \in DataChannels,
              wait_data_channel_start_cmd(d) \/ delete_data_channel(d)
       PROVE  DeskUnchanged
    BY Zenon, <1>1, <1>2, <1>13 DEF wait_data_channel_start_cmd, delete_data_channel, serverVars
<1> QED BY SMTT(20), <1>3, <1>4, <1>5, <1>6, <1>7, <1>8, <1>9, <1>10, <1>11, <1>12,
           <1>13, <1>14
        DEF Next, ReadControl

\* The tunnel implements the desk: visitors are served in the order they came to
\* a port, once, by data channels of that port that carry no other, for any
\* number of services, visitors, restarts and faults.
THEOREM TunnelServesInTurn == Spec => ServesInTurn
<1>1. Init => Desk!Init
    BY Zenon DEF Init, Desk!Init
<1> QED BY <1>1, DeskSimulation, TypeCorrect, PairingHolds, PendingAreMade, PlacesHold,
           UnmadeAreUnknown, PTL DEF Spec, ServesInTurn, Desk!Spec

=============================================================================
