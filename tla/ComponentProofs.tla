-------------------------- MODULE ComponentProofs ---------------------------
(***************************************************************************)
(* The components that need no other, for every size, bound, set of files    *)
(* and answers, timeout, and number of channels and descriptors.             *)
(*                                                                           *)
(* The data channels of ncxc: it leaks no descriptor, and the channels keep  *)
(* their files and stay out of one another's, but for the deletion of a      *)
(* channel whose service closed first. How ncxc comes up: it offers all the  *)
(* services of its source or none, a session that fails starts no client,    *)
(* and the gateway cannot hold it longer than two timeouts.                  *)
(*                                                                           *)
(* The buffer: its indexes stay in order, its memory is bounded and it is a  *)
(* queue of bytes.                                                           *)
(***************************************************************************)
EXTENDS Buffer, Startup, DataChannels, SequenceTheorems, TLAPS

-----------------------------------------------------------------------------
(* The data channels.                                                      *)

\* What a channel's numbers are: those of its TcpSockets, the same in its
\* Connections; a channel whose service closed has no service Connection.
NumbersSound ==
    \A c \in Channels :
        /\ Live(c) => /\ \A s \in Sides : sock[c][s] \in Fds
                      /\ conn[c]["server"] = sock[c]["server"]
                      /\ conn[c]["service"] \in {0, sock[c]["service"]}
        /\ phase[c] \in {"none", "waiting"} => conn[c]["service"] = 0
        /\ c \in ended => phase[c] \in {"forwarding", "deleted"} /\ conn[c]["service"] = 0

\* The inductive invariant. FilesIntact is not inductive by itself: that a deletion
\* spares the others needs that a file is at its owner's number only (NoLeak).
Inv == TypeOK /\ NumbersSound /\ NoLeak /\ FilesIntact /\ NoCrossTalk

\* A file tells its channel and its side.
LEMMA FileNames ==
    ASSUME NEW b \in Channels, NEW c \in Channels, NEW s \in Sides, NEW t \in Sides
    PROVE  /\ FileOf(b, s) \in Files
           /\ FileOf(b, s) # NULL
           /\ FileOf(b, s).chan = b /\ FileOf(b, s).side = s
           /\ FileOf(b, s) = FileOf(c, t) => b = c /\ s = t
  BY DataChannelsAssumption DEF FileOf, Files, Sides

\* The initial state satisfies the invariant: no channel, no file.
LEMMA InitInv == Init => Inv
<1> SUFFICES ASSUME Init PROVE Inv
  BY Zenon
<1>1. TypeOK
  BY Zenon DEF Init, TypeOK
<1>2. /\ \A d \in Fds : file[d] = NULL
      /\ \A c \in Channels : phase[c] = "none" /\ conn[c]["service"] = 0
      /\ ended = {} /\ crossed = {}
  BY Zenon DEF Init, Sides
<1>3. NumbersSound /\ NoLeak
  BY Zenon, <1>2 DEF NumbersSound, NoLeak, Live
<1>4. FilesIntact /\ NoCrossTalk
  BY Zenon, <1>2 DEF FilesIntact, NoCrossTalk, Live
<1> QED BY Zenon, <1>1, <1>3, <1>4 DEF Inv

\* A step that ends the process changes nothing else.
LEMMA DiesInv ==
    ASSUME Inv, NEW why \in {"full", "refused", "null", "deleted", "sigpipe"}, Dies(why)
    PROVE  Inv'
<1> USE DEF Inv, Dies
<1>1. TypeOK'
  BY Zenon DEF TypeOK
<1>2. NumbersSound' /\ NoLeak'
  BY Zenon DEF NumbersSound, NoLeak, Live
<1>3. FilesIntact' /\ NoCrossTalk'
  BY Zenon DEF FilesIntact, NoCrossTalk, LateDeletion, Owns, Live
<1> QED BY Zenon, <1>1, <1>2, <1>3

\* Creating a channel: its numbers were free, so no other channel's file moves.
LEMMA CreateInv ==
    ASSUME Inv, NEW c \in Channels, handle_cmd_create_datachannel(c)
    PROVE  Inv'
<1>1. CASE \E why \in {"refused", "full"} : Dies(why)
  BY Zenon, <1>1, DiesInv
<1>2. ASSUME NEW d \in Free, NEW e \in Free,
             LowestOf(d, Free), LowestOf(e, Free \ {d}),
             file' = [f \in Fds |-> IF f = d THEN FileOf(c, "server")
                                    ELSE IF f = e THEN FileOf(c, "service") ELSE file[f]],
             sock' = [sock EXCEPT ![c] = [s \in Sides |-> IF s = "server" THEN d ELSE e]],
             conn' = [conn EXCEPT ![c]["server"] = d],
             phase' = [phase EXCEPT ![c] = "waiting"],
             UNCHANGED <<hung, ended, crossed, dead>>
      PROVE  Inv'
  <2>0. /\ d \in Fds /\ e \in Fds /\ d # e
        /\ file[d] = NULL /\ file[e] = NULL
        /\ phase[c] = "none"
    BY Zenon, <1>2 DEF Free, LowestOf, handle_cmd_create_datachannel
  <2>1. TypeOK'
    BY Zenon, <1>2, <2>0, FileNames DEF Inv, TypeOK, Sides
  <2>2. c \notin ended /\ conn[c]["service"] = 0
    BY ZenonT(40), <2>0 DEF Inv, NumbersSound
  <2>3. NumbersSound'
    <3> SUFFICES ASSUME NEW b \in Channels
                 PROVE  /\ Live(b)' => /\ \A s \in Sides : sock'[b][s] \in Fds
                                       /\ conn'[b]["server"] = sock'[b]["server"]
                                       /\ conn'[b]["service"] \in {0, sock'[b]["service"]}
                        /\ phase'[b] \in {"none", "waiting"} => conn'[b]["service"] = 0
                        /\ b \in ended' => phase'[b] \in {"forwarding", "deleted"}
                                             /\ conn'[b]["service"] = 0
      BY Zenon DEF NumbersSound, Live
    <3>1. CASE b = c
      BY <3>1, <1>2, <2>0, <2>2 DEF Inv, TypeOK, Sides
    <3>2. CASE b # c
      BY Zenon, <3>2, <1>2 DEF Inv, TypeOK, NumbersSound, Live
    <3> QED BY ZenonT(40), <3>1, <3>2
  <2>4. NoLeak'
    <3> SUFFICES ASSUME NEW f \in Fds, file'[f] # NULL
                 PROVE  /\ phase'[file'[f].chan] \in {"waiting", "forwarding"}
                        /\ sock'[file'[f].chan][file'[f].side] = f
      BY Zenon DEF NoLeak, Live
    <3>1. CASE f = d
      BY <3>1, <1>2, <2>0, FileNames DEF Inv, TypeOK, Live, Sides
    <3>2. CASE f = e
      BY <3>2, <1>2, <2>0, FileNames DEF Inv, TypeOK, Live, Sides
    <3>3. CASE f # d /\ f # e
      <4>1. file'[f] = file[f] /\ file[f] \in Files
        BY Zenon, <3>3, <1>2 DEF Inv, TypeOK
      <4>2. Live(file[f].chan) /\ sock[file[f].chan][file[f].side] = f
        BY ZenonT(40), <4>1 DEF Inv, NoLeak
      <4>3. file[f].chan # c
        BY Zenon, <4>2, <2>0 DEF Live
      <4>4. file[f].chan \in Channels
        BY Zenon, <4>1 DEF Files
      <4> QED BY Zenon, <4>1, <4>2, <4>3, <4>4, <1>2 DEF Inv, TypeOK, Live
    <3> QED BY Zenon, <3>1, <3>2, <3>3
  <2>5. ASSUME NEW b \in Channels, LateDeletion(b)
        PROVE  LateDeletion(b)'
    BY Zenon, <2>5, <1>2, <2>0 DEF Inv, TypeOK, LateDeletion
  <2>6. FilesIntact'
    <3> SUFFICES ASSUME NEW b \in Channels, NEW s \in Sides, Live(b)'
                 PROVE  Owns(b, s)' \/ (s = "service" /\ b \in ended') \/ LateDeletion(b)'
      BY Zenon DEF FilesIntact
    <3>1. CASE b = c
      BY Zenon, <3>1, <1>2, <2>0 DEF Inv, TypeOK, Owns, Sides
    <3>2. CASE b # c
      <4>1. Live(b) /\ sock'[b] = sock[b]
        BY Zenon, <3>2, <1>2 DEF Inv, TypeOK, Live
      <4>2. Owns(b, s) => Owns(b, s)'
        BY <4>1, <1>2, <2>0, FileNames DEF Owns
      <4> QED BY Zenon, <4>1, <4>2, <2>5, <1>2 DEF Inv, FilesIntact
    <3> QED BY Zenon, <3>1, <3>2
  <2>7. NoCrossTalk'
    BY Zenon, <2>5, <1>2 DEF Inv, TypeOK, NoCrossTalk
  <2> QED BY Zenon, <2>1, <2>3, <2>4, <2>6, <2>7 DEF Inv
<1> QED BY <1>1, <1>2, Zenon DEF handle_cmd_create_datachannel, NoNumber, startInLoop

\* Connecting the service: the channel's own file, but for a late deletion.
LEMMA StartInv ==
    ASSUME Inv, NEW c \in Channels, do_data_channel_transforward(c)
    PROVE  Inv'
<1>1. CASE Dies("refused")
  BY Zenon, <1>1, DiesInv
<1>2. CASE /\ conn' = [conn EXCEPT ![c]["service"] = sock[c]["service"]]
           /\ phase' = [phase EXCEPT ![c] = "forwarding"]
           /\ crossed' = IF Owns(c, "service") THEN crossed ELSE crossed \cup {c}
           /\ UNCHANGED <<file, sock, hung, ended, dead>>
  <2>0. Live(c) /\ phase[c] = "waiting" /\ c \notin ended
    BY Zenon DEF do_data_channel_transforward, Event, Inv, NumbersSound
  <2>1. TypeOK'
    BY Zenon, <1>2 DEF Inv, TypeOK, Sides
  <2>2. NumbersSound'
    BY <1>2, <2>0 DEF Inv, TypeOK, NumbersSound, Live, Sides
  <2>3. NoLeak'
    BY <1>2, <2>0 DEF Inv, TypeOK, NoLeak, Live, Files
  <2>4. ASSUME NEW b \in Channels
        PROVE  /\ LateDeletion(b) => LateDeletion(b)'
               /\ Live(b)' => Live(b)
               /\ \A s \in Sides : Owns(b, s) => Owns(b, s)'
    BY Zenon, <1>2, <2>0 DEF Inv, TypeOK, LateDeletion, Live, Owns
  <2>5. FilesIntact'
    BY Zenon, <1>2, <2>4 DEF Inv, FilesIntact
  <2>6. Owns(c, "service") \/ LateDeletion(c)
    BY Zenon, <2>0 DEF Inv, FilesIntact, Sides
  <2>7. NoCrossTalk'
    BY Zenon, <1>2, <2>4, <2>6 DEF Inv, TypeOK, NoCrossTalk
  <2> QED BY Zenon, <2>1, <2>2, <2>3, <2>5, <2>7 DEF Inv
<1> QED BY Zenon, <1>1, <1>2 DEF do_data_channel_transforward, startInLoop

\* The end of the service's Connection: what it closes is the channel's own file,
\* or nothing.
LEMMA ServiceInv ==
    ASSUME Inv, NEW c \in Channels, Live(c), phase[c] = "forwarding",
           conn[c]["service"] # 0, service_removeConnection(c),
           file[conn[c]["service"]] \in {NULL, FileOf(c, "service")}
    PROVE  Inv'
<1>0. /\ conn[c]["service"] = sock[c]["service"] /\ sock[c]["service"] \in Fds
      /\ file' = [d \in Fds |-> IF d = sock[c]["service"] THEN NULL ELSE file[d]]
      /\ conn' = [conn EXCEPT ![c]["service"] = 0]
      /\ ended' = ended \cup {c}
      /\ UNCHANGED <<sock, phase, hung, crossed, dead>>
  BY Zenon DEF Inv, NumbersSound, Sides, service_removeConnection, Closed
<1>1. TypeOK'
  BY Zenon, <1>0 DEF Inv, TypeOK, Sides
<1>2. NumbersSound'
  BY <1>0 DEF Inv, TypeOK, NumbersSound, Live, Sides
<1>3. NoLeak'
  BY ZenonT(40), <1>0 DEF Inv, TypeOK, NoLeak, Live
<1>4. ASSUME NEW b \in Channels
      PROVE  (LateDeletion(b) => LateDeletion(b)') /\ (Live(b)' => Live(b))
  BY Zenon, <1>0 DEF Inv, TypeOK, LateDeletion, Live
<1>5. ASSUME NEW b \in Channels, NEW s \in Sides, Owns(b, s)
      PROVE  Owns(b, s)' \/ (s = "service" /\ b \in ended')
  BY <1>0, <1>5, FileNames DEF Owns, Sides
<1>6. FilesIntact'
  BY Zenon, <1>0, <1>4, <1>5 DEF Inv, FilesIntact
<1>7. NoCrossTalk'
  BY Zenon, <1>0, <1>4 DEF Inv, TypeOK, NoCrossTalk
<1> QED BY ZenonT(40), <1>1, <1>2, <1>3, <1>6, <1>7 DEF Inv

\* A deletion closes files of its own channel only, or is a late one, or comes
\* after a late one.
LEMMA DeleteInv ==
    ASSUME Inv, NEW c \in Channels, Live(c), delete_data_channel(c)
    PROVE  Inv'
<1>0. /\ sock[c]["server"] \in Fds /\ sock[c]["service"] \in Fds
      /\ file' = [d \in Fds |-> IF d \in {sock[c]["server"], sock[c]["service"]}
                                THEN NULL ELSE file[d]]
      /\ conn' = [conn EXCEPT ![c] = [s \in Sides |-> 0]]
      /\ phase' = [phase EXCEPT ![c] = "deleted"]
      /\ UNCHANGED <<sock, hung, ended, crossed, dead>>
  BY ZenonT(40) DEF Inv, NumbersSound, Sides, delete_data_channel, Closed, Numbers
<1>1. TypeOK'
  BY Zenon, <1>0 DEF Inv, TypeOK, Sides
<1>2. NumbersSound'
  <2> SUFFICES ASSUME NEW b \in Channels
               PROVE  /\ Live(b)' => /\ \A s \in Sides : sock'[b][s] \in Fds
                                     /\ conn'[b]["server"] = sock'[b]["server"]
                                     /\ conn'[b]["service"] \in {0, sock'[b]["service"]}
                      /\ phase'[b] \in {"none", "waiting"} => conn'[b]["service"] = 0
                      /\ b \in ended' => phase'[b] \in {"forwarding", "deleted"}
                                           /\ conn'[b]["service"] = 0
    BY ZenonT(40) DEF NumbersSound, Live
  <2>1. CASE b = c
    BY Zenon, <2>1, <1>0 DEF Inv, TypeOK, Live, Sides
  <2>2. CASE b # c
    BY Zenon, <2>2, <1>0 DEF Inv, TypeOK, NumbersSound, Live
  <2> QED BY ZenonT(40), <2>1, <2>2
<1>3. NoLeak'
  <2> SUFFICES ASSUME NEW d \in Fds, file'[d] # NULL
               PROVE  /\ phase'[file'[d].chan] \in {"waiting", "forwarding"}
                      /\ sock'[file'[d].chan][file'[d].side] = d
    BY ZenonT(40) DEF NoLeak, Live
  <2>1. /\ file'[d] = file[d] /\ file[d] \in Files
        /\ d # sock[c]["server"] /\ d # sock[c]["service"]
    BY Zenon, <1>0 DEF Inv, TypeOK
  <2>2. Live(file[d].chan) /\ sock[file[d].chan][file[d].side] = d
    BY ZenonT(40), <2>1 DEF Inv, NoLeak
  <2>3. file[d].chan \in Channels /\ file[d].side \in Sides
    BY ZenonT(40), <2>1 DEF Files
  <2>4. file[d].chan # c
    BY ZenonT(40), <2>1, <2>2, <2>3 DEF Sides
  <2> QED BY Zenon, <2>1, <2>2, <2>3, <2>4, <1>0 DEF Inv, TypeOK, Live
<1>4. ASSUME NEW b \in Channels, LateDeletion(b)
      PROVE  LateDeletion(b)'
  BY Zenon, <1>0, <1>4 DEF Inv, TypeOK, LateDeletion
<1>5. ASSUME NEW b \in Channels, NEW s \in Sides, Live(b)'
      PROVE  Owns(b, s)' \/ (s = "service" /\ b \in ended') \/ LateDeletion(b)'
  <2>1. b # c /\ Live(b)
    BY Zenon, <1>0, <1>5 DEF Inv, TypeOK, Live
  <2>2. CASE ~Owns(b, s)
    BY ZenonT(40), <2>1, <2>2, <1>0, <1>4 DEF Inv, FilesIntact
  <2>3. CASE Owns(b, s) /\ sock[b][s] \notin {sock[c]["server"], sock[c]["service"]}
    BY Zenon, <2>3, <1>0 DEF Owns
  <2>4. ASSUME Owns(b, s), NEW t \in Sides, sock[b][s] = sock[c][t]
        PROVE  LateDeletion(b)'
    <3>1. ~Owns(c, t)
      BY <2>1, <2>4, FileNames DEF Owns
    <3>2. CASE c \in ended
      BY Zenon, <3>2, <2>1, <1>0 DEF Inv, TypeOK, LateDeletion
    <3>3. CASE LateDeletion(c)
      <4>1. PICK e \in ended \ {c} : phase[e] = "deleted"
        BY Zenon, <3>3 DEF LateDeletion
      <4>2. e # b
        BY Zenon, <4>1, <2>1 DEF Live
      <4> QED BY Zenon, <4>1, <4>2, <1>0 DEF Inv, TypeOK, LateDeletion
    <3> QED BY Zenon, <3>1, <3>2, <3>3 DEF Inv, FilesIntact
  <2> QED BY ZenonT(40), <2>2, <2>3, <2>4 DEF Sides
<1>6. FilesIntact'
  BY Zenon, <1>5 DEF FilesIntact
<1>7. NoCrossTalk'
  BY Zenon, <1>0, <1>4 DEF Inv, TypeOK, NoCrossTalk
<1> QED BY Zenon, <1>1, <1>2, <1>3, <1>6, <1>7 DEF Inv

\* A channel finds the file of another at its number only after a late deletion.
LEMMA CrossInv ==
    ASSUME Inv, NEW c \in Channels, NEW s \in Sides, Live(c), conn[c][s] # 0, Crosses(c, s)
    PROVE  Inv'
<1>1. conn[c][s] = sock[c][s] /\ (s = "service" => c \notin ended)
  BY ZenonT(40) DEF Inv, NumbersSound, Sides
<1>2. LateDeletion(c)
  BY ZenonT(40), <1>1 DEF Inv, FilesIntact, Owns, Crosses
<1>3. TypeOK' /\ NumbersSound' /\ NoLeak' /\ FilesIntact'
  <2>0. UNCHANGED <<file, sock, conn, phase, ended>>
    BY Zenon DEF Crosses
  <2>1. TypeOK'
    BY Zenon DEF Inv, Crosses, TypeOK
  <2>2. NumbersSound'
    BY <2>0, Zenon DEF Inv, NumbersSound, Live
  <2>3. NoLeak'
    BY <2>0, Zenon DEF Inv, NoLeak, Live
  <2>4. FilesIntact'
    BY <2>0, Zenon DEF Inv, FilesIntact, LateDeletion, Owns, Live
  <2> QED BY Zenon, <2>1, <2>2, <2>3, <2>4
<1>4. NoCrossTalk'
  BY Zenon, <1>2 DEF Inv, Crosses, NoCrossTalk, LateDeletion
<1> QED BY ZenonT(40), <1>3, <1>4 DEF Inv

\* Every step keeps the invariant.
LEMMA NextInv == Inv /\ [Next]_vars => Inv'
<1> SUFFICES ASSUME Inv, [Next]_vars PROVE Inv'
  BY Zenon
<1>1. CASE UNCHANGED vars
  <2>1. UNCHANGED <<file, sock, conn, phase, hung, ended, crossed, dead>>
    BY Zenon, <1>1 DEF vars
  <2>2. TypeOK'
    BY Zenon, <2>1 DEF Inv, TypeOK
  <2>3. NumbersSound' /\ NoLeak'
    BY <2>1, Zenon DEF Inv, NumbersSound, NoLeak, Live
  <2>4. FilesIntact' /\ NoCrossTalk'
    BY <2>1, Zenon DEF Inv, FilesIntact, NoCrossTalk, LateDeletion, Owns, Live
  <2> QED BY Zenon, <2>2, <2>3, <2>4 DEF Inv
<1>2. ASSUME NEW c \in Channels, NEW s \in Sides, PeerCloses(c, s) PROVE Inv'
  <2>1. TypeOK'
    BY <1>2, FileNames, SMTT(30) DEF PeerCloses, Inv, TypeOK
  <2> QED BY ZenonT(40), <2>1, <1>2 DEF PeerCloses, Inv, NumbersSound, NoLeak, FilesIntact, NoCrossTalk,
                           LateDeletion, Owns, Live
<1>3. ASSUME NEW c \in Channels, ServerEnds(c) PROVE Inv'
  BY Zenon, <1>3, DeleteInv, DiesInv DEF ServerEnds, Event
<1>4. ASSUME NEW c \in Channels, Event(c, "service")
      PROVE  /\ Live(c) /\ phase[c] = "forwarding" /\ conn[c]["service"] # 0
             /\ file[conn[c]["service"]] = FileOf(c, "service")
             /\ conn[c]["server"] # 0
  BY Zenon, <1>4, DataChannelsAssumption DEF Event, Live, Inv, NumbersSound, Owns, Sides
<1>5. ASSUME NEW c \in Channels, ServiceEnds(c) PROVE Inv'
  BY Zenon, <1>4, <1>5, ServiceInv DEF ServiceEnds
<1>6. ASSUME NEW c \in Channels, ServerBytes(c) PROVE Inv'
  <2>1. Live(c) /\ phase[c] = "forwarding"
    BY Zenon, <1>6 DEF ServerBytes, Event
  <2>2. CASE Dies("null") \/ Dies("sigpipe")
    BY Zenon, <2>2, DiesInv
  <2>3. CASE conn[c]["service"] # 0 /\ Crosses(c, "service")
    BY Zenon, <2>1, <2>3, CrossInv DEF Sides
  <2>4. CASE /\ conn[c]["service"] # 0 /\ file[conn[c]["service"]] = NULL
             /\ service_removeConnection(c)
    BY Zenon, <2>1, <2>4, ServiceInv
  <2> QED BY <1>6, <2>2, <2>3, <2>4, ZenonT(40) DEF ServerBytes
<1>7. ASSUME NEW c \in Channels, ServiceBytes(c) PROVE Inv'
  <2>1. Live(c) /\ conn[c]["server"] # 0
    BY Zenon, <1>4, <1>7 DEF ServiceBytes
  <2>2. CASE Dies("sigpipe")
    BY Zenon, <2>2, DiesInv
  <2>3. CASE Crosses(c, "server")
    BY Zenon, <2>1, <2>3, CrossInv DEF Sides
  <2>4. CASE delete_data_channel(c)
    BY Zenon, <2>1, <2>4, DeleteInv
  <2> QED BY <1>7, <2>2, <2>3, <2>4, ZenonT(40) DEF ServiceBytes
<1> QED
  BY <1>1, <1>2, <1>3, <1>5, <1>6, <1>7, CreateInv, StartInv, Zenon DEF Next

\* ncxc leaks no descriptor, whatever channels come and go in whatever order: every
\* open socket has a channel that will close it.
THEOREM DescriptorsKept == Spec => [](TypeOK /\ NoLeak)
<1>1. Inv => TypeOK /\ NoLeak
  BY Zenon DEF Inv
<1> QED BY <1>1, InitInv, NextInv, PTL DEF Spec

\* A channel loses a socket, or writes into that of another, only after the deletion
\* of a channel whose service had closed first.
THEOREM ChannelsApart == Spec => []OwnFilesOnly
<1>1. Inv => OwnFilesOnly
  BY Zenon DEF Inv, OwnFilesOnly
<1> QED BY <1>1, InitInv, NextInv, PTL DEF Spec

-----------------------------------------------------------------------------
(* Coming up.                                                              *)

\* How far the timer can be at each operation, with what has been waited: connect
\* has one timeout, write and read share a second one.
TimerSound ==
    /\ waited \in Nat
    /\ op \in {"none", "resolve", "connect", "write", "read"}
    /\ op = "resolve" => waited = 0
    /\ op = "connect" => left \in Nat /\ waited + left = Timeout
    /\ op \in {"write", "read"} => left \in Nat /\ waited + left <= 2 * Timeout
    /\ waited <= 2 * Timeout

\* Before the session nothing has been waited, and a body is there only once the
\* operations are over; a failed session has none.
BodySound ==
    /\ failed \in BOOLEAN
    /\ pc \in {"main", "local", "remote", "server", "listen"} =>
          waited = 0 /\ failed = FALSE /\ body = Empty /\ op = "none"
    /\ pc = "session" => up = 0
    /\ pc \in {"main", "local", "remote"} => up = 0
    /\ pc \in {"session", "connect", "run"} \/ op = "none"
    /\ failed = TRUE => op = "none" /\ body = Empty /\ up = 0 /\ pc \in {"session", "exit1"}
    /\ op # "none" => pc = "session" /\ body = Empty

\* The inductive invariant.
StartupInv == TimerSound /\ BodySound

\* Nothing has happened at the start.
LEMMA StartupInitInv == StartupInit => StartupInv
<1>1. StartupInit => TimerSound
  BY StartupAssumption DEF StartupInit, TimerSound
<1>2. StartupInit => BodySound
  BY Zenon DEF StartupInit, BodySound
<1> QED BY Zenon, <1>1, <1>2 DEF StartupInv

\* Every step keeps the invariant, one action at a time.
LEMMA StartupNextInv == StartupInv /\ [StartupNext]_startupVars => StartupInv'
<1> SUFFICES ASSUME StartupInv, [StartupNext]_startupVars PROVE StartupInv'
  BY Zenon
<1> USE StartupAssumption DEF StartupInv, TimerSound, BodySound, Session, GoesTo, Ends
<1>1. CASE UNCHANGED startupVars
  BY Zenon, <1>1 DEF startupVars
<1>2. CASE Cli_parse
  BY Zenon, <1>2 DEF Cli_parse
<1>3. CASE ncxs_main
  BY Zenon, <1>3 DEF ncxs_main
<1>4. CASE parseAsServerArgs
  BY ZenonT(40), <1>4 DEF parseAsServerArgs
<1>5. CASE NServer
  BY Zenon, <1>5 DEF NServer
<1>6. CASE handleLocalConfig
  BY Zenon, <1>6 DEF handleLocalConfig
<1>7. CASE handleRemoteTunnel
  BY Zenon, <1>7 DEF handleRemoteTunnel, Get
<1>8. CASE on_resolve
  <2>1. TimerSound'
    BY <1>8 DEF on_resolve, Pending, Then, fail
  <2>2. BodySound'
    BY <1>8, Zenon DEF on_resolve, Pending, Then, fail
  <2> QED BY Zenon, <2>1, <2>2
<1>9. CASE on_connect
  <2>1. TimerSound'
    BY <1>9 DEF on_connect, Pending, Then, fail
  <2>2. BodySound'
    BY <1>9, Zenon DEF on_connect, Pending, Then, fail
  <2> QED BY Zenon, <2>1, <2>2
<1>10. CASE on_write
  <2>1. TimerSound'
    BY Zenon, <1>10 DEF on_write, Pending, Then, fail
  <2>2. BodySound'
    BY <1>10, Zenon DEF on_write, Pending, Then, fail
  <2> QED BY Zenon, <2>1, <2>2
<1>11. CASE on_read
  <2>1. TimerSound'
    BY Zenon, <1>11 DEF on_read, Pending, fail
  <2>2. BodySound'
    BY <1>11, Zenon DEF on_read, Pending, fail
  <2> QED BY Zenon, <2>1, <2>2
<1>12. CASE Expires
  <2>1. TimerSound'
    BY Zenon, <1>12 DEF Expires, fail
  <2>2. BodySound'
    BY Zenon, <1>12 DEF Expires, fail
  <2> QED BY Zenon, <2>1, <2>2
<1>13. CASE Tick
  BY <1>13 DEF Tick
<1>14. CASE RunReturns
  <2>1. failed => ~GetServiceResp_valid(body)
    BY Zenon DEF GetServiceResp_valid
  <2> QED BY <1>14, <2>1 DEF RunReturns
<1>15. CASE parse_args
  BY Zenon, <1>15 DEF parse_args
<1>16. CASE run_client
  BY Zenon, <1>16 DEF run_client
<1> QED
  BY ZenonT(40), <1>1, <1>2, <1>3, <1>4, <1>5, <1>6, <1>7, <1>8, <1>9, <1>10, <1>11, <1>12, <1>13,
     <1>14, <1>15, <1>16 DEF StartupNext, Step, SessionStep

\* No stage at which the HTTP session fails, and no answer after a failure, lets
\* ncxc offer a service.
THEOREM FailedSessionStops == StartupSpec => []FailureStops
<1>1. StartupInv => FailureStops
  BY Zenon DEF StartupInv, BodySound, FailureStops
<1> QED BY <1>1, StartupInitInv, StartupNextInv, PTL DEF StartupSpec

\* A gateway that is slow at every stage costs ncxc two timeouts, not one for each
\* operation.
THEOREM SessionBounded == StartupSpec => []TwoTimeouts
<1>1. StartupInv => TwoTimeouts
  BY DEF StartupInv, TimerSound, TwoTimeouts
<1> QED BY <1>1, StartupInitInv, StartupNextInv, PTL DEF StartupSpec

-----------------------------------------------------------------------------


\* Which program is where, what it was given, and what came of it: from the moment
\* the arguments are made, the channels are the services of their source.
ArgsSound ==
    /\ prog = "ncxc" => config \in ClientFiles /\ body \in Answers \cup {Empty}
    /\ pc \in {"server", "listen"} => prog = "ncxs"
    /\ pc \in {"local", "remote", "session", "connect"} => prog = "ncxc"
    /\ pc = "local" => "local" \in opts
    /\ pc \in {"remote", "session"} => "local" \notin opts
    /\ up = 0 \/ pc \in {"connect", "run", "exit1"}
    /\ prog = "ncxs" => up = 0
    /\ prog = "ncxc" /\ (up # 0 \/ pc \in {"connect", "run"}) => Offers(args[2], Source.services)

\* A port keeps the low 16 bits of the number the parser found.
LEMMA PortOf == ASSUME NEW v \in Int PROVE IsPort(uint16(v), v)
<1>1. uint16(v) \in Nat /\ uint16(v) < 65536
  BY DEF uint16
<1>2. (v - (v % 65536)) % 65536 = 0
  OBVIOUS
<1> QED BY <1>1, <1>2 DEF uint16, IsPort

\* The arguments made of valid services are these services.
LEMMA ArgsOffer ==
    ASSUME NEW addr, NEW port, NEW ss, Services(ss), AllValid(ss)
    PROVE  Offers(ArgsOf(addr, port, ss)[2], ss)
<1> DEFINE channels == [i \in DOMAIN ss |-> ChannelArgs(ss[i])]
<1>1. ArgsOf(addr, port, ss)[2] = channels
  BY ZenonT(40) DEF ArgsOf
<1>2. Len(channels) = Len(ss)
  BY DEF Services
<1>3. ASSUME NEW i \in DOMAIN ss
      PROVE  /\ channels[i].name = ss[i].service_name
             /\ channels[i].addr = ss[i].service_addr
             /\ IsPort(channels[i].port, ss[i].service_port)
             /\ IsPort(channels[i].proxy_port, ss[i].proxy_port)
  <2>1. ss[i].service_port \in Int /\ ss[i].proxy_port \in Int
    BY Zenon, <1>3 DEF Services, AllValid, ServiceInfo_valid, Given
  <2>2. channels[i] = ChannelArgs(ss[i])
    BY Zenon, <1>3
  <2> QED BY ZenonT(40), <2>1, <2>2, PortOf DEF ChannelArgs
<1> QED BY ZenonT(40), <1>1, <1>2, <1>3 DEF Offers


\* At the start there are no arguments.
LEMMA InitArgs == StartupInit => ArgsSound
  BY Zenon DEF StartupInit, ArgsSound

\* Every step keeps them; the two that make arguments have checked their services.
LEMMA NextArgs == StartupInv /\ ArgsSound /\ [StartupNext]_startupVars => ArgsSound'
<1> SUFFICES ASSUME StartupInv, ArgsSound, [StartupNext]_startupVars PROVE ArgsSound'
  BY Zenon
<1> USE DEF ArgsSound, Session, GoesTo, Ends
<1>0. UNCHANGED <<opts, config, body>> => Source' = Source
  BY Zenon DEF Source
<1>1. CASE UNCHANGED startupVars
  BY Zenon, <1>0, <1>1 DEF startupVars
<1>2. CASE Cli_parse
  BY ZenonT(40), <1>0, <1>2 DEF Cli_parse, StartupInv, BodySound
<1>3. CASE ncxs_main
  BY Zenon, <1>0, <1>3 DEF ncxs_main, StartupInv, BodySound
<1>4. CASE parseAsServerArgs
  BY ZenonT(40), <1>0, <1>4 DEF parseAsServerArgs
<1>5. CASE NServer
  BY Zenon, <1>0, <1>5 DEF NServer
<1>6. CASE handleLocalConfig
  <2>1. CASE ~LocalValid
    BY Zenon, <1>0, <1>6, <2>1 DEF handleLocalConfig
  <2>2. CASE LocalValid
    <3>1. Services(config.services) /\ AllValid(config.services)
      BY ZenonT(40), <1>6, <2>2, ParsersAssumption DEF LocalValid, handleLocalConfig
    <3>2. Offers(args'[2], config.services)
      BY ZenonT(40), <1>6, <2>2, <3>1, ArgsOffer DEF handleLocalConfig
    <3>3. Source' = config
      BY Zenon, <1>6, <2>2 DEF handleLocalConfig, Source
    <3> QED BY Zenon, <1>6, <2>2, <3>2, <3>3 DEF handleLocalConfig
  <2> QED BY Zenon, <2>1, <2>2
<1>7. CASE handleRemoteTunnel
  BY Zenon, <1>0, <1>7 DEF handleRemoteTunnel, Get
<1>8. CASE on_resolve \/ on_connect \/ on_write
  BY Zenon, <1>0, <1>8 DEF on_resolve, on_connect, on_write, Pending, Then, fail
<1>9. CASE on_read
  BY ZenonT(40), <1>9 DEF on_read, Pending, fail
<1>10. CASE Expires \/ Tick
  BY Zenon, <1>0, <1>10 DEF Expires, Tick, fail
<1>11. CASE RunReturns
  <2>1. CASE ~GetServiceResp_valid(body)
    BY Zenon, <1>0, <1>11, <2>1 DEF RunReturns
  <2>2. CASE GetServiceResp_valid(body)
    <3> DEFINE ss == GetServiceResp_from_json(body).services
    <3>1. Services(ss) /\ AllValid(ss)
      <4>1. CASE body.services = Absent
        <5>1. ss = <<>>
          BY ZenonT(40), <4>1 DEF GetServiceResp_from_json
        <5>2. DOMAIN ss = {} /\ Len(ss) = 0 /\ 1..0 = {}
          BY <5>1
        <5> QED BY ONLY <5>2 DEF Services, AllValid
      <4>2. CASE body.services # Absent
        <5>1. ss = body.services
          BY Zenon, <4>2 DEF GetServiceResp_from_json
        <5> QED
          BY ZenonT(40), <1>11, <2>2, <4>2, <5>1, ParsersAssumption DEF GetServiceResp_valid, RunReturns
      <4> QED BY Zenon, <4>1, <4>2
    <3>2. Offers(args'[2], ss)
      BY ZenonT(40), <1>11, <2>2, <3>1, ArgsOffer DEF RunReturns
    <3>3. Source'.services = ss
      BY Zenon, <1>11, <2>2 DEF RunReturns, Source
    <3> QED BY ZenonT(40), <1>11, <2>2, <3>2, <3>3 DEF RunReturns
  <2> QED BY Zenon, <2>1, <2>2
<1>12. CASE parse_args
  BY Zenon, <1>0, <1>12 DEF parse_args
<1>13. CASE run_client
  BY Zenon, <1>0, <1>13 DEF run_client
<1> QED
  BY ZenonT(40), <1>1, <1>2, <1>3, <1>4, <1>5, <1>6, <1>7, <1>8, <1>9, <1>10, <1>11, <1>12, <1>13
     DEF StartupNext, Step, SessionStep

\* Whatever is in the file or in the answer, ncxc offers every service of it or
\* none, each with its name, its address and the low 16 bits of its ports.
THEOREM ServicesWhole == StartupSpec => []AllOrNothing
<1>1. ArgsSound => AllOrNothing
  BY DEF ArgsSound, AllOrNothing
<1> QED BY <1>1, StartupInitInv, StartupNextInv, InitArgs, NextArgs, PTL DEF StartupSpec

-----------------------------------------------------------------------------
(* The buffer.                                                             *)

\* The n elements of f from lo on, as a sequence.
Window(f, lo, n) == [i \in 1..n |-> f[lo + i - 1]]

\* What every Peek... returns: a string of the asked length, byte by byte.
LEMMA WindowIsSeq ==
    ASSUME NEW f, NEW lo \in Nat, NEW n \in Nat,
           \A i \in lo..(lo + n - 1) : f[i] \in Char
    PROVE  /\ Window(f, lo, n) \in Seq(Char)
           /\ Len(Window(f, lo, n)) = n
           /\ \A i \in 1..n : Window(f, lo, n)[i] = f[lo + i - 1]
<1>1. \A i \in 1..n : lo + i - 1 \in lo..(lo + n - 1)
    OBVIOUS
<1>2. Window(f, lo, n) \in [1..n -> Char]
    BY Zenon, <1>1 DEF Window
<1>3. Window(f, lo, n) \in Seq(Char)
    BY Zenon, <1>2, SeqDef
<1>4. DOMAIN Window(f, lo, n) = 1..n
    BY Zenon DEF Window
<1>5. Len(Window(f, lo, n)) = n
    BY <1>3, <1>4, LenProperties
<1> QED
    BY Zenon, <1>3, <1>5 DEF Window

\* A window splits into its first k elements and the rest.
LEMMA WindowSplit ==
    ASSUME NEW f, NEW lo \in Nat, NEW n \in Nat, NEW k \in 0..n,
           \A i \in lo..(lo + n - 1) : f[i] \in Char
    PROVE  /\ SubSeq(Window(f, lo, n), 1, k) = Window(f, lo, k)
           /\ SubSeq(Window(f, lo, n), k + 1, n) = Window(f, lo + k, n - k)
<1> DEFINE w == Window(f, lo, n)
<1>1. /\ w \in Seq(Char) /\ Len(w) = n
      /\ \A i \in 1..n : w[i] = f[lo + i - 1] /\ w[i] \in Char
    <2>1. w \in Seq(Char) /\ Len(w) = n /\ \A i \in 1..n : w[i] = f[lo + i - 1]
        BY Zenon, WindowIsSeq
    <2> HIDE DEF w
    <2>2. \A i \in 1..n : w[i] \in Char
        BY ONLY Zenon, <2>1, ElementOfSeq
    <2> QED BY ONLY Zenon, <2>1, <2>2
<1>2. SubSeq(w, 1, k) = Window(f, lo, k)
    <2> DEFINE u == SubSeq(w, 1, k)
               v == Window(f, lo, k)
    <2>1. \A i \in lo..(lo + k - 1) : i \in lo..(lo + n - 1)
        OBVIOUS
    <2>2. v \in Seq(Char) /\ Len(v) = k /\ \A i \in 1..k : v[i] = f[lo + i - 1]
        <3>1. k \in Nat /\ \A i \in lo..(lo + k - 1) : f[i] \in Char
            BY <2>1
        <3> QED BY Zenon, <3>1, WindowIsSeq
    <2>3. \A i \in 1..k : w[i] \in Char
        BY <1>1
    <2>4. 1 \in Int /\ k \in Int
        OBVIOUS
    <2> HIDE DEF w
    <2>5. u \in Seq(Char) /\ Len(u) = k /\ \A i \in 1..k : u[i] = w[i]
        BY <2>3, <2>4, SubSeqProperties
    <2>6. \A i \in 1..Len(u) : u[i] = v[i]
        BY <1>1, <2>2, <2>5
    <2> HIDE DEF u, v
    <2>7. u = v
        BY Zenon, <2>2, <2>5, <2>6, SeqEqual
    <2> QED BY Zenon, <2>7 DEF u, v
<1>3. SubSeq(w, k + 1, n) = Window(f, lo + k, n - k)
    <2> DEFINE u == SubSeq(w, k + 1, n)
               v == Window(f, lo + k, n - k)
    <2>1. /\ \A i \in (lo + k)..(lo + k + (n - k) - 1) : f[i] \in Char
          /\ lo + k \in Nat /\ n - k \in Nat
        OBVIOUS
    <2>2. /\ v \in Seq(Char) /\ Len(v) = n - k
          /\ \A i \in 1..(n - k) : v[i] = f[lo + k + i - 1]
        BY Zenon, <2>1, WindowIsSeq
    <2>3. \A i \in (k + 1)..n : w[i] \in Char
        BY <1>1
    <2>4. k + 1 \in Int /\ n \in Int
        OBVIOUS
    <2> HIDE DEF w
    <2>5. /\ u \in Seq(Char)
          /\ Len(u) = (IF k + 1 <= n THEN n - (k + 1) + 1 ELSE 0)
          /\ \A i \in 1..(n - (k + 1) + 1) : u[i] = w[(k + 1) + i - 1]
        BY <2>3, <2>4, SubSeqProperties
    <2>6. Len(u) = n - k /\ \A i \in 1..(n - k) : u[i] = w[k + i]
        BY <2>5
    <2>7. \A i \in 1..(n - k) : w[k + i] = f[lo + (k + i) - 1]
        <3> SUFFICES ASSUME NEW i \in 1..(n - k) PROVE w[k + i] = f[lo + (k + i) - 1]
            BY Zenon
        <3>1. k + i \in 1..n
            OBVIOUS
        <3> QED BY ONLY Zenon, <1>1, <3>1
    <2>8. \A i \in 1..Len(u) : u[i] = v[i]
        BY <2>2, <2>6, <2>7
    <2> HIDE DEF u, v
    <2>9. u = v
        BY Zenon, <2>2, <2>5, <2>6, <2>8, SeqEqual
    <2> QED BY Zenon, <2>9 DEF u, v
<1> QED
    BY Zenon, <1>2, <1>3 DEF w

\* How to recognise a concatenation by its bytes.
LEMMA IsConcat ==
    ASSUME NEW u \in Seq(Char), NEW s \in Seq(Char), NEW v \in Seq(Char),
           Len(v) = Len(u) + Len(s),
           \A i \in 1..Len(u) : v[i] = u[i],
           \A j \in 1..Len(s) : v[Len(u) + j] = s[j]
    PROVE  v = u \o s
<1>1. Len(u) \in Nat /\ Len(s) \in Nat
    BY Zenon, LenProperties
<1>2. /\ u \o s \in Seq(Char)
      /\ Len(u \o s) = Len(u) + Len(s)
      /\ \A i \in 1..(Len(u) + Len(s)) :
            (u \o s)[i] = IF i <= Len(u) THEN u[i] ELSE s[i - Len(u)]
    BY Zenon, ConcatProperties
<1>3. ASSUME NEW i \in 1..Len(v) PROVE v[i] = (u \o s)[i]
    <2>1. CASE i <= Len(u)
        <3>1. i \in 1..Len(u)
            BY <1>1, <2>1
        <3> QED BY Zenon, <1>2, <2>1, <3>1
    <2>2. CASE ~(i <= Len(u))
        <3>1. i - Len(u) \in 1..Len(s) /\ Len(u) + (i - Len(u)) = i
            BY <1>1, <2>2
        <3> QED BY Zenon, <1>2, <2>2, <3>1
    <2> QED BY Zenon, <2>1, <2>2
<1> QED
    BY Zenon, <1>2, <1>3, SeqEqual

\* Where the readable bytes and an appended string lie: r is the read index, n
\* the readable bytes, w the write index, l the string's length and z the
\* vector's size.
Layout(r, n, w, l, z) ==
    /\ \A i \in r..(r + (n + l) - 1) : i \in 0..(z - 1)
    /\ \A i \in 1..n : r + i - 1 \in 0..(z - 1) /\ ~(w <= r + i - 1)
    /\ \A j \in 1..l :
          /\ w + j - 1 \in 0..(z - 1)
          /\ w <= w + j - 1 /\ w + j - 1 < w + l
          /\ (w + j - 1) - w + 1 = j
          /\ n + j \in 1..(n + l)
          /\ r + (n + j) - 1 = w + j - 1
    /\ (w + l) - r = n + l

\* The layout follows from the order of the indexes.
LEMMA Indexes ==
    ASSUME NEW r \in Nat, NEW n \in Nat, NEW w \in Nat, NEW l \in Nat, NEW z \in Nat,
           w = r + n, w + l <= z
    PROVE  Layout(r, n, w, l, z)
<1>1. \A i \in r..(r + (n + l) - 1) : i \in 0..(z - 1)
    OBVIOUS
<1>2. \A i \in 1..n : r + i - 1 \in 0..(z - 1) /\ ~(w <= r + i - 1)
    OBVIOUS
<1>3. ASSUME NEW j \in 1..l
      PROVE  /\ w + j - 1 \in 0..(z - 1)
             /\ w <= w + j - 1 /\ w + j - 1 < w + l
             /\ (w + j - 1) - w + 1 = j
             /\ n + j \in 1..(n + l)
             /\ r + (n + j) - 1 = w + j - 1
    OBVIOUS
<1>4. (w + l) - r = n + l
    OBVIOUS
<1> QED BY Zenon, <1>1, <1>2, <1>3, <1>4 DEF Layout

-----------------------------------------------------------------------------

\* The strengthened invariant the proofs are by.
BufferInv == BufferTypeOK /\ IndexInvariant

\* EnsureWriteableBytes leaves room for len bytes behind the readable ones,
\* which it keeps, whether it compacts, grows or does nothing.
LEMMA EnsureCorrect ==
    ASSUME BufferInv, NEW len \in Nat
    PROVE  LET b == EnsureWriteableBytes(len)
           IN  /\ b.size \in Nat /\ b.read \in Nat /\ b.write \in Nat
               /\ b.buffer \in [0..(b.size - 1) -> Char]
               /\ kPrePendIndex <= b.read
               /\ b.write = b.read + readAbleBytes
               /\ b.write + len <= b.size
               /\ \A i \in 1..readAbleBytes :
                     b.buffer[b.read + i - 1] = buffer_[read_index_ + i - 1]
<1> DEFINE b == EnsureWriteableBytes(len)
<1> USE BufferAssumption DEF BufferInv, BufferTypeOK, IndexInvariant, readAbleBytes,
        writeAbleBytes, prependAbleBytes
<1>1. CASE writeAbleBytes >= len
    BY <1>1 DEF EnsureWriteableBytes, Same
<1>2. CASE /\ ~(writeAbleBytes >= len)
           /\ writeAbleBytes + prependAbleBytes >= kPrePendIndex + len
    <2>1. b = Compacted
        BY Zenon, <1>2 DEF EnsureWriteableBytes
    <2>2. \A i \in 0..(size - 1) :
              kPrePendIndex <= i /\ i < kPrePendIndex + readAbleBytes
                  => read_index_ + (i - kPrePendIndex) \in 0..(size - 1)
        OBVIOUS
    <2>3. Compacted.buffer \in [0..(size - 1) -> Char]
        BY Zenon, <2>2 DEF Compacted
    <2>4. ASSUME NEW i \in 1..readAbleBytes
          PROVE  Compacted.buffer[kPrePendIndex + i - 1] = buffer_[read_index_ + i - 1]
        <3>1. /\ kPrePendIndex + i - 1 \in 0..(size - 1)
              /\ kPrePendIndex <= kPrePendIndex + i - 1
              /\ kPrePendIndex + i - 1 < kPrePendIndex + readAbleBytes
              /\ read_index_ + ((kPrePendIndex + i - 1) - kPrePendIndex)
                    = read_index_ + i - 1
            BY <1>2
        <3> QED BY Zenon, <3>1 DEF Compacted
    <2>5. /\ Compacted.size = size /\ Compacted.read = kPrePendIndex
          /\ Compacted.write = kPrePendIndex + readAbleBytes
        BY Zenon DEF Compacted
    <2> QED BY <1>2, <2>1, <2>3, <2>4, <2>5
<1>3. CASE /\ ~(writeAbleBytes >= len)
           /\ ~(writeAbleBytes + prependAbleBytes >= kPrePendIndex + len)
    <2> DEFINE n == write_index_ + len
    <2>1. b = Resized(n)
        BY Zenon, <1>3 DEF EnsureWriteableBytes
    <2>2. n \in Nat /\ size <= n
        BY <1>3
    <2>3. Resized(n).buffer \in [0..(n - 1) -> Char]
        BY <2>2 DEF Resized
    <2>4. ASSUME NEW i \in 1..readAbleBytes
          PROVE  Resized(n).buffer[read_index_ + i - 1] = buffer_[read_index_ + i - 1]
        <3>1. read_index_ + i - 1 \in 0..(n - 1) /\ read_index_ + i - 1 < size
            BY <2>2
        <3> QED BY Zenon, <3>1 DEF Resized
    <2>5. /\ Resized(n).size = n /\ Resized(n).read = read_index_
          /\ Resized(n).write = write_index_
        BY Zenon DEF Resized
    <2>6. n = write_index_ + len /\ write_index_ = read_index_ + readAbleBytes
        OBVIOUS
    <2> HIDE DEF n
    <2> QED BY <2>1, <2>2, <2>3, <2>4, <2>5, <2>6
<1> QED
    BY Zenon, <1>1, <1>2, <1>3

\* What the Peek... functions see of the vector.
LEMMA PeekIsWindow ==
    ASSUME BufferInv, NEW len \in 0..readAbleBytes
    PROVE  /\ PeekAsString(len) = Window(buffer_, read_index_, len)
           /\ PeekAsString(len) \in Seq(Char)
<1>1. PeekAsString(len) = Window(buffer_, read_index_, len)
    BY Zenon DEF PeekAsString, Window
<1>2. len \in Nat /\ read_index_ \in Nat
    BY DEF BufferInv, BufferTypeOK, IndexInvariant, readAbleBytes
<1>3. \A i \in read_index_..(read_index_ + len - 1) : i \in 0..(size - 1)
    BY DEF BufferInv, BufferTypeOK, IndexInvariant, readAbleBytes
<1>4. \A i \in read_index_..(read_index_ + len - 1) : buffer_[i] \in Char
    BY Zenon, <1>3 DEF BufferInv, BufferTypeOK
<1>5. Window(buffer_, read_index_, len) \in Seq(Char)
    BY ONLY Zenon, <1>2, <1>4, WindowIsSeq
<1> QED
    BY Zenon, <1>1, <1>5

\* Every operation keeps the members typed and the indexes ordered.
LEMMA BufferInduction == BufferInv /\ [BufferNext]_bufferVars => BufferInv'
<1> SUFFICES ASSUME BufferInv, [BufferNext]_bufferVars PROVE BufferInv'
    BY Zenon
<1> USE BufferAssumption
<1>0. readAbleBytes \in Nat /\ readAbleBytes \in 0..readAbleBytes
    BY DEF BufferInv, BufferTypeOK, IndexInvariant, readAbleBytes
<1>1. ASSUME NEW s \in Chunks, Append_(s) PROVE BufferInv'
    <2> DEFINE b == EnsureWriteableBytes(Len(s))
    <2>1. s \in Seq(Char) /\ Len(s) \in Nat /\ \A j \in 1..Len(s) : s[j] \in Char
        BY Zenon, LenProperties, ElementOfSeq
    <2>2. /\ b.size \in Nat /\ b.read \in Nat /\ b.write \in Nat
          /\ b.buffer \in [0..(b.size - 1) -> Char]
          /\ kPrePendIndex <= b.read
          /\ b.write = b.read + readAbleBytes
          /\ b.write + Len(s) <= b.size
        BY Zenon, <2>1, EnsureCorrect
    <2>3. /\ size' = b.size /\ read_index_' = b.read /\ write_index_' = b.write + Len(s)
          /\ buffer_' = [i \in 0..(b.size - 1) |->
                            IF b.write <= i /\ i < b.write + Len(s)
                            THEN s[i - b.write + 1] ELSE b.buffer[i]]
          /\ out' = out
        BY Zenon, <1>1 DEF Append_
    <2> HIDE DEF b
    <2>4. buffer_' \in [0..(size' - 1) -> Char]
        <3>1. ASSUME NEW i \in 0..(b.size - 1), b.write <= i, i < b.write + Len(s)
              PROVE  s[i - b.write + 1] \in Char
            <4>1. i - b.write + 1 \in 1..Len(s)
                BY ONLY <2>1, <2>2, <3>1
            <4> QED BY ONLY Zenon, <2>1, <4>1
        <3>2. \A i \in 0..(b.size - 1) : b.buffer[i] \in Char
            BY ONLY Zenon, <2>2
        <3> QED BY ONLY Zenon, <2>3, <3>1, <3>2
    <2>5. /\ size' \in Nat /\ read_index_' \in Nat /\ write_index_' \in Nat
          /\ kPrePendIndex <= read_index_' /\ read_index_' <= write_index_'
          /\ write_index_' <= size'
        <3>1. Len(s) \in Nat
            BY Zenon, <2>1
        <3> QED BY <1>0, <2>2, <2>3, <3>1
    <2>6. out' \in Seq(Char)
        BY Zenon, <2>3 DEF BufferInv, BufferTypeOK
    <2> QED BY Zenon, <2>4, <2>5, <2>6 DEF BufferInv, BufferTypeOK, IndexInvariant
<1>2. ASSUME NEW len \in 0..MaxChunk, Reserve(len) PROVE BufferInv'
    <2> DEFINE b == EnsureWriteableBytes(len)
    <2>1. len \in Nat
        OBVIOUS
    <2>2. /\ b.size \in Nat /\ b.read \in Nat /\ b.write \in Nat
          /\ b.buffer \in [0..(b.size - 1) -> Char]
          /\ kPrePendIndex <= b.read
          /\ b.write = b.read + readAbleBytes
          /\ b.write + len <= b.size
        BY Zenon, <2>1, EnsureCorrect
    <2>3. /\ size' = b.size /\ read_index_' = b.read /\ write_index_' = b.write
          /\ buffer_' = b.buffer /\ out' = out
        BY Zenon, <1>2 DEF Reserve
    <2> HIDE DEF b
    <2>4. read_index_' <= write_index_' /\ write_index_' <= size'
        BY ONLY <1>0, <2>1, <2>2, <2>3
    <2>5. out' \in Seq(Char)
        BY Zenon, <2>3 DEF BufferInv, BufferTypeOK
    <2> QED BY Zenon, <2>2, <2>3, <2>4, <2>5 DEF BufferInv, BufferTypeOK, IndexInvariant
<1>3. ASSUME NEW len \in 0..readAbleBytes,
             Retrieve(len) \/ RetrieveAsString(len) \/ RetrieveUntil(len)
                 \/ RetrieveUtilAsString(len)
      PROVE  BufferInv'
    <2>1. out' \in Seq(Char)
        BY Zenon, <1>3, PeekIsWindow DEF Retrieve, RetrieveAsString, RetrieveUntil,
           RetrieveUtilAsString, BufferInv, BufferTypeOK
    <2> QED
        BY <1>0, <1>3, <2>1 DEF BufferInv, BufferTypeOK, IndexInvariant, readAbleBytes,
           Retrieve, RetrieveAsString, RetrieveIndexes, RetrieveAll,
           RetrieveUntil, RetrieveUtilAsString
<1>4. CASE RetrieveAll /\ UNCHANGED <<size, buffer_, out>>
    BY <1>4 DEF BufferInv, BufferTypeOK, IndexInvariant, RetrieveAll
<1>5. CASE RetrieveAllAsString
    <2>1. out' \in Seq(Char)
        BY Zenon, <1>0, <1>5, PeekIsWindow DEF RetrieveAllAsString, PeekAllAsString
    <2> QED
        BY <1>5, <2>1 DEF BufferInv, BufferTypeOK, IndexInvariant, RetrieveAll, RetrieveAllAsString
<1>6. CASE UNCHANGED bufferVars
    BY Zenon, <1>6 DEF bufferVars, BufferInv, BufferTypeOK, IndexInvariant
<1> QED
    BY Zenon, <1>1, <1>2, <1>3, <1>4, <1>5, <1>6 DEF BufferNext

\* The members stay typed and the indexes ordered inside the vector.
THEOREM IndexesOrdered == BufferSpec => [](BufferTypeOK /\ IndexInvariant)
<1>1. BufferInit => BufferInv
    <2> SUFFICES ASSUME BufferInit PROVE BufferInv
        BY Zenon
    <2>1. <<>> \in Seq(Char)
        BY Zenon, EmptySeq
    <2>2. out \in Seq(Char)
        BY Zenon, <2>1 DEF BufferInit
    <2> QED BY <2>2, BufferAssumption DEF BufferInit, BufferInv, BufferTypeOK, IndexInvariant
<1> QED
    BY <1>1, BufferInduction, PTL DEF BufferSpec, BufferInv

-----------------------------------------------------------------------------

\* The vector grows only when compaction could not have made room, and then
\* by less than one chunk beyond what was needed.
LEMMA GrowthBounded ==
    ASSUME BufferInv, MemoryBound, NEW len \in 0..MaxChunk,
           readAbleBytes + len <= MaxReadable
    PROVE  LET n == EnsureWriteableBytes(len).size
           IN  n <= kInitSize \/ n < kPrePendIndex + MaxReadable + MaxChunk
<1> USE BufferAssumption DEF BufferInv, BufferTypeOK, IndexInvariant, MemoryBound,
        readAbleBytes, writeAbleBytes, prependAbleBytes
<1>1. CASE EnsureWriteableBytes(len).size = size
    BY Zenon, <1>1
<1>2. CASE /\ EnsureWriteableBytes(len) = Resized(write_index_ + len)
           /\ ~(writeAbleBytes + prependAbleBytes >= kPrePendIndex + len)
    <2>1. EnsureWriteableBytes(len).size = write_index_ + len
        BY <1>2 DEF Resized
    <2> QED BY <1>2, <2>1
<1> QED
    BY Zenon, <1>1, <1>2 DEF EnsureWriteableBytes, Same, Compacted

\* However long it lives, a buffer whose users keep at most MaxReadable bytes
\* in it stays below the prefix, those bytes and one chunk.
THEOREM MemoryBounded == BufferSpec => []MemoryBound
<1>1. BufferInit => MemoryBound
    BY BufferAssumption DEF BufferInit, MemoryBound
<1>2. BufferInv /\ MemoryBound /\ [BufferNext]_bufferVars => MemoryBound'
    <2> SUFFICES ASSUME BufferInv, MemoryBound, [BufferNext]_bufferVars PROVE MemoryBound'
        BY Zenon
    <2>1. ASSUME NEW s \in Chunks, Append_(s) PROVE MemoryBound'
        <3>1. Len(s) \in 0..MaxChunk
            BY BufferAssumption, LenProperties
        <3> QED BY Zenon, <2>1, <3>1, GrowthBounded DEF Append_, MemoryBound
    <2>2. ASSUME NEW len \in 0..MaxChunk, Reserve(len) PROVE MemoryBound'
        BY Zenon, <2>2, GrowthBounded DEF Reserve, MemoryBound
    <2>3. CASE UNCHANGED size
        BY Zenon, <2>3 DEF MemoryBound
    <2> QED
        BY Zenon, <2>1, <2>2, <2>3 DEF BufferNext, Retrieve, RetrieveAsString, RetrieveUntil,
           RetrieveUtilAsString, RetrieveAllAsString, bufferVars
<1> QED
    BY <1>1, <1>2, IndexesOrdered, PTL DEF BufferSpec, BufferInv

-----------------------------------------------------------------------------

\* The readable bytes as a window of the vector, and what is left of it when
\* the first len are gone.
LEMMA ReadableSplit ==
    ASSUME BufferInv, NEW len \in 0..readAbleBytes
    PROVE  /\ PeekAllAsString \in Seq(Char)
           /\ Len(PeekAllAsString) = readAbleBytes
           /\ SubSeq(PeekAllAsString, 1, len) = PeekAsString(len)
           /\ SubSeq(PeekAllAsString, len + 1, Len(PeekAllAsString))
                 = Window(buffer_, read_index_ + len, readAbleBytes - len)
<1> DEFINE n == readAbleBytes
<1>1. n \in Nat /\ len \in 0..n /\ read_index_ \in Nat
    BY DEF BufferInv, BufferTypeOK, IndexInvariant, readAbleBytes
<1>2. \A i \in read_index_..(read_index_ + n - 1) : i \in 0..(size - 1)
    BY DEF BufferInv, BufferTypeOK, IndexInvariant, readAbleBytes
<1>3. \A i \in read_index_..(read_index_ + n - 1) : buffer_[i] \in Char
    BY Zenon, <1>2 DEF BufferInv, BufferTypeOK
<1>4. /\ PeekAllAsString = Window(buffer_, read_index_, n)
      /\ PeekAsString(len) = Window(buffer_, read_index_, len)
    BY Zenon DEF PeekAllAsString, PeekAsString, Window
<1> HIDE DEF n
<1>5. /\ Window(buffer_, read_index_, n) \in Seq(Char)
      /\ Len(Window(buffer_, read_index_, n)) = n
    BY ONLY Zenon, <1>1, <1>3, WindowIsSeq
<1>6. /\ SubSeq(Window(buffer_, read_index_, n), 1, len) = Window(buffer_, read_index_, len)
      /\ SubSeq(Window(buffer_, read_index_, n), len + 1, n)
            = Window(buffer_, read_index_ + len, n - len)
    BY ONLY Zenon, <1>1, <1>3, WindowSplit
<1> QED
    BY Zenon, <1>4, <1>5, <1>6 DEF n

\* Moving the read index, with or without the reset, leaves the rest readable.
LEMMA RemoveFront ==
    ASSUME BufferInv, NEW len \in 0..readAbleBytes, buffer_' = buffer_,
           \/ read_index_' = read_index_ + len /\ write_index_' = write_index_
           \/ len = readAbleBytes /\ read_index_' = write_index_'
                /\ read_index_' \in Nat
    PROVE  PeekAllAsString' = SubSeq(PeekAllAsString, len + 1, Len(PeekAllAsString))
<1>1. SubSeq(PeekAllAsString, len + 1, Len(PeekAllAsString))
        = Window(buffer_, read_index_ + len, readAbleBytes - len)
    BY Zenon, ReadableSplit
<1>2. PeekAllAsString' = Window(buffer_, read_index_', readAbleBytes')
    BY Zenon DEF PeekAllAsString, PeekAsString, Window, readAbleBytes
<1>3. CASE read_index_' = read_index_ + len /\ write_index_' = write_index_
    <2>1. readAbleBytes' = readAbleBytes - len
        BY <1>3 DEF readAbleBytes, BufferInv, BufferTypeOK, IndexInvariant
    <2> QED BY Zenon, <1>1, <1>2, <1>3, <2>1
<1>4. CASE len = readAbleBytes /\ read_index_' = write_index_' /\ read_index_' \in Nat
    <2>1. readAbleBytes' = 0 /\ readAbleBytes - len = 0
        <3>1. readAbleBytes' = 0
            <4>1. \A x, y \in Nat : x = y => x - y = 0
                OBVIOUS
            <4>2. write_index_' - read_index_' = 0
                BY Zenon, <1>4, <4>1
            <4> QED BY Zenon, <4>2 DEF readAbleBytes
        <3>2. readAbleBytes \in Nat
            BY DEF readAbleBytes, BufferInv, BufferTypeOK, IndexInvariant
        <3>3. readAbleBytes - len = 0
            BY ONLY <1>4, <3>2
        <3> QED BY Zenon, <3>1, <3>3
    <2>2. Window(buffer_, read_index_', 0) = Window(buffer_, read_index_ + len, 0)
        <3>1. 1..0 = {}
            OBVIOUS
        <3> QED BY Zenon, <3>1 DEF Window
    <2> QED BY Zenon, <1>1, <1>2, <2>1, <2>2
<1> QED
    BY Zenon, <1>3, <1>4

\* Every operation of the buffer is an operation of the byte queue, or changes
\* nothing a user can see.
LEMMA StepSimulation == BufferInv /\ [BufferNext]_bufferVars => [Queue!Next]_(Queue!vars)
<1> SUFFICES ASSUME BufferInv, [BufferNext]_bufferVars PROVE [Queue!Next]_(Queue!vars)
    BY Zenon
<1> USE BufferAssumption
<1>0. /\ readAbleBytes \in Nat /\ readAbleBytes \in 0..readAbleBytes
      /\ Len(PeekAllAsString) = readAbleBytes
    <2>1. readAbleBytes \in Nat
        BY DEF BufferInv, BufferTypeOK, IndexInvariant, readAbleBytes
    <2>2. readAbleBytes \in 0..readAbleBytes
        BY ONLY <2>1
    <2> QED BY ONLY Zenon, <2>1, <2>2, BufferInv, ReadableSplit
<1>1. ASSUME NEW len \in Nat, NEW b, NEW s \in Seq(Char),
             b = EnsureWriteableBytes(len), Len(s) <= len,
             buffer_' \in [0..(b.size - 1) -> Char],
             \A i \in 1..readAbleBytes : buffer_'[b.read + i - 1] = b.buffer[b.read + i - 1],
             \A j \in 1..Len(s) : buffer_'[b.write + j - 1] = s[j],
             read_index_' = b.read, write_index_' = b.write + Len(s)
      PROVE  PeekAllAsString' = PeekAllAsString \o s
    <2> DEFINE n == readAbleBytes
               u == PeekAllAsString
               v == PeekAllAsString'
    <2>1. /\ b.read \in Nat /\ b.write = b.read + n /\ b.size \in Nat
          /\ b.write + len <= b.size
          /\ \A i \in 1..n : b.buffer[b.read + i - 1] = buffer_[read_index_ + i - 1]
        BY Zenon, <1>1, EnsureCorrect
    <2>2. Len(s) \in Nat
        BY Zenon, LenProperties
    <2>0. /\ b.write \in Nat /\ b.write + Len(s) <= b.size
          /\ Layout(b.read, n, b.write, Len(s), b.size)
        <3>2. n \in Nat
            BY ONLY Zenon, <1>0 DEF n
        <3> HIDE DEF n
        <3>3. \A w, l, k, z \in Nat :
                w + k <= z /\ l <= k => w + l <= z
            OBVIOUS
        <3>4. \A r, m \in Nat : r + m \in Nat
            OBVIOUS
        <3>5. b.write \in Nat
            BY ONLY Zenon, <2>1, <3>2, <3>4
        <3>6. Len(s) <= len /\ len \in Nat
            BY ONLY Zenon, <1>1
        <3>1. b.write \in Nat /\ b.write + Len(s) <= b.size
            BY ONLY Zenon, <2>1, <2>2, <3>3, <3>5, <3>6
        <3> QED BY ONLY Zenon, <2>1, <2>2, <3>1, <3>2, Indexes
    <2>3. u \in Seq(Char) /\ Len(u) = n /\ \A i \in 1..n : u[i] = buffer_[read_index_ + i - 1]
        BY Zenon, <1>0, ReadableSplit DEF PeekAllAsString, PeekAsString
    <2>4. v = Window(buffer_', b.read, n + Len(s))
        <3>1. readAbleBytes' = n + Len(s)
            <4>1. readAbleBytes' = (b.write + Len(s)) - b.read
                BY Zenon, <1>1 DEF readAbleBytes
            <4> QED BY ONLY Zenon, <2>0, <4>1 DEF Layout
        <3> QED BY Zenon, <1>1, <3>1 DEF PeekAllAsString, PeekAsString, Window
    <2>5. \A i \in b.read..(b.read + (n + Len(s)) - 1) : buffer_'[i] \in Char
        BY ONLY Zenon, <1>1, <2>0 DEF Layout
    <2>6. /\ v \in Seq(Char) /\ Len(v) = n + Len(s)
          /\ \A i \in 1..(n + Len(s)) : v[i] = buffer_'[b.read + i - 1]
        <3> DEFINE m == n + Len(s)
        <3>1. b.read \in Nat /\ m \in Nat
            BY <1>0, <2>1, <2>2
        <3>2. \A i \in b.read..(b.read + m - 1) : buffer_'[i] \in Char
            BY Zenon, <2>5
        <3> HIDE DEF m
        <3>3. /\ Window(buffer_', b.read, m) \in Seq(Char)
              /\ Len(Window(buffer_', b.read, m)) = m
              /\ \A i \in 1..m : Window(buffer_', b.read, m)[i] = buffer_'[b.read + i - 1]
            BY ONLY Zenon, <3>1, <3>2, WindowIsSeq
        <3>4. m = n + Len(s)
            BY Zenon DEF m
        <3> HIDE DEF u, v
        <3> QED BY ONLY Zenon, <2>4, <3>3, <3>4
    <2> HIDE DEF u, v
    <2>7. \A i \in 1..Len(u) : v[i] = u[i]
        <3> SUFFICES ASSUME NEW i \in 1..n PROVE v[i] = u[i]
            BY Zenon, <2>3
        <3>1. i \in 1..(n + Len(s))
            BY <1>0, <2>2
        <3>2. v[i] = buffer_'[b.read + i - 1]
            BY Zenon, <2>6, <3>1
        <3>3. buffer_'[b.read + i - 1] = buffer_[read_index_ + i - 1]
            BY Zenon, <1>1, <2>1
        <3> QED BY Zenon, <2>3, <3>2, <3>3
    <2>8. ASSUME NEW j \in 1..Len(s) PROVE v[Len(u) + j] = s[j]
        <3>1. n + j \in 1..(n + Len(s)) /\ b.read + (n + j) - 1 = b.write + j - 1
            BY ONLY Zenon, <2>0 DEF Layout
        <3>2. v[n + j] = buffer_'[b.write + j - 1]
            BY ONLY Zenon, <2>6, <3>1
        <3>3. buffer_'[b.write + j - 1] = s[j]
            BY ONLY Zenon, <1>1
        <3> QED BY ONLY Zenon, <2>3, <3>2, <3>3
    <2>9. v = u \o s
        BY Zenon, <2>3, <2>6, <2>7, <2>8, IsConcat
    <2> QED BY Zenon, <2>9 DEF u, v
<1>2. ASSUME NEW s \in Chunks, Append_(s) PROVE Queue!Next
    <2> DEFINE b == EnsureWriteableBytes(Len(s))
    <2>1. s \in Seq(Char) /\ Len(s) \in Nat
        BY Zenon, LenProperties
    <2>2. /\ b.size \in Nat /\ b.read \in Nat /\ b.write \in Nat
          /\ b.write = b.read + readAbleBytes
          /\ b.write + Len(s) <= b.size
        BY Zenon, <2>1, EnsureCorrect
    <2>3. /\ size' = b.size /\ read_index_' = b.read /\ write_index_' = b.write + Len(s)
          /\ buffer_' = [i \in 0..(b.size - 1) |->
                            IF b.write <= i /\ i < b.write + Len(s)
                            THEN s[i - b.write + 1] ELSE b.buffer[i]]
          /\ out' = out
        BY Zenon, <1>2 DEF Append_
    <2>4. buffer_' \in [0..(b.size - 1) -> Char]
        BY Zenon, <1>2, BufferInduction, <2>3 DEF BufferInv, BufferTypeOK
    <2> HIDE DEF b
    <2>0. Layout(b.read, readAbleBytes, b.write, Len(s), b.size)
        BY ONLY Zenon, <1>0, <2>1, <2>2, Indexes
    <2>5. ASSUME NEW i \in 1..readAbleBytes
          PROVE  buffer_'[b.read + i - 1] = b.buffer[b.read + i - 1]
        BY ONLY Zenon, <2>3, <2>0 DEF Layout
    <2>6. ASSUME NEW j \in 1..Len(s) PROVE buffer_'[b.write + j - 1] = s[j]
        BY ONLY Zenon, <2>3, <2>0 DEF Layout
    <2>7. Len(s) <= Len(s) /\ b = EnsureWriteableBytes(Len(s))
        BY <2>1 DEF b
    <2>8. PeekAllAsString' = PeekAllAsString \o s
        BY ONLY Zenon, <1>1, <2>1, <2>3, <2>4, <2>5, <2>6, <2>7
    <2> QED BY Zenon, <2>3, <2>8 DEF Queue!Next, Queue!Put
<1>3. ASSUME NEW len \in 0..MaxChunk, Reserve(len) PROVE UNCHANGED Queue!vars
    <2> DEFINE b == EnsureWriteableBytes(len)
    <2>1. <<>> \in Seq(Char) /\ Len(<<>>) = 0 /\ len \in Nat
        BY EmptySeq
    <2>2. b.buffer \in [0..(b.size - 1) -> Char] /\ b.write \in Nat
        BY Zenon, <2>1, EnsureCorrect
    <2>3. /\ read_index_' = b.read /\ write_index_' = b.write
          /\ buffer_' = b.buffer /\ out' = out
        BY Zenon, <1>3 DEF Reserve
    <2>4. \A j \in 1..0 : buffer_'[b.write + j - 1] = <<>>[j]
        OBVIOUS
    <2> HIDE DEF b
    <2>5. b.write + 0 = b.write /\ 0 <= len
        BY <2>2
    <2>6. PeekAllAsString' = PeekAllAsString \o <<>>
        BY Zenon, <1>1, <2>1, <2>2, <2>3, <2>4, <2>5 DEF b
    <2>7. PeekAllAsString' = PeekAllAsString
        BY Zenon, <1>0, <2>6, ReadableSplit, ConcatEmptySeq
    <2> QED BY Zenon, <2>3, <2>7 DEF Queue!vars
<1>4. ASSUME NEW len \in 0..readAbleBytes,
             Retrieve(len) \/ RetrieveAsString(len) \/ RetrieveUntil(len)
                 \/ RetrieveUtilAsString(len)
      PROVE  Queue!Next
    <2>1. buffer_' = buffer_
        BY Zenon, <1>4 DEF Retrieve, RetrieveAsString, RetrieveUntil, RetrieveUtilAsString
    <2>2. \/ read_index_' = read_index_ + len /\ write_index_' = write_index_
          \/ len = readAbleBytes /\ read_index_' = write_index_' /\ read_index_' \in Nat
        BY <1>4 DEF Retrieve, RetrieveAsString, RetrieveUntil, RetrieveUtilAsString,
           RetrieveIndexes, RetrieveAll, readAbleBytes, BufferInv, BufferTypeOK, IndexInvariant
    <2>3. PeekAllAsString' = SubSeq(PeekAllAsString, len + 1, Len(PeekAllAsString))
        BY Zenon, <2>1, <2>2, RemoveFront
    <2>4. out' = out \/ out' = SubSeq(PeekAllAsString, 1, len)
        BY Zenon, <1>4, ReadableSplit DEF Retrieve, RetrieveAsString, RetrieveUntil,
           RetrieveUtilAsString
    <2> QED BY Zenon, <1>0, <2>3, <2>4 DEF Queue!Next, Queue!Drop, Queue!Take
<1>5. ASSUME RetrieveAll, UNCHANGED <<size, buffer_>>,
             out' = out \/ out' = PeekAllAsString
      PROVE  Queue!Next
    <2> DEFINE len == readAbleBytes
    <2>1. len \in 0..readAbleBytes /\ read_index_' = write_index_' /\ read_index_' \in Nat
        BY Zenon, <1>0, <1>5 DEF RetrieveAll
    <2>2. PeekAllAsString' = SubSeq(PeekAllAsString, len + 1, Len(PeekAllAsString))
        BY Zenon, <1>5, <2>1, RemoveFront
    <2>3. out' = out \/ out' = SubSeq(PeekAllAsString, 1, len)
        BY Zenon, <1>5, <2>1, ReadableSplit DEF PeekAllAsString
    <2> QED BY Zenon, <1>0, <2>2, <2>3 DEF Queue!Next, Queue!Drop, Queue!Take
<1>6. CASE UNCHANGED bufferVars
    BY Zenon, <1>6 DEF bufferVars, Queue!vars, PeekAllAsString, PeekAsString, readAbleBytes
<1> QED
    BY Zenon, <1>2, <1>3, <1>4, <1>5, <1>6 DEF BufferNext, RetrieveAllAsString

\* The buffer implements the byte queue: BufferSpec => Queue!Spec.
THEOREM BufferIsQueue == BufferSpec => ImplementsQueue
<1>1. BufferInit => Queue!Init
    <2> SUFFICES ASSUME BufferInit PROVE Queue!Init
        BY Zenon
    <2>1. readAbleBytes = 0
        BY BufferAssumption DEF BufferInit, readAbleBytes
    <2>2. PeekAllAsString = <<>>
        <3>1. 1..0 = {}
            OBVIOUS
        <3> QED BY <2>1, <3>1 DEF PeekAllAsString, PeekAsString
    <2> QED BY Zenon, <2>2 DEF BufferInit, Queue!Init
<1>2. BufferInv /\ [BufferNext]_bufferVars => [Queue!Next]_(Queue!vars)
    BY Zenon, StepSimulation
<1> QED
    BY <1>1, <1>2, IndexesOrdered, PTL DEF BufferSpec, BufferInv, ImplementsQueue, Queue!Spec

=============================================================================
