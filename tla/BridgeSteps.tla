---------------------------- MODULE BridgeSteps -----------------------------
(***************************************************************************)
(* The bytes of the bridge, for any number of them and any nonce: how bytes  *)
(* on their way are kept in order, the invariant of the bridge, and that     *)
(* every step keeps it, given that the frames in front of the bytes are      *)
(* understood.                                                               *)
(***************************************************************************)
EXTENDS Bridge, SequenceTheorems, TLAPS

-----------------------------------------------------------------------------
(* Bytes on their way through the bridge.                                  *)

\* Byte strings, their concatenation and the empty one, by their laws only.
Bytes == Seq(Nat)
Cat(s, t) == s \o t
NoBytes == <<>>

\* The laws of concatenation.
LEMMA CatLaws ==
    /\ NoBytes \in Bytes
    /\ \A s, t \in Bytes : Cat(s, t) \in Bytes
    /\ \A s \in Bytes : Cat(s, NoBytes) = s /\ Cat(NoBytes, s) = s
    /\ \A r, s, t \in Bytes : Cat(Cat(r, s), t) = Cat(r, Cat(s, t))
<1> DEFINE S == Nat
<1> SUFFICES /\ <<>> \in Seq(S)
             /\ \A s, t \in Seq(S) : s \o t \in Seq(S)
             /\ \A s \in Seq(S) : s \o <<>> = s /\ <<>> \o s = s
             /\ \A r, s, t \in Seq(S) : (r \o s) \o t = r \o (s \o t)
  BY Zenon DEF Bytes, Cat, NoBytes
<1> HIDE DEF S
<1>1. <<>> \in Seq(S)
  BY Zenon, EmptySeq
<1>2. \A s \in Seq(S) : s \o <<>> = s /\ <<>> \o s = s
  BY Zenon, ConcatEmptySeq
<1>3. \A s, t \in Seq(S) : s \o t \in Seq(S)
  BY Zenon, ConcatProperties
<1>4. \A r, s, t \in Seq(S) : (r \o s) \o t = r \o (s \o t)
  BY ConcatAssociative
<1> QED BY Zenon, <1>1, <1>2, <1>3, <1>4

\* Joined byte strings are empty only if both are.
LEMMA CatEmpty == \A s, t \in Bytes : Cat(s, t) = NoBytes => s = NoBytes /\ t = NoBytes
<1>1. \A s, t \in Seq(Nat) : s \o t = <<>> => s = <<>> /\ t = <<>>
  BY ConcatProperties, EmptySeq
<1> QED BY <1>1, Zenon DEF Bytes, Cat, NoBytes

\* s is a beginning of t.
Begins(s, t) == \E r \in Bytes : Cat(s, r) = t

\* A beginning is a prefix.
LEMMA BeginsPrefix ==
    ASSUME NEW s \in Bytes, NEW t \in Bytes, Begins(s, t)
    PROVE  \E n \in 0..Len(t) : s = SubSeq(t, 1, n)
<1>1. PICK r \in Seq(Nat) : s \o r = t
  BY Zenon DEF Begins, Bytes, Cat
<1>2. Len(t) = Len(s) + Len(r) /\ Len(s) \in Nat /\ Len(r) \in Nat
  BY Zenon, <1>1, ConcatProperties, LenProperties DEF Bytes
<1>3. SubSeq(t, 1, Len(s)) = s
  BY <1>1, SubSeqOfConcat1, SubSeqFull DEF Bytes
<1>4. Len(s) \in 0..Len(t)
  BY ONLY SMTT(30), <1>2
<1> QED BY Zenon, <1>3, <1>4

\* What is a beginning.
LEMMA BeginsLaws ==
    /\ \A s, t \in Bytes : Begins(s, Cat(s, t))
    /\ \A s \in Bytes : Begins(s, s) /\ Begins(NoBytes, s)
    /\ \A s \in Bytes : Begins(s, NoBytes) => s = NoBytes
    /\ \A s, t, u \in Bytes : Begins(Cat(s, t), u) => Begins(s, u)
    /\ \A s, t, u \in Bytes : Begins(s, t) => Begins(s, Cat(t, u))
    /\ \A s, t, u \in Bytes : Begins(s, t) => Begins(Cat(u, s), Cat(u, t))
<1>1. \A s, t \in Bytes : Begins(s, Cat(s, t))
  BY Zenon DEF Begins
<1>2. \A s \in Bytes : Begins(s, s) /\ Begins(NoBytes, s)
  BY Zenon, CatLaws DEF Begins
<1>3. \A s \in Bytes : Begins(s, NoBytes) => s = NoBytes
  BY Zenon, CatEmpty DEF Begins
<1>4. \A s, t, u \in Bytes : Begins(Cat(s, t), u) => Begins(s, u)
  BY CatLaws DEF Begins
<1>5. \A s, t, u \in Bytes : Begins(s, t) => Begins(s, Cat(t, u))
  BY CatLaws DEF Begins
<1>6. \A s, t, u \in Bytes : Begins(s, t) => Begins(Cat(u, s), Cat(u, t))
  BY CatLaws DEF Begins
<1> QED BY Zenon, <1>1, <1>2, <1>3, <1>4, <1>5, <1>6

-----------------------------------------------------------------------------

\* Bytes s, sent behind a command p, on their way: what an end has read (g) and has under
\* way (l), what the middle Connection has buffered (b) and has under way (m), and the same
\* of the first Connection (c, n). What has been read is a beginning of what was sent; so is
\* all up to the middle one while run, and nothing is missing while whole.
Chain(g, l, b, m, c, n, s, p, run, whole) ==
    /\ Begins(Cat(g, l), s)
    /\ run => Begins(Cat(Cat(g, l), Cat(b, m)), Cat(p, s))
    /\ whole => Cat(Cat(Cat(g, l), Cat(b, m)), Cat(c, n)) = Cat(p, s)

\* Once the end has closed, what it had before it does not matter.
LEMMA BeginsClosed ==
    ASSUME NEW g \in Bytes, NEW l \in Bytes, NEW s \in Bytes, Begins(Cat(g, l), s)
    PROVE  Begins(g, s) /\ Begins(Cat(g, NoBytes), s)
  BY Zenon, CatLaws, BeginsLaws

\* The end reads.
LEMMA ChainRead ==
    ASSUME NEW g \in Bytes, NEW l \in Bytes, NEW b, NEW m, NEW c, NEW n, NEW s, NEW p,
           NEW run, NEW whole, Chain(g, l, b, m, c, n, s, p, run, whole)
    PROVE  Chain(Cat(g, l), NoBytes, b, m, c, n, s, p, run, whole)
  BY Zenon, CatLaws DEF Chain

\* The other end sends.
LEMMA ChainSend ==
    ASSUME NEW g \in Bytes, NEW l \in Bytes, NEW b \in Bytes, NEW m \in Bytes,
           NEW c \in Bytes, NEW n \in Bytes, NEW s \in Bytes, NEW p \in Bytes,
           NEW run, NEW whole, NEW x \in Bytes, Chain(g, l, b, m, c, n, s, p, run, whole)
    PROVE  /\ Chain(g, l, b, m, c, Cat(n, x), Cat(s, x), p, run, whole)
           /\ ~whole => Chain(g, l, b, m, c, n, Cat(s, x), p, run, whole)
<1> DEFINE H == Cat(Cat(g, l), Cat(b, m))
<1>1. Cat(g, l) \in Bytes /\ H \in Bytes /\ Cat(p, s) \in Bytes
  BY Zenon, CatLaws
<1>2. Cat(p, Cat(s, x)) = Cat(Cat(p, s), x)
  BY CatLaws
<1>5. Cat(H, Cat(c, Cat(n, x))) = Cat(Cat(H, Cat(c, n)), x)
  <2> HIDE DEF H
  <2>1. Cat(c, Cat(n, x)) = Cat(Cat(c, n), x) /\ Cat(c, n) \in Bytes
    BY CatLaws
  <2> QED BY ONLY <1>1, <2>1, x \in Bytes, CatLaws
<1>3. Begins(Cat(g, l), Cat(s, x))
  BY Zenon, <1>1, BeginsLaws DEF Chain
<1>4. run => Begins(H, Cat(p, Cat(s, x)))
  BY Zenon, <1>1, <1>2, BeginsLaws DEF Chain
<1> QED BY Zenon, <1>2, <1>3, <1>4, <1>5 DEF Chain

\* The first Connection reads t of the bytes under way to it and keeps them.
LEMMA ChainFirstKeeps ==
    ASSUME NEW c \in Bytes, NEW t \in Bytes, NEW u \in Bytes,
           NEW g, NEW l, NEW b, NEW m, NEW s, NEW p, NEW run, NEW whole,
           Chain(g, l, b, m, c, Cat(t, u), s, p, run, whole)
    PROVE  Chain(g, l, b, m, Cat(c, t), u, s, p, run, whole)
  BY CatLaws DEF Chain

\* So does the middle one.
LEMMA ChainMiddleKeeps ==
    ASSUME NEW b \in Bytes, NEW t \in Bytes, NEW u \in Bytes,
           NEW g, NEW l, NEW c, NEW n, NEW s, NEW p, NEW run, NEW whole,
           Chain(g, l, b, Cat(t, u), c, n, s, p, run, whole)
    PROVE  Chain(g, l, Cat(b, t), u, c, n, s, p, run, whole)
  BY ZenonT(40), CatLaws DEF Chain

\* The first Connection passes on what it has to the middle one.
LEMMA ChainFirstPasses ==
    ASSUME NEW g \in Bytes, NEW l \in Bytes, NEW b \in Bytes, NEW m \in Bytes,
           NEW c \in Bytes, NEW t \in Bytes, NEW u \in Bytes,
           NEW s \in Bytes, NEW p \in Bytes, NEW run, NEW whole, run => whole,
           Chain(g, l, b, m, c, Cat(t, u), s, p, run, whole)
    PROVE  Chain(g, l, b, Cat(m, Cat(c, t)), NoBytes, u, s, p, run, whole)
<1> DEFINE H == Cat(Cat(g, l), Cat(b, m))
           T == Cat(c, t)
<1>1. T \in Bytes /\ H \in Bytes /\ Cat(H, T) \in Bytes
  BY Zenon, CatLaws
<1>2. Cat(Cat(g, l), Cat(b, Cat(m, T))) = Cat(H, T)
  <2>1. T \in Bytes /\ Cat(g, l) \in Bytes /\ Cat(b, m) \in Bytes
    BY Zenon, CatLaws
  <2> HIDE DEF T
  <2>2. Cat(b, Cat(m, T)) = Cat(Cat(b, m), T)
    BY <2>1, CatLaws
  <2> QED BY ONLY <2>1, <2>2, CatLaws DEF H
<1>3. Cat(H, Cat(c, Cat(t, u))) = Cat(Cat(H, T), u)
  <2> HIDE DEF H
  <2> QED BY <1>1, CatLaws
<1>4. Cat(NoBytes, u) = u
  BY Zenon, CatLaws
<1>5. run => Begins(Cat(H, T), Cat(p, s))
  BY <1>1, <1>3, BeginsLaws DEF Chain
<1> QED BY Zenon, <1>2, <1>3, <1>4, <1>5 DEF Chain

\* The middle Connection passes on what it has to the end.
LEMMA ChainMiddlePasses ==
    ASSUME NEW g \in Bytes, NEW l \in Bytes, NEW b \in Bytes, NEW t \in Bytes,
           NEW u \in Bytes, NEW c, NEW n, NEW s \in Bytes, NEW run, NEW whole, run,
           Chain(g, l, b, Cat(t, u), c, n, s, NoBytes, run, whole)
    PROVE  Chain(g, Cat(l, Cat(b, t)), NoBytes, u, c, n, s, NoBytes, run, whole)
<1> DEFINE E == Cat(Cat(g, l), Cat(b, t))
<1>1. E \in Bytes
  BY Zenon, CatLaws
<1>2. Cat(g, Cat(l, Cat(b, t))) = E
  BY CatLaws
<1>3. Cat(Cat(g, l), Cat(b, Cat(t, u))) = Cat(E, u)
  <2>1. Cat(b, Cat(t, u)) = Cat(Cat(b, t), u)
    BY CatLaws
  <2>2. Cat(g, l) \in Bytes /\ Cat(b, t) \in Bytes
    BY Zenon, CatLaws
  <2> QED BY <2>1, <2>2, CatLaws
<1>4. Cat(NoBytes, u) = u /\ Cat(NoBytes, s) = s
  BY Zenon, CatLaws
<1>5. Begins(E, s)
  <2> HIDE DEF E
  <2> QED BY <1>1, <1>3, <1>4, BeginsLaws DEF Chain
<1> QED BY Zenon, <1>2, <1>3, <1>4, <1>5 DEF Chain

\* The first k bytes and the others make up the whole.
LEMMA CutBytes ==
    ASSUME NEW s \in Bytes, NEW k \in Nat, k <= Len(s)
    PROVE  /\ SubSeq(s, 1, k) \in Bytes /\ SubSeq(s, k + 1, Len(s)) \in Bytes
           /\ s = Cat(SubSeq(s, 1, k), SubSeq(s, k + 1, Len(s)))
           /\ Len(SubSeq(s, 1, k)) = k
<1>1. s \in Seq(Nat) /\ Len(s) \in Nat
  BY Zenon, LenProperties DEF Bytes
<1>2. SubSeq(s, 1, k) \in Seq(Nat) /\ Len(SubSeq(s, 1, k)) = k /\ SubSeq(s, k + 1, Len(s)) \in Seq(Nat)
  <2>1. \A i \in 1..k : s[i] \in Nat
    BY ONLY <1>1, k \in Nat, k <= Len(s)
  <2>2. \A i \in (k + 1)..Len(s) : s[i] \in Nat
    BY ONLY <1>1, k \in Nat
  <2>3. 1 \in Int /\ k \in Int /\ k + 1 \in Int /\ Len(s) \in Int
    BY ONLY <1>1, k \in Nat
  <2>4. SubSeq(s, 1, k) \in Seq(Nat) /\ SubSeq(s, k + 1, Len(s)) \in Seq(Nat)
    BY Zenon, <2>1, <2>2, <2>3, SubSeqProperties
  <2>5. Len(SubSeq(s, 1, k)) = IF 1 <= k THEN k - 1 + 1 ELSE 0
    BY ONLY <2>1, <2>3, SubSeqProperties
  <2>6. (IF 1 <= k THEN k - 1 + 1 ELSE 0) = k
    BY ONLY k \in Nat
  <2> QED BY ONLY SMTT(30), <2>4, <2>5, <2>6
<1>3. SubSeq(s, 1, k) \o SubSeq(s, k + 1, Len(s)) = SubSeq(s, 1, Len(s))
  <2>1. 1 \in 1..Len(s) + 1 /\ k \in 1 - 1 .. Len(s) /\ Len(s) \in k..Len(s)
    BY <1>1
  <2> QED BY Zenon, <1>1, <2>1, ConcatAdjacentSubSeq
<1>4. SubSeq(s, 1, Len(s)) = s
  BY Zenon, <1>1, SubSeqFull
<1> QED BY <1>2, <1>3, <1>4, Zenon DEF Bytes, Cat

\* A frame is understood: once canReadMsg finds a message in bytes s that begin the frame
\* and t follows, what AfterMessage leaves of s is what is behind the frame in front of t;
\* until then nothing of s is taken.
Understood(frame) ==
    \A rest, s, t \in Bytes :
        Cat(s, t) = Cat(frame, rest) =>
            /\ LeftOnZero(s) = s
            /\ canReadMsg(s) > 0 =>
                 /\ AfterMessage(s, canReadMsg(s)) \in Bytes
                 /\ Cat(AfterMessage(s, canReadMsg(s)), t) = rest

\* The hello of the data channel and the start command are. That is a matter of the wire.
FramesKnown ==
    /\ do_data_channel_handshake \in Bytes /\ StartCmd \in Bytes
    /\ Understood(do_data_channel_handshake) /\ Understood(StartCmd)

\* Reading such a frame, wherever the bytes are cut.
LEMMA FrameTaken ==
    ASSUME NEW frame, Understood(frame), NEW rest \in Bytes, NEW s \in Bytes, NEW t \in Bytes,
           Cat(s, t) = Cat(frame, rest), canReadMsg(s) > 0
    PROVE  /\ AfterMessage(s, canReadMsg(s)) \in Bytes
           /\ Cat(AfterMessage(s, canReadMsg(s)), t) = rest
  BY Zenon DEF Understood

\* A part of such a frame stays in the buffer.
LEMMA FrameWaits ==
    ASSUME NEW frame, Understood(frame), NEW rest \in Bytes, NEW s \in Bytes, NEW t \in Bytes,
           Cat(s, t) = Cat(frame, rest)
    PROVE  LeftOnZero(s) = s
  BY Zenon DEF Understood

\* The bytes an end sends first.
Sends(e, n) == [i \in 1..n |-> ByteOf(e, i)]
\* What an end has sent grows at its end by a byte at a time.
LEMMA SendsBytes ==
    ASSUME NEW e \in Ends
    PROVE  /\ Sends(e, 0) = NoBytes
           /\ \A n \in Nat : /\ Sends(e, n) \in Bytes
                             /\ <<ByteOf(e, n + 1)>> \in Bytes
                             /\ Sends(e, n + 1) = Cat(Sends(e, n), <<ByteOf(e, n + 1)>>)
           /\ Sent(e) = Sends(e, sent[e])
<1>1. \A n \in Nat : ByteOf(e, n) \in Nat
  BY DEF ByteOf
<1>2. Sends(e, 0) = NoBytes
  BY DEF Sends, NoBytes
<1>3. ASSUME NEW n \in Nat
      PROVE  /\ Sends(e, n) \in Bytes
             /\ <<ByteOf(e, n + 1)>> \in Bytes
             /\ Sends(e, n + 1) = Cat(Sends(e, n), <<ByteOf(e, n + 1)>>)
  <2> DEFINE x == ByteOf(e, n + 1)
             s == Sends(e, n)
             t == Sends(e, n + 1)
  <2>1. x \in Nat /\ <<x>> \in Seq(Nat)
    BY <1>1
  <2>2. s \in Seq(Nat) /\ Len(s) = n /\ \A i \in 1..n : s[i] = ByteOf(e, i)
    BY <1>1 DEF Sends
  <2>3. t \in Seq(Nat) /\ Len(t) = n + 1 /\ \A i \in 1..n + 1 : t[i] = ByteOf(e, i)
    BY <1>1 DEF Sends
  <2> HIDE DEF s, t
  <2>4. /\ Append(s, x) \in Seq(Nat) /\ Len(Append(s, x)) = n + 1
        /\ \A i \in 1..n + 1 : Append(s, x)[i] = ByteOf(e, i)
    <3> HIDE DEF x
    <3>1. /\ Append(s, x) \in Seq(Nat) /\ Len(Append(s, x)) = n + 1
          /\ \A i \in 1..n : Append(s, x)[i] = s[i]
          /\ Append(s, x)[n + 1] = x
      BY <2>1, <2>2, AppendProperties
    <3> QED BY <2>2, <3>1 DEF x
  <2>5. t = Append(s, x)
    <3> HIDE DEF x
    <3> QED BY Zenon, <2>3, <2>4, SeqEqual
  <2>6. Append(s, x) = s \o <<x>>
    <3> HIDE DEF x
    <3> QED BY Zenon, <2>1, <2>2, AppendIsConcat
  <2> QED BY <2>1, <2>2, <2>5, <2>6, Zenon DEF Bytes, Cat, s, t
<1>4. Sent(e) = Sends(e, sent[e])
  BY Zenon DEF Sent, Sends
<1> QED BY Zenon, <1>2, <1>3, <1>4

-----------------------------------------------------------------------------
(* The invariant of the bridge.                                            *)

Processes == {"ncxs", "ncxc"}
Deaths == {"no", "killed", "sigpipe", "deleted", "refused", "null"}

BridgeTypes ==
    /\ sent \in [Ends -> Nat] /\ got \in [Ends -> Bytes]
    /\ link \in [Nodes -> Bytes] /\ buf \in [Connections -> Bytes]
    /\ fin \subseteq Nodes /\ open \subseteq Nodes /\ left \subseteq Ends
    /\ bridged \in BOOLEAN /\ started \in BOOLEAN
    /\ died \in [Processes -> Deaths]

\* What has not happened yet.
Stages ==
    /\ started => bridged
    /\ ~started => /\ "service" \notin open /\ "X" \notin open
                   /\ got["X"] = NoBytes /\ link["X"] = NoBytes /\ link["service"] = NoBytes
                   /\ sent["X"] = 0
    /\ ~bridged => /\ buf["server"] = NoBytes /\ link["server"] = NoBytes
                   /\ got["V"] = NoBytes /\ link["V"] = NoBytes
                   /\ "origin" \in open =>
                        Cat(buf["origin"], link["origin"]) = do_data_channel_handshake
                   /\ Begins(buf["visitor"], Sends("V", sent["V"]))
    /\ "origin" \in fin => "server" \notin open
    /\ buf["service"] = NoBytes
    /\ \A p \in Processes : died[p] # "no" => Of[p] \cap open = {}

\* The command in front of the visitor's bytes.
Ahead == IF bridged /\ ~started THEN StartCmd ELSE NoBytes
ToX == started => "service" \in open /\ "X" \in open
UpRun == "server" \in open /\ ToX
UpWhole == "visitor" \in open /\ (bridged => "server" \in open) /\ ToX
Up == Chain(got["X"], link["X"], buf["server"], link["server"], buf["visitor"], link["visitor"],
            Sends("V", sent["V"]), Ahead, UpRun, UpWhole)

DownRun == bridged /\ "origin" \in open /\ "visitor" \in open /\ "V" \in open
DownWhole == started /\ DownRun /\ "service" \in open
Down == Chain(got["V"], link["V"], buf["origin"], link["origin"], buf["service"], link["service"],
              Sends("X", sent["X"]), NoBytes, DownRun, DownWhole)

\* All is up while nobody has left or been stopped.
Calm ==
    Undisturbed =>
        /\ \A p \in Processes : died[p] = "no"
        /\ fin = {}
        /\ "V" \in open /\ "visitor" \in open /\ "origin" \in open /\ "server" \in open /\ ToX

Steady == BridgeTypes /\ Stages /\ Up /\ Down
BridgeInv == Steady /\ Calm

-----------------------------------------------------------------------------

\* The nodes by name.
LEMMA Names ==
    /\ Ends \subseteq Nodes /\ Connections \subseteq Nodes
    /\ "V" \in Ends /\ "X" \in Ends
    /\ "visitor" \in Connections /\ "origin" \in Connections
    /\ "server" \in Connections /\ "service" \in Connections
    /\ Peer["V"] = "visitor" /\ Peer["visitor"] = "V" /\ Peer["origin"] = "server"
    /\ Peer["server"] = "origin" /\ Peer["service"] = "X" /\ Peer["X"] = "service"
    /\ Of["ncxs"] = {"visitor", "origin"} /\ Of["ncxc"] = {"server", "service"}
    /\ \A n \in Nodes : Peer[n] \in Nodes
  BY DEF Ends, Connections, Nodes, Peer, Of

\* The invariant holds when a visitor has been accepted.
LEMMA InitInv == FramesKnown /\ Init => BridgeInv
<1> SUFFICES ASSUME FramesKnown, Init PROVE BridgeInv
  BY Zenon
<1>1. NoBytes \in Bytes /\ do_data_channel_handshake \in Bytes /\ StartCmd \in Bytes
  BY Zenon, CatLaws DEF FramesKnown
<1>2. /\ sent["V"] = 0 /\ sent["X"] = 0 /\ got["V"] = NoBytes /\ got["X"] = NoBytes
      /\ link["V"] = NoBytes /\ link["visitor"] = NoBytes /\ link["server"] = NoBytes
      /\ link["service"] = NoBytes /\ link["X"] = NoBytes /\ link["origin"] = do_data_channel_handshake
      /\ buf["visitor"] = NoBytes /\ buf["origin"] = NoBytes /\ buf["server"] = NoBytes
      /\ buf["service"] = NoBytes
      /\ bridged = FALSE /\ started = FALSE
      /\ open = {"V", "visitor", "origin", "server"} /\ fin = {} /\ left = {}
      /\ \A p \in Processes : died[p] = "no"
  BY Zenon DEF Init, NoBytes, Ends, Connections, Nodes, Processes
<1>3. BridgeTypes
  <2>1. /\ sent \in [Ends -> Nat] /\ got \in [Ends -> Bytes] /\ buf \in [Connections -> Bytes]
        /\ died \in [Processes -> Deaths]
    BY Zenon, <1>1 DEF Init, NoBytes, Processes, Deaths
  <2>2. link \in [Nodes -> Bytes]
    BY Zenon, <1>1 DEF Init, NoBytes
  <2>3. fin \subseteq Nodes /\ open \subseteq Nodes /\ left \subseteq Ends
    BY Zenon, <1>2 DEF Nodes, Ends, Connections
  <2> QED BY Zenon, <1>2, <2>1, <2>2, <2>3 DEF BridgeTypes
<1>4. Sends("V", 0) = NoBytes /\ Sends("X", 0) = NoBytes
  BY Zenon, SendsBytes, Names
<1>5. Stages
  <2>1. Cat(NoBytes, do_data_channel_handshake) = do_data_channel_handshake
    BY Zenon, <1>1, CatLaws
  <2>2. Begins(NoBytes, NoBytes)
    BY Zenon, <1>1, BeginsLaws
  <2> QED BY Zenon, <1>2, <1>4, <2>1, <2>2 DEF Stages
<1>6. Ahead = NoBytes
  BY Zenon, <1>2 DEF Ahead
<1>7. Cat(NoBytes, NoBytes) = NoBytes
  BY Zenon, CatLaws
<1>8. Begins(NoBytes, NoBytes)
  BY Zenon, CatLaws, BeginsLaws
<1>9. Up
  BY Zenon, <1>2, <1>4, <1>6, <1>7, <1>8 DEF Up, Chain
<1>10. Down
  BY Zenon, <1>2, <1>4, <1>7, <1>8 DEF Down, Chain, DownRun, DownWhole
<1>11. Calm
  BY Zenon, <1>2 DEF Calm, ToX
<1> QED BY Zenon, <1>3, <1>5, <1>9, <1>10, <1>11 DEF BridgeInv, Steady

\* A process that has a Connection open has not ended.
LEMMA OpenAlive ==
    ASSUME FramesKnown, BridgeTypes, Stages
    PROVE  /\ "visitor" \in open \/ "origin" \in open => died["ncxs"] = "no"
           /\ "server" \in open \/ "service" \in open => died["ncxc"] = "no"
  BY Zenon, Names DEF Stages, Processes

\* Of the bytes under way to c the first k are read.
LEMMA Reads ==
    ASSUME BridgeTypes, NEW c \in Connections, NEW k, NEW end, CanRead(c, k, end)
    PROVE  \E t, u \in Bytes :
               /\ link[c] = Cat(t, u)
               /\ Input(c, k) = Cat(buf[c], t)
               /\ SubSeq(link[c], k + 1, Len(link[c])) = u
               /\ k > 0 => link[c] # NoBytes
<1>1. link[c] \in Bytes /\ Len(link[c]) \in Nat /\ k \in 0..Len(link[c])
  BY Zenon, LenProperties, Names DEF BridgeTypes, CanRead, Bytes
<1>2. k \in Nat /\ k <= Len(link[c])
  BY <1>1
<1> DEFINE t == SubSeq(link[c], 1, k)
           u == SubSeq(link[c], k + 1, Len(link[c]))
<1>3. t \in Bytes /\ u \in Bytes /\ link[c] = Cat(t, u)
  BY Zenon, <1>1, <1>2, CutBytes
<1>4. Input(c, k) = Cat(buf[c], t)
  BY Zenon DEF Input, Cat
<1>5. k > 0 => link[c] # NoBytes
  <2>1. Len(<<>>) = 0
    BY Zenon
  <2> QED BY <1>2, <2>1 DEF NoBytes
<1> HIDE DEF t
<1> QED BY Zenon, <1>3, <1>4, <1>5

\* What Sockets does to the bytes under way.
LEMMA SocketsLinks ==
    ASSUME FramesKnown, BridgeTypes, NEW c, NEW k, NEW closed, NEW fresh, NEW to, NEW bytes,
           Sockets(c, k, closed, fresh, to, bytes)
    PROVE  /\ \A n \in closed \cap Nodes : link'[n] = NoBytes
           /\ \A n \in Nodes : n = c /\ n \notin closed =>
                  link'[n] = SubSeq(link[c], k + 1, Len(link[c]))
           /\ \A n \in Nodes :
                  n = Peer[to] /\ n # c /\ n \notin closed /\ n \in open \cup fresh =>
                      link'[n] = Cat(link[n], bytes)
           /\ \A n \in Nodes :
                  n \notin closed /\ n # c /\ (n # Peer[to] \/ n \notin open \cup fresh) =>
                      link'[n] = link[n]
           /\ link' = [n \in Nodes |-> link'[n]]
           /\ open' = (open \cup fresh) \ closed
           /\ fin' = fin \cup {Peer[n] : n \in closed}
           /\ sent' = sent /\ got' = got /\ left' = left
<1>1. \A n \in Nodes :
        link'[n] = IF n \in closed THEN <<>>
                   ELSE IF n = c THEN SubSeq(link[c], k + 1, Len(link[c]))
                   ELSE IF n = Peer[to] /\ n \in open \cup fresh THEN link[n] \o bytes
                   ELSE link[n]
  BY Zenon DEF Sockets
<1>2. link' = [n \in Nodes |-> link'[n]]
  BY Zenon DEF Sockets
<1>3. /\ open' = (open \cup fresh) \ closed
      /\ fin' = fin \cup {Peer[n] : n \in closed}
      /\ sent' = sent /\ got' = got /\ left' = left
  BY Zenon DEF Sockets
<1>4. \A n \in closed \cap Nodes : link'[n] = NoBytes
  BY <1>1, Zenon DEF NoBytes
<1>5. \A n \in Nodes : n = c /\ n \notin closed =>
                  link'[n] = SubSeq(link[c], k + 1, Len(link[c]))
  BY <1>1, Zenon
<1>6. \A n \in Nodes :
                  n = Peer[to] /\ n # c /\ n \notin closed /\ n \in open \cup fresh =>
                      link'[n] = Cat(link[n], bytes)
  BY <1>1, Zenon DEF Cat
<1>7. \A n \in Nodes :
                  n \notin closed /\ n # c /\ (n # Peer[to] \/ n \notin open \cup fresh) =>
                      link'[n] = link[n]
  BY <1>1, Zenon
<1> QED BY Zenon, <1>2, <1>3, <1>4, <1>5, <1>6, <1>7

\* The bytes of the chains.
LEMMA Typed ==
    ASSUME FramesKnown, BridgeTypes
    PROVE  /\ \A e \in Ends : got[e] \in Bytes /\ sent[e] \in Nat /\ Sends(e, sent[e]) \in Bytes
           /\ \A n \in Nodes : link[n] \in Bytes
           /\ \A c \in Connections : buf[c] \in Bytes
           /\ Ahead \in Bytes /\ NoBytes \in Bytes
  BY Zenon, SendsBytes, CatLaws DEF FramesKnown, BridgeTypes, Ahead

\* A process ends.
LEMMA DiesSteady ==
    ASSUME FramesKnown, Steady, NEW p \in Processes, NEW why \in Deaths, Dies(p, why)
    PROVE  Steady'
<1> USE DEF Steady
<1>1. /\ \A n \in Nodes \cap Of[p] : link'[n] = NoBytes
      /\ \A n \in Nodes \ Of[p] : link'[n] = link[n]
      /\ link' \in [Nodes -> Bytes]
      /\ open' = open \ Of[p]
      /\ fin' = fin \cup {Peer[n] : n \in Of[p] \cap open}
      /\ sent' = sent /\ got' = got /\ buf' = buf /\ bridged' = bridged /\ started' = started
      /\ left' = left /\ died' = [died EXCEPT ![p] = why]
  <2>1. \A n \in Nodes : link'[n] = IF n \in Of[p] THEN NoBytes ELSE link[n]
    BY Zenon DEF Dies, NoBytes
  <2>2. link' = [n \in Nodes |-> link'[n]]
    BY Zenon DEF Dies
  <2>3. \A n \in Nodes : link'[n] \in Bytes
    BY Zenon, <2>1, Typed
  <2> QED BY Zenon, <2>1, <2>2, <2>3 DEF Dies
<1>2. BridgeTypes'
  <2>1. died' \in [Processes -> Deaths]
    BY Zenon, <1>1 DEF BridgeTypes
  <2>2. fin' \subseteq Nodes /\ open' \subseteq Nodes
    BY <1>1, Names DEF BridgeTypes
  <2> QED BY Zenon, <1>1, <2>1, <2>2 DEF BridgeTypes
<1>3. Ahead' = Ahead
  BY Zenon, <1>1 DEF Ahead
<1>4. CASE p = "ncxs"
  <2>1. /\ link'["visitor"] = NoBytes /\ link'["origin"] = NoBytes
        /\ link'["V"] = link["V"] /\ link'["X"] = link["X"]
        /\ link'["server"] = link["server"] /\ link'["service"] = link["service"]
        /\ open' = open \ {"visitor", "origin"}
    BY Zenon, <1>1, <1>4, Names DEF Nodes, Ends, Connections
  <2>2. Stages'
    <3>1. \A q \in Processes : died'[q] # "no" => Of[q] \cap open' = {}
      BY Zenon, <1>1, <1>4, <2>1, Names DEF Stages, Processes, BridgeTypes
    <3>2. "origin" \in fin' => "origin" \in fin
      <4>1. \A n \in Of[p] : Peer[n] # "origin"
        BY <1>4 DEF Of, Peer
      <4> QED BY Zenon, <1>1, <4>1
    <3> QED BY Zenon, <1>1, <2>1, <3>1, <3>2 DEF Stages
  <2>3. Up'
    <3>1. ~UpWhole' /\ (UpRun' => UpRun)
      BY Zenon, <1>1, <2>1 DEF UpWhole, UpRun, ToX
    <3> QED BY Zenon, <1>1, <1>3, <2>1, <3>1 DEF Up, Chain
  <2>4. Down'
    <3>1. ~DownWhole' /\ ~DownRun'
      BY Zenon, <2>1 DEF DownWhole, DownRun
    <3> QED BY Zenon, <1>1, <2>1, <3>1 DEF Down, Chain
  <2> QED BY Zenon, <1>2, <2>2, <2>3, <2>4
<1>5. CASE p = "ncxc"
  <2>1. /\ link'["server"] = NoBytes /\ link'["service"] = NoBytes
        /\ link'["V"] = link["V"] /\ link'["X"] = link["X"]
        /\ link'["visitor"] = link["visitor"] /\ link'["origin"] = link["origin"]
        /\ open' = open \ {"server", "service"}
    BY Zenon, <1>1, <1>5, Names DEF Nodes, Ends, Connections
  <2>2. Stages'
    <3>1. \A q \in Processes : died'[q] # "no" => Of[q] \cap open' = {}
      BY Zenon, <1>1, <1>5, <2>1, Names DEF Stages, Processes, BridgeTypes
    <3> QED BY Zenon, <1>1, <2>1, <3>1 DEF Stages
  <2>3. Up'
    <3>1. ~UpRun'
      BY Zenon, <2>1 DEF UpRun
    <3>2. CASE bridged
      <4>1. ~UpWhole'
        BY Zenon, <1>1, <2>1, <3>2 DEF UpWhole
      <4> QED BY Zenon, <1>1, <1>3, <2>1, <3>1, <4>1 DEF Up, Chain
    <3>3. CASE ~bridged
      <4>1. UpWhole' => UpWhole
        BY Zenon, <1>1, <2>1, <3>3 DEF UpWhole, ToX, Stages
      <4>2. link'["server"] = link["server"]
        BY Zenon, <2>1, <3>3 DEF Stages
      <4> QED BY Zenon, <1>1, <1>3, <2>1, <3>1, <4>1, <4>2 DEF Up, Chain
    <3> QED BY Zenon, <3>2, <3>3
  <2>4. Down'
    <3>1. ~DownWhole' /\ (DownRun' => DownRun)
      BY Zenon, <1>1, <2>1 DEF DownWhole, DownRun
    <3> QED BY Zenon, <1>1, <2>1, <3>1 DEF Down, Chain
  <2> QED BY Zenon, <1>2, <2>2, <2>3, <2>4
<1> QED BY Zenon, <1>4, <1>5 DEF Processes

\* A process ends when nobody stopped it: only after an end has left or the other
\* process has.
LEMMA DiesDisturbed ==
    ASSUME FramesKnown, BridgeTypes, NEW p \in Processes, died[p] = "no", NEW why, Dies(p, why),
           Undisturbed'
    PROVE  Undisturbed /\ why \notin {"refused", "killed"}
  BY Zenon DEF Undisturbed, Dies, BridgeTypes, Processes

\* Somebody stops a process.
LEMMA KilledStep ==
    ASSUME FramesKnown, BridgeInv, NEW p \in Processes, Killed(p) PROVE BridgeInv'
<1>1. Steady'
  BY Zenon, DiesSteady DEF BridgeInv, Killed, Deaths
<1>2. ~Undisturbed'
  BY Zenon, DiesDisturbed DEF BridgeInv, Steady, Killed
<1> QED BY Zenon, <1>1, <1>2 DEF BridgeInv, Calm

-----------------------------------------------------------------------------
(* One lemma per action.                                                   *)

\* An end sends a byte.
LEMMA EndSendsStep ==
    ASSUME FramesKnown, BridgeInv, NEW e \in Ends, EndSends(e) PROVE BridgeInv'
<1> USE DEF BridgeInv, Steady
<1> DEFINE x == <<ByteOf(e, sent[e] + 1)>>
<1>1. /\ e \in open /\ sent' = [sent EXCEPT ![e] = @ + 1]
      /\ got' = got /\ fin' = fin /\ open' = open /\ buf' = buf /\ bridged' = bridged
      /\ started' = started /\ left' = left /\ died' = died
  BY Zenon DEF EndSends
<1>2. sent[e] \in Nat /\ x \in Bytes /\ ByteOf(e, sent[e] + 1) \in Nat
      /\ Sends(e, sent[e] + 1) = Cat(Sends(e, sent[e]), x)
  <2>1. sent[e] \in Nat
    BY Zenon DEF BridgeTypes
  <2>2. ByteOf(e, sent[e] + 1) \in Nat
    BY <2>1 DEF ByteOf
  <2> QED BY Zenon, <2>1, <2>2, SendsBytes
<1>3. link' = IF Peer[e] \in open THEN [link EXCEPT ![Peer[e]] = Cat(link[Peer[e]], x)] ELSE link
  <2>1. Peer[e] \in Nodes
    BY Zenon, Names
  <2>2. link[Peer[e]] \in Seq(Nat)
    BY Zenon, <2>1, Typed DEF Bytes
  <2>3. Append(link[Peer[e]], ByteOf(e, sent[e] + 1)) = Cat(link[Peer[e]], x)
    BY Zenon, <1>2, <2>2, AppendIsConcat DEF Cat
  <2> QED BY Zenon, <2>3 DEF EndSends
<1> HIDE DEF x
<1>4. BridgeTypes'
  <2>1. sent' \in [Ends -> Nat]
    BY <1>1, <1>2 DEF BridgeTypes
  <2>2. Peer[e] \in Nodes /\ Cat(link[Peer[e]], x) \in Bytes
    BY Zenon, <1>2, Names, Typed, CatLaws
  <2>3. link' \in [Nodes -> Bytes]
    BY Zenon, <1>3, <2>2 DEF BridgeTypes
  <2> QED BY Zenon, <1>1, <2>1, <2>3 DEF BridgeTypes
<1>5. Ahead' = Ahead /\ UpRun' = UpRun /\ UpWhole' = UpWhole /\ DownRun' = DownRun /\ DownWhole' = DownWhole
  BY Zenon, <1>1 DEF Ahead, UpRun, UpWhole, ToX, DownRun, DownWhole
<1>6. Calm'
  BY Zenon, <1>1 DEF Calm, Undisturbed, ToX
<1>7. CASE e = "V"
  <2>1. /\ sent'["V"] = sent["V"] + 1 /\ sent'["X"] = sent["X"]
        /\ link'["V"] = link["V"] /\ link'["X"] = link["X"] /\ link'["origin"] = link["origin"]
        /\ link'["server"] = link["server"] /\ link'["service"] = link["service"]
        /\ "visitor" \in open => link'["visitor"] = Cat(link["visitor"], x)
        /\ "visitor" \notin open => link'["visitor"] = link["visitor"]
    BY <1>1, <1>3, <1>7, Names DEF BridgeTypes, Nodes, Ends, Connections
  <2>2. Sends("V", sent["V"] + 1) = Cat(Sends("V", sent["V"]), x)
    BY Zenon, <1>2, <1>7
  <2>3. /\ got["X"] \in Bytes /\ link["X"] \in Bytes /\ buf["server"] \in Bytes
        /\ link["server"] \in Bytes /\ buf["visitor"] \in Bytes /\ link["visitor"] \in Bytes
        /\ Sends("V", sent["V"]) \in Bytes /\ Ahead \in Bytes /\ x \in Bytes
    BY Zenon, <1>2, Names, Typed
  <2>4. Stages'
    <3>1. Begins(buf["visitor"], Sends("V", sent["V"])) => Begins(buf["visitor"], Sends("V", sent["V"] + 1))
      BY <2>2, <2>3, BeginsLaws
    <3> QED BY Zenon, <1>1, <2>1, <3>1 DEF Stages
  <2>5. Up'
    <3>1. UpWhole => "visitor" \in open
      BY Zenon DEF UpWhole
    <3>4. /\ Chain(got["X"], link["X"], buf["server"], link["server"], buf["visitor"], Cat(link["visitor"], x),
                   Cat(Sends("V", sent["V"]), x), Ahead, UpRun, UpWhole)
          /\ ~UpWhole => Chain(got["X"], link["X"], buf["server"], link["server"], buf["visitor"], link["visitor"],
                                Cat(Sends("V", sent["V"]), x), Ahead, UpRun, UpWhole)
      BY ZenonT(40), <2>3, ChainSend DEF Up
    <3>2. CASE "visitor" \in open
      BY Zenon, <1>1, <1>5, <2>1, <2>2, <3>2, <3>4 DEF Up
    <3>3. CASE "visitor" \notin open
      <4>1. Chain(got["X"], link["X"], buf["server"], link["server"], buf["visitor"], link["visitor"],
                  Cat(Sends("V", sent["V"]), x), Ahead, UpRun, UpWhole)
        BY Zenon, <3>1, <3>3, <3>4
      <4> QED BY Zenon, <1>1, <1>5, <2>1, <2>2, <3>3, <4>1 DEF Up
    <3> QED BY Zenon, <3>2, <3>3
  <2>6. Down'
    BY Zenon, <1>1, <1>5, <2>1 DEF Down
  <2> QED BY Zenon, <1>4, <1>6, <2>4, <2>5, <2>6
<1>8. CASE e = "X"
  <2>1. /\ sent'["X"] = sent["X"] + 1 /\ sent'["V"] = sent["V"]
        /\ link'["V"] = link["V"] /\ link'["X"] = link["X"] /\ link'["origin"] = link["origin"]
        /\ link'["server"] = link["server"] /\ link'["visitor"] = link["visitor"]
        /\ "service" \in open => link'["service"] = Cat(link["service"], x)
        /\ "service" \notin open => link'["service"] = link["service"]
    BY <1>1, <1>3, <1>8, Names DEF BridgeTypes, Nodes, Ends, Connections
  <2>2. Sends("X", sent["X"] + 1) = Cat(Sends("X", sent["X"]), x)
    BY Zenon, <1>2, <1>8
  <2>3. /\ got["V"] \in Bytes /\ link["V"] \in Bytes /\ buf["origin"] \in Bytes
        /\ link["origin"] \in Bytes /\ buf["service"] \in Bytes /\ link["service"] \in Bytes
        /\ Sends("X", sent["X"]) \in Bytes /\ NoBytes \in Bytes /\ x \in Bytes
    BY Zenon, <1>2, Names, Typed
  <2>4. Stages'
    BY Zenon, <1>1, <1>8, <2>1 DEF Stages
  <2>5. Down'
    <3>1. DownWhole => "service" \in open
      BY Zenon DEF DownWhole
    <3>4. /\ Chain(got["V"], link["V"], buf["origin"], link["origin"], buf["service"], Cat(link["service"], x),
                   Cat(Sends("X", sent["X"]), x), NoBytes, DownRun, DownWhole)
          /\ ~DownWhole => Chain(got["V"], link["V"], buf["origin"], link["origin"], buf["service"], link["service"],
                                Cat(Sends("X", sent["X"]), x), NoBytes, DownRun, DownWhole)
      BY ZenonT(40), <2>3, ChainSend DEF Down
    <3>2. CASE "service" \in open
      BY Zenon, <1>1, <1>5, <2>1, <2>2, <3>2, <3>4 DEF Down
    <3>3. CASE "service" \notin open
      BY Zenon, <1>1, <1>5, <2>1, <2>2, <3>1, <3>3, <3>4 DEF Down
    <3> QED BY Zenon, <3>2, <3>3
  <2>6. Up'
    BY Zenon, <1>1, <1>5, <2>1 DEF Up
  <2> QED BY Zenon, <1>4, <1>6, <2>4, <2>5, <2>6
<1> QED BY Zenon, <1>7, <1>8 DEF Ends

\* An end reads what is under way to it.
LEMMA EndReadsStep ==
    ASSUME FramesKnown, BridgeInv, NEW e \in Ends, EndReads(e) PROVE BridgeInv'
<1> USE DEF BridgeInv, Steady
<1>1. /\ e \in open /\ link[e] # NoBytes
      /\ got' = [got EXCEPT ![e] = Cat(got[e], link[e])] /\ link' = [link EXCEPT ![e] = NoBytes]
      /\ sent' = sent /\ fin' = fin /\ open' = open /\ buf' = buf /\ bridged' = bridged
      /\ started' = started /\ left' = left /\ died' = died
  BY Zenon DEF EndReads, Cat, NoBytes
<1>2. e \in Nodes /\ Cat(got[e], link[e]) \in Bytes /\ NoBytes \in Bytes
  BY Zenon, Names, Typed, CatLaws
<1>3. BridgeTypes'
  <2>1. got' \in [Ends -> Bytes] /\ link' \in [Nodes -> Bytes]
    BY Zenon, <1>1, <1>2 DEF BridgeTypes
  <2> QED BY Zenon, <1>1, <2>1 DEF BridgeTypes
<1>4. Ahead' = Ahead /\ UpRun' = UpRun /\ UpWhole' = UpWhole /\ DownRun' = DownRun /\ DownWhole' = DownWhole
  BY Zenon, <1>1 DEF Ahead, UpRun, UpWhole, ToX, DownRun, DownWhole
<1>5. Calm'
  BY Zenon, <1>1 DEF Calm, Undisturbed, ToX
<1>6. \A c \in Connections : link'[c] = link[c]
  BY Zenon, <1>1, Names DEF BridgeTypes, Nodes, Ends, Connections
<1>7. /\ link'["visitor"] = link["visitor"] /\ link'["origin"] = link["origin"]
      /\ link'["server"] = link["server"] /\ link'["service"] = link["service"]
  BY Zenon, <1>6, Names
<1>8. CASE e = "V"
  <2>1. /\ got'["V"] = Cat(got["V"], link["V"]) /\ link'["V"] = NoBytes
        /\ got'["X"] = got["X"] /\ link'["X"] = link["X"]
    BY Zenon, <1>1, <1>8, Names DEF BridgeTypes
  <2>2. Stages'
    BY Zenon, <1>1, <1>7, <1>8, <2>1 DEF Stages
  <2>3. got["V"] \in Bytes /\ link["V"] \in Bytes
    BY Zenon, Names, Typed
  <2>4. Down'
    BY <1>1, <1>4, <1>7, <2>1, <2>3, ChainRead DEF Down
  <2>5. Up'
    BY Zenon, <1>1, <1>4, <1>7, <2>1 DEF Up
  <2> QED BY Zenon, <1>3, <1>5, <2>2, <2>4, <2>5
<1>9. CASE e = "X"
  <2>1. /\ got'["X"] = Cat(got["X"], link["X"]) /\ link'["X"] = NoBytes
        /\ got'["V"] = got["V"] /\ link'["V"] = link["V"]
    BY Zenon, <1>1, <1>9, Names DEF BridgeTypes
  <2>2. Stages'
    BY Zenon, <1>1, <1>7, <1>9, <2>1 DEF Stages
  <2>3. got["X"] \in Bytes /\ link["X"] \in Bytes
    BY Zenon, Names, Typed
  <2>4. Up'
    BY ZenonT(40), <1>1, <1>4, <1>7, <2>1, <2>3, ChainRead DEF Up
  <2>5. Down'
    BY Zenon, <1>1, <1>4, <1>7, <2>1 DEF Down
  <2> QED BY Zenon, <1>3, <1>5, <2>2, <2>4, <2>5
<1> QED BY Zenon, <1>8, <1>9 DEF Ends

\* An end closes.
LEMMA EndClosesStep ==
    ASSUME FramesKnown, BridgeInv, NEW e \in Ends, EndCloses(e) PROVE BridgeInv'
<1> USE DEF BridgeInv, Steady
<1>1. /\ e \in open /\ open' = open \ {e} /\ fin' = fin \cup {Peer[e]} /\ left' = left \cup {e}
      /\ link' = [link EXCEPT ![e] = NoBytes]
      /\ sent' = sent /\ got' = got /\ buf' = buf /\ bridged' = bridged
      /\ started' = started /\ died' = died
  BY Zenon DEF EndCloses, NoBytes
<1>2. e \in Nodes /\ NoBytes \in Bytes /\ Peer[e] \in Nodes
  BY Zenon, Names, Typed
<1>3. BridgeTypes'
  <2>1. link' \in [Nodes -> Bytes]
    BY Zenon, <1>1, <1>2 DEF BridgeTypes
  <2> QED BY Zenon, <1>1, <1>2, <2>1 DEF BridgeTypes
<1>4. Calm'
  BY Zenon, <1>1 DEF Calm, Undisturbed
<1>5. Ahead' = Ahead
  BY Zenon, <1>1 DEF Ahead
<1>6. \A c \in Connections : link'[c] = link[c] /\ (c \in open' <=> c \in open)
  BY Zenon, <1>1, Names DEF BridgeTypes, Nodes, Ends, Connections
<1>7. /\ link'["visitor"] = link["visitor"] /\ link'["origin"] = link["origin"]
      /\ link'["server"] = link["server"] /\ link'["service"] = link["service"]
      /\ "visitor" \in open' <=> "visitor" \in open
      /\ "origin" \in open' <=> "origin" \in open
      /\ "server" \in open' <=> "server" \in open
      /\ "service" \in open' <=> "service" \in open
  BY Zenon, <1>6, Names
<1>8. \A p \in Processes : died'[p] # "no" => Of[p] \cap open' = {}
  BY Zenon, <1>1 DEF Stages
<1>11. "origin" \in fin' => "origin" \in fin
  <2>1. Peer[e] # "origin"
    BY DEF Ends, Peer
  <2> QED BY Zenon, <1>1, <2>1
<1>9. CASE e = "V"
  <2>1. /\ link'["V"] = NoBytes /\ link'["X"] = link["X"] /\ "V" \notin open'
        /\ "X" \in open' <=> "X" \in open
    BY Zenon, <1>1, <1>9, Names DEF BridgeTypes
  <2>2. Stages'
    BY Zenon, <1>1, <1>7, <1>8, <1>11, <2>1 DEF Stages
  <2>3. got["V"] \in Bytes /\ link["V"] \in Bytes /\ Sends("X", sent["X"]) \in Bytes
    BY Zenon, Names, Typed
  <2>4. ~DownRun' /\ ~DownWhole' /\ (UpRun' <=> UpRun) /\ (UpWhole' <=> UpWhole)
    BY Zenon, <1>1, <1>7, <2>1 DEF DownRun, DownWhole, UpRun, UpWhole, ToX
  <2>5. Down'
    BY Zenon, <1>1, <1>7, <2>1, <2>3, <2>4, BeginsClosed DEF Down, Chain
  <2>6. Up'
    BY Zenon, <1>1, <1>5, <1>7, <2>1, <2>4 DEF Up, Chain
  <2> QED BY Zenon, <1>3, <1>4, <2>2, <2>5, <2>6
<1>10. CASE e = "X"
  <2>1. /\ link'["X"] = NoBytes /\ link'["V"] = link["V"] /\ "X" \notin open' /\ "X" \in open
        /\ "V" \in open' <=> "V" \in open
    BY Zenon, <1>1, <1>10, Names DEF BridgeTypes
  <2>2. Stages'
    BY ZenonT(40), <1>1, <1>7, <1>8, <1>11, <2>1 DEF Stages
  <2>3. got["X"] \in Bytes /\ link["X"] \in Bytes /\ Sends("V", sent["V"]) \in Bytes
    BY Zenon, Names, Typed
  <2>4. ~UpRun' /\ ~UpWhole' /\ (DownRun' <=> DownRun) /\ (DownWhole' <=> DownWhole)
    <3>1. started
      BY Zenon, <2>1 DEF Stages
    <3>2. ~UpRun' /\ ~UpWhole'
      BY ONLY Zenon, <1>1, <2>1, <3>1 DEF UpRun, UpWhole, ToX
    <3>3. "V" \in open' <=> "V" \in open
      BY Zenon, <2>1
    <3>4. (DownRun' <=> DownRun) /\ (DownWhole' <=> DownWhole)
      BY ONLY Zenon, <1>1, <1>7, <3>3 DEF DownRun, DownWhole
    <3> QED BY Zenon, <3>2, <3>4
  <2>5. Up'
    BY Zenon, <1>1, <1>7, <2>1, <2>3, <2>4, BeginsClosed DEF Up, Chain
  <2>6. Down'
    BY Zenon, <1>1, <1>7, <2>1, <2>4 DEF Down, Chain
  <2> QED BY Zenon, <1>3, <1>4, <2>2, <2>5, <2>6
<1> QED BY Zenon, <1>9, <1>10 DEF Ends

\* A process that ends while all is undisturbed was refused or killed.
LEMMA DiesStep ==
    ASSUME FramesKnown, BridgeInv, NEW p \in Processes, NEW why \in Deaths, died[p] = "no", Dies(p, why),
           Undisturbed => why \in {"refused", "killed"}
    PROVE  BridgeInv'
<1>1. Steady'
  BY Zenon, DiesSteady DEF BridgeInv
<1>2. ~Undisturbed'
  BY Zenon, DiesDisturbed DEF BridgeInv, Steady
<1> QED BY Zenon, <1>1, <1>2 DEF BridgeInv, Calm

\* The types after a step on the sockets.
LEMMA SocketsTypes ==
    ASSUME FramesKnown, BridgeTypes, NEW c \in Connections, NEW k, NEW end, CanRead(c, k, end),
           NEW closed \in SUBSET Nodes, NEW fresh \in SUBSET Nodes, NEW to, NEW bytes \in Bytes,
           Sockets(c, k, closed, fresh, to, bytes),
           buf' \in [Connections -> Bytes], bridged' \in BOOLEAN, started' \in BOOLEAN, died' = died
    PROVE  BridgeTypes'
<1>1. PICK t \in Bytes, u \in Bytes : SubSeq(link[c], k + 1, Len(link[c])) = u
  BY Zenon, Reads
<1>2. NoBytes \in Bytes /\ \A n \in Nodes : link[n] \in Bytes /\ Cat(link[n], bytes) \in Bytes
  BY Zenon, Typed, CatLaws
<1>3. /\ open' = (open \cup fresh) \ closed /\ fin' = fin \cup {Peer[n] : n \in closed}
      /\ sent' = sent /\ got' = got /\ left' = left /\ link' = [n \in Nodes |-> link'[n]]
  BY SocketsLinks
<1>4. ASSUME NEW n \in Nodes PROVE link'[n] \in Bytes
  <2>1. CASE n \in closed
    BY <1>2, <2>1, SocketsLinks
  <2>2. CASE n \notin closed /\ n = c
    <3>1. link'[n] = SubSeq(link[c], k + 1, Len(link[c]))
      BY <2>2, SocketsLinks
    <3> QED BY Zenon, <1>1, <3>1
  <2>3. CASE n \notin closed /\ n # c /\ n = Peer[to] /\ n \in open \cup fresh
    BY <1>2, <2>3, SocketsLinks
  <2>4. CASE n \notin closed /\ n # c /\ (n # Peer[to] \/ n \notin open \cup fresh)
    BY <1>2, <2>4, SocketsLinks
  <2> QED BY Zenon, <2>1, <2>2, <2>3, <2>4
<1>5. link' \in [Nodes -> Bytes]
  BY Zenon, <1>3, <1>4
<1>6. fin' \subseteq Nodes /\ open' \subseteq Nodes
  BY <1>3, Names DEF BridgeTypes
<1> QED BY Zenon, <1>3, <1>5, <1>6 DEF BridgeTypes

\* The data connection ends only once ncxc has closed it.
LEMMA SocketsFin ==
    ASSUME FramesKnown, BridgeTypes, Stages, NEW c, NEW k, NEW closed \in SUBSET Nodes,
           NEW fresh \in SUBSET {"service", "X"}, NEW to, NEW bytes,
           Sockets(c, k, closed, fresh, to, bytes)
    PROVE  "origin" \in fin' => "server" \notin open'
<1>1. open' = (open \cup fresh) \ closed /\ fin' = fin \cup {Peer[n] : n \in closed}
  BY SocketsLinks
<1>2. \A n \in Nodes : Peer[n] = "origin" => n = "server"
  BY DEF Nodes, Ends, Connections, Peer
<1>3. "origin" \in fin => "server" \notin open
  BY Zenon DEF Stages
<1> QED BY ONLY <1>1, <1>2, <1>3, closed \in SUBSET Nodes, fresh \in SUBSET {"service", "X"}

\* A write fails: a handler of the bridge has read c, nothing is sent, and Connections are closed.
LEMMA FailStep ==
    ASSUME FramesKnown, BridgeInv, NEW c \in Connections, NEW k, NEW end, CanRead(c, k, end),
           NEW closed \in SUBSET Connections, NEW to, Sockets(c, k, closed, {}, to, NoBytes),
           buf' = [buf EXCEPT ![c] = NoBytes],
           bridged, bridged' = bridged, started' = started, died' = died,
           c = "service" => started, ~Undisturbed, ~UpWhole', ~DownWhole',
           UpRun' => UpRun /\ c # "server", DownRun' => DownRun /\ c # "origin"
    PROVE  BridgeInv'
<1> USE DEF BridgeInv, Steady
<1>1. NoBytes \in Bytes /\ \A n \in Nodes : Cat(link[n], NoBytes) = link[n]
  BY ZenonT(40), Typed, CatLaws
<1>2. closed \in SUBSET Nodes /\ {} \in SUBSET Nodes /\ "V" \notin closed /\ "X" \notin closed
  BY Zenon DEF Nodes, Connections
<1>3. BridgeTypes'
  <2>1. buf' \in [Connections -> Bytes]
    BY Zenon, <1>1 DEF BridgeTypes
  <2> QED BY ZenonT(40), <1>1, <1>2, <2>1, SocketsTypes DEF BridgeTypes
<1>4. /\ \A n \in Nodes : n \in closed => link'[n] = NoBytes
      /\ \A n \in Nodes : n \notin closed /\ n # c => link'[n] = link[n]
      /\ open' = open \ closed /\ sent' = sent /\ got' = got /\ left' = left
  <2>1. /\ open' = open \ closed /\ sent' = sent /\ got' = got /\ left' = left
        /\ \A n \in Nodes : n \in closed => link'[n] = NoBytes
    BY SocketsLinks
  <2>2. ASSUME NEW n \in Nodes, n \notin closed, n # c PROVE link'[n] = link[n]
    <3>1. link'[n] = Cat(link[n], NoBytes) \/ link'[n] = link[n]
      BY <2>2, SocketsLinks
    <3> QED BY Zenon, <1>1, <3>1
  <2> QED BY Zenon, <2>1, <2>2
<1>5. /\ \A d \in Connections : d # c => buf'[d] = buf[d]
      /\ buf'["service"] = NoBytes
  <2>1. buf["service"] = NoBytes
    BY Zenon DEF Stages
  <2> QED BY Zenon, <2>1, Names DEF BridgeTypes
<1>6. link'["V"] = link["V"] /\ link'["X"] = link["X"]
  <2>1. c # "V" /\ c # "X"
    BY Zenon DEF Connections
  <2> QED BY Zenon, <1>2, <1>4, <2>1, Names
<1>7. Ahead' = Ahead
  BY Zenon DEF Ahead
<1>8. Stages'
  <2>1. \A p \in Processes : died'[p] # "no" => Of[p] \cap open' = {}
    BY ZenonT(40), <1>4 DEF Stages
  <2>2. "origin" \in fin' => "server" \notin open'
    BY ZenonT(40), <1>2, SocketsFin
  <2>3. ~started => link'["service"] = NoBytes
    BY ZenonT(40), <1>4, Names DEF Stages
  <2> QED BY ZenonT(40), <1>4, <1>5, <1>6, <2>1, <2>2, <2>3 DEF Stages
<1>9. Up'
  <2>1. UpRun' => UpRun /\ link'["server"] = link["server"] /\ buf'["server"] = buf["server"]
    BY ZenonT(40), <1>4, <1>5, Names DEF UpRun
  <2> QED BY ZenonT(40), <1>4, <1>6, <1>7, <2>1 DEF Up, Chain
<1>10. Down'
  <2>1. DownRun' => DownRun /\ link'["origin"] = link["origin"] /\ buf'["origin"] = buf["origin"]
    BY ZenonT(40), <1>4, <1>5, Names DEF DownRun
  <2> QED BY ZenonT(40), <1>4, <1>6, <2>1 DEF Down, Chain
<1>11. Calm'
  BY Zenon, <1>4 DEF Calm, Undisturbed
<1> QED BY Zenon, <1>3, <1>8, <1>9, <1>10, <1>11

\* The other end of the bridge.
LEMMA Others ==
    /\ (CHOOSE d \in Of.ncxs : d # "visitor") = "origin"
    /\ (CHOOSE d \in Of.ncxs : d # "origin") = "visitor"
  BY Zenon DEF Of

\* ncxs reads the visitor.
LEMMA VisitorInStep ==
    ASSUME FramesKnown, BridgeInv, NEW k, NEW end \in BOOLEAN, ncxs_VisitorIn(k, end) PROVE BridgeInv'
<1> USE DEF BridgeInv, Steady
<1> DEFINE input == Input("visitor", k)
           forwards == bridged /\ ~end /\ input # <<>> /\ "origin" \in open
           closed == IF end THEN WithPartner("visitor") ELSE {}
           bytes == IF forwards THEN input ELSE NoBytes
<1>1. /\ CanRead("visitor", k, end)
      /\ \/ /\ Sockets("visitor", k, closed, {}, "origin", bytes)
            /\ buf' = [buf EXCEPT !["visitor"] = IF forwards THEN NoBytes ELSE input]
            /\ bridged' = bridged /\ started' = started /\ died' = died
         \/ /\ forwards /\ "server" \notin open
            /\ Sockets("visitor", k, WithPartner("origin"), {}, "origin", NoBytes)
            /\ buf' = [buf EXCEPT !["visitor"] = NoBytes]
            /\ bridged' = bridged /\ started' = started /\ died' = died
         \/ forwards /\ SigPipe("ncxs", "origin")
  BY Others, Names, Zenon DEF ncxs_VisitorIn, Forward, NoBytes
<1>2. "visitor" \in open /\ (end => "visitor" \in fin)
  BY Zenon, <1>1 DEF CanRead
<1>3. PICK t \in Bytes, u \in Bytes :
        /\ link["visitor"] = Cat(t, u) /\ input = Cat(buf["visitor"], t)
        /\ SubSeq(link["visitor"], k + 1, Len(link["visitor"])) = u
  <2>1. CanRead("visitor", k, end) /\ "visitor" \in Connections /\ BridgeTypes
    BY Zenon, <1>1, Names
  <2> QED BY ONLY Zenon, <2>1, Reads
<1>4. /\ got["X"] \in Bytes /\ link["X"] \in Bytes /\ buf["server"] \in Bytes
      /\ link["server"] \in Bytes /\ buf["visitor"] \in Bytes
      /\ Sends("V", sent["V"]) \in Bytes /\ Ahead \in Bytes /\ NoBytes \in Bytes
      /\ input \in Bytes
  <2>1. Cat(buf["visitor"], t) \in Bytes
    BY Zenon, Names, Typed, CatLaws
  <2> QED BY Zenon, <1>3, <2>1, Names, Typed
<1> HIDE DEF input
<1>5. CASE forwards /\ SigPipe("ncxs", "origin")
  <2>1. "server" \notin open /\ Dies("ncxs", "sigpipe")
    BY Zenon, <1>5, Names DEF SigPipe
  <2>2. ~Undisturbed
    BY Zenon, <2>1 DEF Calm
  <2>3. died["ncxs"] = "no"
    BY Zenon, <1>2, OpenAlive
  <2> QED BY Zenon, <2>1, <2>2, <2>3, DiesStep DEF Processes, Deaths
<1>6. CASE /\ Sockets("visitor", k, closed, {}, "origin", bytes)
           /\ buf' = [buf EXCEPT !["visitor"] = IF forwards THEN NoBytes ELSE input]
           /\ bridged' = bridged /\ started' = started /\ died' = died
  <2>1. closed \in SUBSET Nodes /\ bytes \in Bytes /\ {} \in SUBSET Nodes
    BY Zenon, <1>4, Names DEF WithPartner
  <2>2. BridgeTypes'
    <3>1. buf' \in [Connections -> Bytes]
      BY Zenon, <1>4, <1>6 DEF BridgeTypes
    <3> HIDE DEF closed, bytes
    <3> QED BY Zenon, <1>1, <1>6, <2>1, <3>1, Names, SocketsTypes DEF BridgeTypes
  <2>3. /\ buf'["visitor"] = IF forwards THEN NoBytes ELSE input
        /\ buf'["origin"] = buf["origin"] /\ buf'["server"] = buf["server"]
        /\ buf'["service"] = buf["service"]
    BY Zenon, <1>6, Names DEF BridgeTypes
  <2>4. closed \subseteq {"visitor", "origin"}
    BY Zenon, Names DEF WithPartner
  <2>5. /\ link'["V"] = link["V"] /\ link'["X"] = link["X"] /\ link'["service"] = link["service"]
        /\ "origin" \notin closed => link'["origin"] = link["origin"]
        /\ "visitor" \in closed => link'["visitor"] = NoBytes
        /\ "visitor" \notin closed => link'["visitor"] = u
        /\ "server" \in open => link'["server"] = Cat(link["server"], bytes)
        /\ "server" \notin open => link'["server"] = link["server"]
        /\ open' = open \ closed /\ fin' = fin \cup {Peer[n] : n \in closed}
        /\ sent' = sent /\ got' = got /\ left' = left
    <3> HIDE DEF closed, bytes
    <3>1. /\ open' = open \ closed /\ fin' = fin \cup {Peer[n] : n \in closed}
          /\ sent' = sent /\ got' = got /\ left' = left
      BY <1>6, SocketsLinks
    <3>2. /\ "visitor" \in closed => link'["visitor"] = NoBytes
          /\ "visitor" \notin closed => link'["visitor"] = u
      <4>1. /\ "visitor" \in closed => link'["visitor"] = NoBytes
            /\ "visitor" \notin closed =>
                 link'["visitor"] = SubSeq(link["visitor"], k + 1, Len(link["visitor"]))
        BY <1>6, SocketsLinks, Names
      <4> QED BY <1>3, <4>1, Zenon
    <3>3. /\ "server" \in open => link'["server"] = Cat(link["server"], bytes)
          /\ "server" \notin open => link'["server"] = link["server"]
      BY <1>6, <2>4, SocketsLinks, Names
    <3>4. /\ link'["V"] = link["V"] /\ link'["X"] = link["X"] /\ link'["service"] = link["service"]
          /\ "origin" \notin closed => link'["origin"] = link["origin"]
      BY <1>6, <2>4, SocketsLinks, Names
    <3> QED BY Zenon, <3>1, <3>2, <3>3, <3>4
  <2>6. Ahead' = Ahead
    BY Zenon, <1>6 DEF Ahead
  <2>7. \A p \in Processes : died'[p] # "no" => Of[p] \cap open' = {}
    BY Zenon, <1>6, <2>5 DEF Stages
  <2>8. ~bridged => Begins(input, Sends("V", sent["V"]))
    <3> SUFFICES ASSUME ~bridged PROVE Begins(input, Sends("V", sent["V"]))
      BY Zenon
    <3>1. UpWhole /\ Ahead = NoBytes
      BY Zenon, <1>2 DEF UpWhole, Ahead, ToX, Stages
    <3>2. got["X"] = NoBytes /\ link["X"] = NoBytes /\ buf["server"] = NoBytes /\ link["server"] = NoBytes
      BY Zenon DEF Stages
    <3>3. Cat(Cat(Cat(NoBytes, NoBytes), Cat(NoBytes, NoBytes)), Cat(buf["visitor"], Cat(t, u)))
            = Cat(NoBytes, Sends("V", sent["V"]))
      BY Zenon, <1>3, <3>1, <3>2 DEF Up, Chain
    <3>4. Cat(buf["visitor"], Cat(t, u)) = Sends("V", sent["V"])
      <4>1. Cat(NoBytes, NoBytes) = NoBytes /\ Cat(buf["visitor"], Cat(t, u)) \in Bytes
        BY Zenon, <1>4, CatLaws
      <4> QED BY <1>4, <3>3, <4>1, CatLaws
    <3>5. Cat(input, u) = Sends("V", sent["V"])
      <4>1. Cat(Cat(buf["visitor"], t), u) = Cat(buf["visitor"], Cat(t, u))
        <5>1. buf["visitor"] \in Bytes
          BY Zenon, <1>4
        <5> QED BY ONLY ZenonT(40), <5>1, t \in Bytes, u \in Bytes, CatLaws
      <4> QED BY Zenon, <1>3, <3>4, <4>1
    <3> QED BY <1>4, <3>5, BeginsLaws
  <2>11. "origin" \in fin' => "server" \notin open'
    <3> HIDE DEF closed, bytes
    <3> QED BY Zenon, <1>6, <2>1, SocketsFin
  <2>9. CASE end
    <3>1. /\ "visitor" \in closed /\ (~bridged => "origin" \notin closed)
          /\ bytes = NoBytes /\ buf'["visitor"] = input
      BY Zenon, <2>3, <2>9 DEF WithPartner
    <3>2. link'["server"] = link["server"]
      BY ZenonT(40), <1>4, <2>5, <3>1, CatLaws
    <3> HIDE DEF closed
    <3>3. Stages'
      BY ZenonT(40), <1>6, <2>3, <2>4, <2>5, <2>7, <2>8, <2>11, <3>1, <3>2 DEF Stages
    <3>4. Up'
      <4>1. ~UpWhole' /\ (UpRun' => UpRun)
        BY Zenon, <1>6, <2>4, <2>5, <3>1 DEF UpWhole, UpRun, ToX
      <4> QED BY Zenon, <2>3, <2>5, <2>6, <3>2, <4>1 DEF Up, Chain
    <3>5. Down'
      <4>1. ~DownWhole' /\ ~DownRun'
        BY Zenon, <2>5, <3>1 DEF DownWhole, DownRun
      <4> QED BY Zenon, <2>3, <2>5, <4>1 DEF Down, Chain
    <3>6. Calm'
      BY Zenon, <1>2, <1>6, <2>5, <2>9 DEF Calm, Undisturbed
    <3> QED BY Zenon, <2>2, <3>3, <3>4, <3>5, <3>6
  <2>10. CASE ~end
    <3>1. closed = {}
      BY Zenon, <2>10
    <3> HIDE DEF closed
    <3>2. /\ open' = open /\ fin' = fin /\ link'["origin"] = link["origin"] /\ link'["visitor"] = u
      BY Zenon, <2>5, <3>1
    <3>3. Calm'
      BY ZenonT(40), <1>6, <2>5, <3>2 DEF Calm, Undisturbed, ToX
    <3>4. UpRun' = UpRun /\ UpWhole' = UpWhole /\ DownRun' = DownRun /\ DownWhole' = DownWhole
      BY Zenon, <1>6, <3>2 DEF UpRun, UpWhole, ToX, DownRun, DownWhole
    <3>5. Down'
      BY Zenon, <2>3, <2>5, <3>2, <3>4 DEF Down
    <3>6. Stages'
      <4>1. ~bridged => buf'["visitor"] = input /\ link'["server"] = link["server"]
        BY ZenonT(40), <1>4, <2>3, <2>5, CatLaws
      <4> QED BY ZenonT(40), <1>6, <2>3, <2>5, <2>7, <2>8, <3>2, <4>1 DEF Stages
    <3>7. Up'
      <4>1. CASE ~forwards
        <5>1. bytes = NoBytes /\ buf'["visitor"] = Cat(buf["visitor"], t)
          BY Zenon, <1>3, <2>3, <4>1
        <5>2. link'["server"] = link["server"]
          BY Zenon, <1>4, <2>5, <5>1, CatLaws
        <5>3. Chain(got["X"], link["X"], buf["server"], link["server"], Cat(buf["visitor"], t), u,
                    Sends("V", sent["V"]), Ahead, UpRun, UpWhole)
          BY ZenonT(40), <1>3, <1>4, ChainFirstKeeps DEF Up
        <5> QED BY Zenon, <2>3, <2>5, <2>6, <3>2, <3>4, <5>1, <5>2, <5>3 DEF Up
      <4>2. CASE forwards /\ "server" \in open
        <5>1. buf'["visitor"] = NoBytes /\ link'["server"] = Cat(link["server"], Cat(buf["visitor"], t))
          BY Zenon, <1>3, <2>3, <2>5, <4>2
        <5>2. UpRun => UpWhole
          BY Zenon, <1>2, <4>2 DEF UpRun, UpWhole
        <5>3. Chain(got["X"], link["X"], buf["server"],
                    Cat(link["server"], Cat(buf["visitor"], t)), NoBytes, u,
                    Sends("V", sent["V"]), Ahead, UpRun, UpWhole)
          <6>1. Chain(got["X"], link["X"], buf["server"], link["server"], buf["visitor"], Cat(t, u),
                      Sends("V", sent["V"]), Ahead, UpRun, UpWhole)
            BY Zenon, <1>3 DEF Up
          <6> QED BY ONLY Zenon, <1>4, <5>2, <6>1, t \in Bytes, u \in Bytes, ChainFirstPasses
        <5> QED BY ZenonT(40), <2>3, <2>5, <2>6, <3>2, <3>4, <5>1, <5>3 DEF Up
      <4>3. CASE forwards /\ "server" \notin open
        <5>1. ~UpRun /\ ~UpWhole
          BY Zenon, <4>3 DEF UpRun, UpWhole
        <5> QED BY Zenon, <2>3, <2>5, <2>6, <3>4, <5>1 DEF Up, Chain
      <4> QED BY Zenon, <4>1, <4>2, <4>3
    <3> QED BY Zenon, <2>2, <3>3, <3>5, <3>6, <3>7
  <2> QED BY Zenon, <2>9, <2>10
<1>7. CASE /\ forwards /\ "server" \notin open
           /\ Sockets("visitor", k, WithPartner("origin"), {}, "origin", NoBytes)
           /\ buf' = [buf EXCEPT !["visitor"] = NoBytes]
           /\ bridged' = bridged /\ started' = started /\ died' = died
  <2> DEFINE cut == WithPartner("origin")
  <2>1. cut \in SUBSET Connections /\ "visitor" \in cut /\ "server" \notin cut
    BY Zenon, <1>2, <1>7, Names DEF WithPartner
  <2>2. Sockets("visitor", k, cut, {}, "origin", NoBytes)
    BY Zenon, <1>7
  <2> HIDE DEF cut
  <2>3. open' = open \ cut
    BY <2>2, SocketsLinks
  <2>4. ~UpWhole' /\ ~DownWhole' /\ ~UpRun' /\ ~DownRun'
    BY Zenon, <1>7, <2>1, <2>3 DEF UpWhole, DownWhole, UpRun, DownRun
  <2>5. ~Undisturbed
    BY Zenon, <1>7 DEF Calm
  <2> QED BY ZenonT(40), <1>1, <1>7, <2>1, <2>2, <2>4, <2>5, Names, FailStep
<1> QED BY Zenon, <1>1, <1>5, <1>6, <1>7

\* ncxs reads the coupled data connection.
LEMMA OriginInStep ==
    ASSUME FramesKnown, BridgeInv, NEW k, NEW end \in BOOLEAN, ncxs_OriginIn(k, end) PROVE BridgeInv'
<1> USE DEF BridgeInv, Steady
<1> DEFINE input == Input("origin", k)
           forwards == bridged /\ ~end /\ input # <<>> /\ "visitor" \in open
           closed == IF end THEN WithPartner("origin") ELSE {}
           bytes == IF forwards THEN input ELSE NoBytes
<1>1. /\ CanRead("origin", k, end)
      /\ \/ /\ Sockets("origin", k, closed, {}, "visitor", bytes)
            /\ buf' = [buf EXCEPT !["origin"] = IF forwards THEN NoBytes ELSE input]
            /\ bridged' = bridged /\ started' = started /\ died' = died
         \/ /\ forwards /\ "V" \notin open
            /\ Sockets("origin", k, WithPartner("visitor"), {}, "visitor", NoBytes)
            /\ buf' = [buf EXCEPT !["origin"] = NoBytes]
            /\ bridged' = bridged /\ started' = started /\ died' = died
         \/ forwards /\ SigPipe("ncxs", "visitor")
  BY Others, Names, Zenon DEF ncxs_OriginIn, Forward, NoBytes
<1>2. "origin" \in open /\ (end => "origin" \in fin) /\ bridged
  BY Zenon, <1>1 DEF CanRead, ncxs_OriginIn
<1>3. PICK t \in Bytes, u \in Bytes :
        /\ link["origin"] = Cat(t, u) /\ input = Cat(buf["origin"], t)
        /\ SubSeq(link["origin"], k + 1, Len(link["origin"])) = u
  <2>1. CanRead("origin", k, end) /\ "origin" \in Connections /\ BridgeTypes
    BY Zenon, <1>1, Names
  <2> QED BY ONLY Zenon, <2>1, Reads
<1>4. /\ got["V"] \in Bytes /\ link["V"] \in Bytes /\ buf["origin"] \in Bytes
      /\ Sends("X", sent["X"]) \in Bytes /\ NoBytes \in Bytes
      /\ input \in Bytes
  <2>1. Cat(buf["origin"], t) \in Bytes
    BY Zenon, Names, Typed, CatLaws
  <2> QED BY Zenon, <1>3, <2>1, Names, Typed
<1> HIDE DEF input
<1>5. CASE forwards /\ SigPipe("ncxs", "visitor")
  <2>1. "V" \notin open /\ Dies("ncxs", "sigpipe")
    BY Zenon, <1>5, Names DEF SigPipe
  <2>2. ~Undisturbed
    BY Zenon, <2>1 DEF Calm
  <2>3. died["ncxs"] = "no"
    BY Zenon, <1>2, OpenAlive
  <2> QED BY Zenon, <2>1, <2>2, <2>3, DiesStep DEF Processes, Deaths
<1>6. CASE /\ Sockets("origin", k, closed, {}, "visitor", bytes)
           /\ buf' = [buf EXCEPT !["origin"] = IF forwards THEN NoBytes ELSE input]
           /\ bridged' = bridged /\ started' = started /\ died' = died
  <2>1. closed \in SUBSET Nodes /\ bytes \in Bytes /\ {} \in SUBSET Nodes
    BY Zenon, <1>4, Names DEF WithPartner
  <2>2. BridgeTypes'
    <3>1. buf' \in [Connections -> Bytes]
      BY Zenon, <1>4, <1>6 DEF BridgeTypes
    <3> HIDE DEF closed, bytes
    <3> QED BY Zenon, <1>1, <1>6, <2>1, <3>1, Names, SocketsTypes DEF BridgeTypes
  <2>3. /\ buf'["origin"] = IF forwards THEN NoBytes ELSE input
        /\ buf'["visitor"] = buf["visitor"] /\ buf'["server"] = buf["server"]
        /\ buf'["service"] = buf["service"]
    BY Zenon, <1>6, Names DEF BridgeTypes
  <2>4. closed \subseteq {"visitor", "origin"}
    BY Zenon, Names DEF WithPartner
  <2>5. /\ link'["server"] = link["server"] /\ link'["X"] = link["X"]
        /\ link'["service"] = link["service"]
        /\ "visitor" \notin closed => link'["visitor"] = link["visitor"]
        /\ "origin" \notin closed => link'["origin"] = u
        /\ "V" \in open => link'["V"] = Cat(link["V"], bytes)
        /\ "V" \notin open => link'["V"] = link["V"]
        /\ open' = open \ closed /\ fin' = fin \cup {Peer[n] : n \in closed}
        /\ sent' = sent /\ got' = got /\ left' = left
    <3> HIDE DEF closed, bytes
    <3>1. /\ open' = open \ closed /\ fin' = fin \cup {Peer[n] : n \in closed}
          /\ sent' = sent /\ got' = got /\ left' = left
      BY <1>6, SocketsLinks
    <3>2. "origin" \notin closed => link'["origin"] = u
      <4>1. "origin" \notin closed =>
                 link'["origin"] = SubSeq(link["origin"], k + 1, Len(link["origin"]))
        BY <1>6, SocketsLinks, Names
      <4> QED BY <1>3, <4>1, Zenon
    <3>3. /\ "V" \in open => link'["V"] = Cat(link["V"], bytes)
          /\ "V" \notin open => link'["V"] = link["V"]
      BY <1>6, <2>4, SocketsLinks, Names
    <3>4. /\ link'["server"] = link["server"] /\ link'["X"] = link["X"]
          /\ link'["service"] = link["service"]
          /\ "visitor" \notin closed => link'["visitor"] = link["visitor"]
      BY <1>6, <2>4, SocketsLinks, Names
    <3> QED BY Zenon, <3>1, <3>2, <3>3, <3>4
  <2>6. Ahead' = Ahead
    BY Zenon, <1>6 DEF Ahead
  <2>7. Stages'
    <3>1. \A p \in Processes : died'[p] # "no" => Of[p] \cap open' = {}
      BY Zenon, <1>6, <2>5 DEF Stages
    <3> HIDE DEF closed, bytes
    <3>2. "origin" \in fin' => "server" \notin open'
      BY Zenon, <1>6, <2>1, SocketsFin
    <3> QED BY ZenonT(40), <1>2, <1>6, <2>3, <2>4, <2>5, <3>1, <3>2 DEF Stages
  <2>8. CASE end
    <3>1. "origin" \in closed /\ bytes = NoBytes /\ ("visitor" \in open => "visitor" \in closed)
      BY Zenon, <1>2, <2>8 DEF WithPartner, Of
    <3>2. link'["V"] = link["V"]
      BY Zenon, <1>4, <2>5, <3>1, CatLaws
    <3> HIDE DEF closed
    <3>3. Up'
      <4>1. ~UpWhole' /\ (UpRun' => UpRun)
        BY Zenon, <1>6, <2>4, <2>5, <3>1 DEF UpWhole, UpRun, ToX
      <4> QED BY Zenon, <2>3, <2>5, <2>6, <4>1 DEF Up, Chain
    <3>4. Down'
      <4>1. ~DownWhole' /\ ~DownRun'
        BY Zenon, <2>5, <3>1 DEF DownWhole, DownRun
      <4> QED BY Zenon, <2>3, <2>5, <3>2, <4>1 DEF Down, Chain
    <3>5. Calm'
      BY Zenon, <1>2, <1>6, <2>5, <2>8 DEF Calm, Undisturbed
    <3> QED BY Zenon, <2>2, <2>7, <3>3, <3>4, <3>5
  <2>9. CASE ~end
    <3>1. closed = {}
      BY Zenon, <2>9
    <3> HIDE DEF closed
    <3>2. /\ open' = open /\ fin' = fin /\ link'["origin"] = u /\ link'["visitor"] = link["visitor"]
      BY Zenon, <2>5, <3>1
    <3>3. Calm'
      BY Zenon, <1>6, <2>5, <3>2 DEF Calm, Undisturbed, ToX
    <3>4. UpRun' = UpRun /\ UpWhole' = UpWhole /\ DownRun' = DownRun /\ DownWhole' = DownWhole
      BY Zenon, <1>6, <3>2 DEF UpRun, UpWhole, ToX, DownRun, DownWhole
    <3>5. Up'
      BY Zenon, <2>3, <2>5, <2>6, <3>2, <3>4 DEF Up
    <3>6. Chain(got["V"], link["V"], buf["origin"], Cat(t, u), buf["service"], link["service"],
                Sends("X", sent["X"]), NoBytes, DownRun, DownWhole)
      BY Zenon, <1>3 DEF Down
    <3>7. Down'
      <4>1. CASE ~forwards
        <5>1. bytes = NoBytes /\ buf'["origin"] = Cat(buf["origin"], t)
          BY Zenon, <1>3, <2>3, <4>1
        <5>2. link'["V"] = link["V"]
          BY ZenonT(40), <1>4, <2>5, <5>1, CatLaws
        <5>3. Chain(got["V"], link["V"], Cat(buf["origin"], t), u, buf["service"], link["service"],
                    Sends("X", sent["X"]), NoBytes, DownRun, DownWhole)
          BY ZenonT(40), <1>4, <3>6, ChainMiddleKeeps
        <5> QED BY ZenonT(40), <2>3, <2>5, <3>2, <3>4, <5>1, <5>2, <5>3 DEF Down
      <4>2. CASE forwards /\ "V" \in open
        <5>1. buf'["origin"] = NoBytes /\ link'["V"] = Cat(link["V"], Cat(buf["origin"], t))
          BY Zenon, <1>3, <2>3, <2>5, <4>2
        <5>2. DownRun
          BY Zenon, <1>2, <4>2 DEF DownRun
        <5>3. Chain(got["V"], Cat(link["V"], Cat(buf["origin"], t)), NoBytes, u,
                    buf["service"], link["service"],
                    Sends("X", sent["X"]), NoBytes, DownRun, DownWhole)
          BY ONLY ZenonT(40), <1>4, <3>6, <5>2, t \in Bytes, u \in Bytes, ChainMiddlePasses
        <5> QED BY ZenonT(40), <2>3, <2>5, <3>2, <3>4, <5>1, <5>3 DEF Down
      <4>3. CASE forwards /\ "V" \notin open
        <5>1. ~DownRun /\ ~DownWhole
          BY Zenon, <4>3 DEF DownRun, DownWhole
        <5>2. ~DownRun' /\ ~DownWhole' /\ link'["V"] = link["V"] /\ got' = got /\ sent' = sent
          BY Zenon, <2>5, <3>4, <4>3, <5>1
        <5>3. Begins(Cat(got["V"], link["V"]), Sends("X", sent["X"]))
          BY Zenon, <3>6 DEF Chain
        <5> QED BY ONLY Zenon, <5>2, <5>3 DEF Down, Chain
      <4> QED BY Zenon, <4>1, <4>2, <4>3
    <3> QED BY Zenon, <2>2, <2>7, <3>3, <3>5, <3>7
  <2> QED BY Zenon, <2>8, <2>9
<1>7. CASE /\ forwards /\ "V" \notin open
           /\ Sockets("origin", k, WithPartner("visitor"), {}, "visitor", NoBytes)
           /\ buf' = [buf EXCEPT !["origin"] = NoBytes]
           /\ bridged' = bridged /\ started' = started /\ died' = died
  <2> DEFINE cut == WithPartner("visitor")
  <2>1. cut \in SUBSET Connections /\ cut \subseteq {"visitor", "origin"} /\ "visitor" \in cut
    BY Zenon, <1>7, Names DEF WithPartner
  <2>2. Sockets("origin", k, cut, {}, "visitor", NoBytes)
    BY Zenon, <1>7
  <2> HIDE DEF cut
  <2>3. open' = open \ cut
    BY <2>2, SocketsLinks
  <2>4. ~UpWhole' /\ ~DownWhole' /\ (UpRun' => UpRun) /\ ~DownRun'
    BY Zenon, <1>7, <2>1, <2>3 DEF UpWhole, DownWhole, UpRun, DownRun, ToX
  <2>5. ~Undisturbed
    BY Zenon, <1>7 DEF Calm
  <2> QED BY ZenonT(40), <1>1, <1>2, <1>7, <2>1, <2>2, <2>4, <2>5, Names, FailStep
<1> QED BY Zenon, <1>1, <1>5, <1>6, <1>7

\* ncxs reads the data connection before the hello is whole, and after that.
LEMMA HelloStep ==
    ASSUME FramesKnown, BridgeInv, NEW k, NEW end \in BOOLEAN, ncxs_Hello(k, end) PROVE BridgeInv'
<1> USE DEF BridgeInv, Steady
<1> DEFINE input == Input("origin", k)
           n == canReadMsg(input)
           after == AfterMessage(input, n)
<1>1. /\ ~bridged /\ CanRead("origin", k, end)
      /\ \/ /\ Sockets("origin", k, IF end THEN {"origin"} ELSE {}, {}, "origin", NoBytes)
            /\ buf' = [buf EXCEPT !["origin"] = LeftOnZero(input)]
            /\ bridged' = bridged /\ started' = started /\ died' = died
         \/ /\ n > 0
            /\ \/ Sockets("origin", k, IF end THEN {"origin"} ELSE {}, {}, "origin",
                          Cat(StartCmd, buf["visitor"]))
               \/ /\ "server" \notin open
                  /\ Sockets("origin", k, Of["ncxs"] \cap open, {}, "origin", NoBytes)
            /\ bridged' = TRUE
            /\ buf' = [buf EXCEPT !["visitor"] = NoBytes, !["origin"] = after]
            /\ started' = started /\ died' = died
         \/ SigPipe("ncxs", "origin")
  <2> HIDE DEF input, n, after
  <2>1. StartAndEarlyBytes(buf["visitor"]) = Cat(StartCmd, buf["visitor"])
    BY Zenon DEF StartAndEarlyBytes, Cat
  <2>2. Peer["origin"] = "server"
    BY Zenon, Names
  <2> QED BY <2>1, <2>2, Zenon DEF ncxs_Hello, NoBytes, input, n, after
<1>2. "origin" \in open /\ (end => "origin" \in fin) /\ ~bridged /\ ~started
  BY Zenon, <1>1 DEF CanRead, Stages
<1>3. PICK t \in Bytes, u \in Bytes :
        /\ link["origin"] = Cat(t, u) /\ input = Cat(buf["origin"], t)
        /\ SubSeq(link["origin"], k + 1, Len(link["origin"])) = u
  <2>1. CanRead("origin", k, end) /\ "origin" \in Connections /\ BridgeTypes
    BY Zenon, <1>1, Names
  <2> QED BY ONLY Zenon, <2>1, Reads
<1>4. /\ buf["origin"] \in Bytes /\ buf["visitor"] \in Bytes /\ link["visitor"] \in Bytes
      /\ Sends("V", sent["V"]) \in Bytes /\ Sends("X", sent["X"]) \in Bytes
      /\ NoBytes \in Bytes /\ StartCmd \in Bytes
  BY Zenon, Names, Typed DEF FramesKnown
<1>5. input \in Bytes /\ Cat(input, u) = do_data_channel_handshake
  <2>1. Cat(buf["origin"], t) \in Bytes /\ Cat(Cat(buf["origin"], t), u) = Cat(buf["origin"], Cat(t, u))
    <3>1. buf["origin"] \in Bytes
      BY Zenon, <1>4
    <3> QED BY ONLY ZenonT(40), <3>1, t \in Bytes, u \in Bytes, CatLaws
  <2>2. Cat(buf["origin"], Cat(t, u)) = do_data_channel_handshake
    BY Zenon, <1>2, <1>3 DEF Stages
  <2> QED BY Zenon, <1>3, <2>1, <2>2
<1>6. CASE SigPipe("ncxs", "origin")
  <2>1. "server" \notin open /\ Dies("ncxs", "sigpipe")
    BY Zenon, <1>6, Names DEF SigPipe
  <2>2. ~Undisturbed
    BY Zenon, <2>1 DEF Calm
  <2>3. died["ncxs"] = "no"
    BY Zenon, <1>2, OpenAlive
  <2> QED BY Zenon, <2>1, <2>2, <2>3, DiesStep DEF Processes, Deaths
<1>9. LeftOnZero(input) = input
  <2> HIDE DEF input
  <2>1. do_data_channel_handshake \in Bytes /\ Understood(do_data_channel_handshake)
    BY Zenon DEF FramesKnown
  <2>2. Cat(input, u) = Cat(do_data_channel_handshake, NoBytes) /\ NoBytes \in Bytes /\ input \in Bytes
    BY Zenon, <1>4, <1>5, <2>1, CatLaws
  <2> QED BY ONLY Zenon, <2>1, <2>2, u \in Bytes, FrameWaits
<1>7. CASE /\ Sockets("origin", k, IF end THEN {"origin"} ELSE {}, {}, "origin", NoBytes)
           /\ buf' = [buf EXCEPT !["origin"] = LeftOnZero(input)]
           /\ bridged' = bridged /\ started' = started /\ died' = died
  <2> DEFINE closed == IF end THEN {"origin"} ELSE {}
  <2>1. closed \in SUBSET Nodes /\ {} \in SUBSET Nodes /\ closed \subseteq {"origin"}
    BY Zenon, Names
  <2>2. Sockets("origin", k, closed, {}, "origin", NoBytes)
    BY Zenon, <1>7
  <2> HIDE DEF closed, input
  <2>3. BridgeTypes'
    <3>1. buf' \in [Connections -> Bytes]
      BY Zenon, <1>5, <1>7, <1>9 DEF BridgeTypes
    <3> QED BY Zenon, <1>1, <1>4, <1>7, <2>1, <2>2, <3>1, Names, SocketsTypes DEF BridgeTypes
  <2>4. /\ buf'["origin"] = input
        /\ buf'["visitor"] = buf["visitor"] /\ buf'["server"] = buf["server"]
        /\ buf'["service"] = buf["service"]
    BY Zenon, <1>7, <1>9, Names DEF BridgeTypes
  <2>5. /\ link'["server"] = link["server"] /\ link'["X"] = link["X"]
        /\ link'["service"] = link["service"] /\ link'["visitor"] = link["visitor"]
        /\ link'["V"] = link["V"]
        /\ "origin" \notin closed => link'["origin"] = u
        /\ open' = open \ closed /\ fin' = fin \cup {Peer[m] : m \in closed}
        /\ sent' = sent /\ got' = got /\ left' = left
    <3>1. /\ open' = open \ closed /\ fin' = fin \cup {Peer[m] : m \in closed}
          /\ sent' = sent /\ got' = got /\ left' = left
      BY <2>2, SocketsLinks
    <3>2. "origin" \notin closed => link'["origin"] = u
      <4>1. "origin" \notin closed =>
                 link'["origin"] = SubSeq(link["origin"], k + 1, Len(link["origin"]))
        BY <2>2, SocketsLinks, Names
      <4> QED BY <1>3, <4>1, Zenon
    <3>3. link'["server"] = link["server"]
      <4>1. Cat(link["server"], NoBytes) = link["server"]
        BY ZenonT(40), Names, Typed, CatLaws
      <4>2. /\ "server" \in open => link'["server"] = Cat(link["server"], NoBytes)
            /\ "server" \notin open => link'["server"] = link["server"]
        BY <2>1, <2>2, SocketsLinks, Names
      <4> QED BY Zenon, <4>1, <4>2
    <3>4. /\ link'["V"] = link["V"] /\ link'["X"] = link["X"]
          /\ link'["service"] = link["service"] /\ link'["visitor"] = link["visitor"]
      BY <2>1, <2>2, SocketsLinks, Names
    <3> QED BY Zenon, <3>1, <3>2, <3>3, <3>4
  <2>6. Stages'
    <3>1. \A p \in Processes : died'[p] # "no" => Of[p] \cap open' = {}
      BY Zenon, <1>7, <2>5 DEF Stages
    <3>2. "origin" \in open' => Cat(buf'["origin"], link'["origin"]) = do_data_channel_handshake
      BY Zenon, <1>5, <2>4, <2>5
    <3>3. "service" \notin open' /\ "X" \notin open'
      BY Zenon, <1>2, <2>5 DEF Stages
    <3>4. "origin" \in fin' => "server" \notin open'
      BY Zenon, <2>1, <2>2, SocketsFin
    <3> QED BY Zenon, <1>2, <1>7, <2>4, <2>5, <3>1, <3>2, <3>3, <3>4 DEF Stages
  <2>7. Up'
    <3>1. Ahead' = Ahead /\ (UpRun' <=> UpRun) /\ (UpWhole' <=> UpWhole)
      BY Zenon, <1>7, <2>1, <2>5 DEF Ahead, UpRun, UpWhole, ToX
    <3> QED BY Zenon, <2>4, <2>5, <3>1 DEF Up, Chain
  <2>8. Down'
    <3>1. ~DownWhole' /\ ~DownRun'
      BY Zenon, <1>2, <1>7 DEF DownWhole, DownRun
    <3> QED BY Zenon, <2>4, <2>5, <3>1 DEF Down, Chain
  <2>9. Calm'
    <3>1. CASE end
      BY Zenon, <1>2, <1>7, <2>5, <3>1 DEF Calm, Undisturbed
    <3>2. CASE ~end
      <4>1. open' = open /\ fin' = fin
        BY Zenon, <2>5, <3>2 DEF closed
      <4> QED BY Zenon, <1>7, <2>5, <4>1 DEF Calm, Undisturbed, ToX
    <3> QED BY Zenon, <3>1, <3>2
  <2> QED BY Zenon, <2>3, <2>6, <2>7, <2>8, <2>9
<1>8. CASE /\ n > 0
           /\ \/ Sockets("origin", k, IF end THEN {"origin"} ELSE {}, {}, "origin",
                         Cat(StartCmd, buf["visitor"]))
              \/ /\ "server" \notin open
                 /\ Sockets("origin", k, Of["ncxs"] \cap open, {}, "origin", NoBytes)
           /\ bridged' = TRUE
           /\ buf' = [buf EXCEPT !["visitor"] = NoBytes, !["origin"] = after]
           /\ started' = started /\ died' = died
  <2> DEFINE w == Cat(StartCmd, buf["visitor"])
             s == Sends("V", sent["V"])
  <2>1. w \in Bytes /\ {} \in SUBSET Nodes
    BY Zenon, <1>4, CatLaws
  <2>2. after = NoBytes /\ u = NoBytes
    <3>1. Cat(input, u) = Cat(do_data_channel_handshake, NoBytes)
      <4>1. do_data_channel_handshake \in Bytes
        BY Zenon DEF FramesKnown
      <4> QED BY Zenon, <1>5, <4>1, CatLaws
    <3>2. after \in Bytes /\ Cat(after, u) = NoBytes
      <4> HIDE DEF input
      <4>1. input \in Bytes /\ NoBytes \in Bytes
        BY <1>4, <1>5, Zenon
      <4>2. canReadMsg(input) > 0
        BY ONLY Zenon, <1>8
      <4>3. Understood(do_data_channel_handshake)
        BY Zenon DEF FramesKnown
      <4> QED BY ONLY <3>1, <4>1, <4>2, <4>3, u \in Bytes, FrameTaken
    <3> HIDE DEF after
    <3> QED BY Zenon, <3>2, CatEmpty
  <2> HIDE DEF input, n, after, w, s
  <2>12. PICK closed \in SUBSET {"visitor", "origin"}, bytes \in Bytes :
            /\ Sockets("origin", k, closed, {}, "origin", bytes)
            /\ "server" \in open => bytes = w /\ \A m : m \notin closed
    <3>1. end => "server" \notin open
      BY Zenon, <1>2 DEF Stages
    <3>2. CASE Sockets("origin", k, IF end THEN {"origin"} ELSE {}, {}, "origin", w)
      <4> DEFINE cut == IF end THEN {"origin"} ELSE {}
      <4>1. cut \in SUBSET {"visitor", "origin"} /\ ("server" \in open => \A m : m \notin cut)
        BY Zenon, <3>1
      <4> QED BY Zenon, <2>1, <3>2, <4>1
    <3>3. CASE "server" \notin open /\ Sockets("origin", k, Of["ncxs"] \cap open, {}, "origin", NoBytes)
      <4>1. Of["ncxs"] \cap open \in SUBSET {"visitor", "origin"}
        BY Zenon, Names
      <4> QED BY Zenon, <1>4, <3>3, <4>1
    <3> QED BY Zenon, <1>8, <3>2, <3>3 DEF w
  <2>13. closed \in SUBSET Nodes
    BY Zenon, <2>12, Names
  <2>3. BridgeTypes'
    <3>1. buf' \in [Connections -> Bytes]
      BY Zenon, <1>4, <1>8, <2>2 DEF BridgeTypes
    <3> QED BY Zenon, <1>1, <1>8, <2>1, <2>12, <2>13, <3>1, Names, SocketsTypes DEF BridgeTypes
  <2>4. /\ buf'["origin"] = NoBytes /\ buf'["visitor"] = NoBytes /\ buf'["server"] = buf["server"]
        /\ buf'["service"] = buf["service"]
    BY ZenonT(40), <1>8, <2>2, Names DEF BridgeTypes
  <2>5. /\ link'["X"] = link["X"] /\ link'["service"] = link["service"] /\ link'["V"] = link["V"]
        /\ "visitor" \notin closed => link'["visitor"] = link["visitor"]
        /\ link'["origin"] = NoBytes
        /\ "server" \in open => link'["server"] = Cat(link["server"], w)
        /\ "server" \notin open => link'["server"] = link["server"]
        /\ open' = open \ closed
        /\ sent' = sent /\ got' = got /\ left' = left
    <3>1. /\ open' = open \ closed
          /\ sent' = sent /\ got' = got /\ left' = left
      BY <2>12, SocketsLinks
    <3>2. link'["origin"] = NoBytes
      <4>1. /\ "origin" \in closed => link'["origin"] = NoBytes
            /\ "origin" \notin closed =>
                 link'["origin"] = SubSeq(link["origin"], k + 1, Len(link["origin"]))
        BY <2>12, SocketsLinks, Names
      <4> QED BY <1>3, <2>2, <4>1, Zenon
    <3>3. /\ "server" \in open => link'["server"] = Cat(link["server"], bytes)
          /\ "server" \notin open => link'["server"] = link["server"]
      BY <2>12, SocketsLinks, Names
    <3>4. /\ link'["V"] = link["V"] /\ link'["X"] = link["X"]
          /\ link'["service"] = link["service"]
          /\ "visitor" \notin closed => link'["visitor"] = link["visitor"]
      BY <2>12, SocketsLinks, Names
    <3> QED BY Zenon, <2>12, <3>1, <3>2, <3>3, <3>4
  <2>6. Stages'
    <3>1. \A p \in Processes : died'[p] # "no" => Of[p] \cap open' = {}
      BY ZenonT(40), <1>8, <2>5 DEF Stages
    <3>2. "origin" \in fin' => "server" \notin open'
      BY Zenon, <2>12, <2>13, SocketsFin
    <3> QED BY ZenonT(40), <1>2, <1>8, <2>4, <2>5, <3>1, <3>2 DEF Stages
  <2>7. Calm'
    <3>1. Undisturbed' = Undisturbed
      BY Zenon, <1>8, <2>5 DEF Undisturbed
    <3>2. CASE "server" \in open
      <4>1. fin' = fin \cup {Peer[m] : m \in closed}
        BY <2>12, SocketsLinks
      <4>2. UNCHANGED <<died, started, left, open, fin>>
        BY Zenon, <1>8, <2>5, <2>12, <3>2, <4>1
      <4> QED BY Zenon, <1>2, <4>2 DEF Calm, Undisturbed, ToX
    <3>3. CASE "server" \notin open
      BY Zenon, <3>1, <3>3 DEF Calm
    <3> QED BY Zenon, <3>2, <3>3
  <2>8. /\ got["X"] = NoBytes /\ link["X"] = NoBytes /\ buf["server"] = NoBytes /\ link["server"] = NoBytes
        /\ got["V"] = NoBytes /\ link["V"] = NoBytes /\ Begins(buf["visitor"], s)
    BY Zenon, <1>2 DEF Stages, s
  <2>9. Cat(NoBytes, NoBytes) = NoBytes /\ Cat(NoBytes, w) = w
    BY Zenon, <1>4, <2>1, CatLaws
  <2>10. Down'
    <3>1. ~DownWhole'
      BY Zenon, <1>2, <1>8 DEF DownWhole
    <3>2. Begins(NoBytes, Sends("X", sent["X"])) /\ Cat(NoBytes, Sends("X", sent["X"])) = Sends("X", sent["X"])
      BY ZenonT(40), <1>4, BeginsLaws, CatLaws
    <3> QED BY ZenonT(40), <2>4, <2>5, <2>8, <2>9, <3>1, <3>2 DEF Down, Chain
  <2>11. Up'
    <3>1. Ahead' = StartCmd /\ Ahead = NoBytes
      BY Zenon, <1>2, <1>8 DEF Ahead
    <3>2. Begins(NoBytes, s)
      BY Zenon, <1>4, BeginsLaws DEF s
    <3>3. Begins(w, Cat(StartCmd, s))
      BY Zenon, <1>4, <2>8, BeginsLaws DEF w, s
    <3>4. UpWhole' => UpWhole /\ "server" \in open
      BY ZenonT(40), <1>2, <1>8, <2>5 DEF UpWhole, ToX
    <3>9. "visitor" \in open' => "visitor" \notin closed /\ link'["visitor"] = link["visitor"]
      BY Zenon, <2>5
    <3>5. UpWhole' => Cat(w, Cat(NoBytes, link["visitor"])) = Cat(StartCmd, s)
      <4> SUFFICES ASSUME UpWhole' PROVE Cat(w, Cat(NoBytes, link["visitor"])) = Cat(StartCmd, s)
        BY Zenon
      <4>1. Cat(Cat(Cat(NoBytes, NoBytes), Cat(NoBytes, NoBytes)), Cat(buf["visitor"], link["visitor"]))
              = Cat(NoBytes, s)
        BY ZenonT(40), <2>8, <3>1, <3>4 DEF Up, Chain, s
      <4>2. /\ Cat(NoBytes, Cat(buf["visitor"], link["visitor"])) = Cat(buf["visitor"], link["visitor"])
            /\ Cat(NoBytes, link["visitor"]) = link["visitor"]
            /\ Cat(NoBytes, s) = s
        BY Zenon, <1>4, CatLaws DEF s
      <4>3. Cat(buf["visitor"], link["visitor"]) = s
        BY Zenon, <2>9, <4>1, <4>2
      <4>4. Cat(w, link["visitor"]) = Cat(StartCmd, Cat(buf["visitor"], link["visitor"]))
        <5>1. buf["visitor"] \in Bytes /\ link["visitor"] \in Bytes /\ StartCmd \in Bytes
          BY Zenon, <1>4
        <5> QED BY ONLY ZenonT(40), <5>1, CatLaws DEF w
      <4> QED BY Zenon, <4>2, <4>3, <4>4
    <3>6. Chain(NoBytes, NoBytes, NoBytes, link'["server"], NoBytes, link'["visitor"], s, StartCmd, UpRun', UpWhole')
      <4>1. "server" \in open => link'["server"] = w
        BY Zenon, <2>5, <2>8, <2>9
      <4>2. UpRun' => "server" \in open
        BY Zenon, <2>5 DEF UpRun
      <4>3. UpWhole' => link'["visitor"] = link["visitor"]
        BY Zenon, <3>9 DEF UpWhole
      <4> QED BY Zenon, <2>9, <3>2, <3>3, <3>4, <3>5, <4>1, <4>2, <4>3 DEF Chain
    <3>7. s = Sends("V", sent'["V"])
      BY Zenon, <2>5 DEF s
    <3> QED BY ZenonT(40), <2>4, <2>5, <2>8, <3>1, <3>6, <3>7 DEF Up
  <2> QED BY Zenon, <2>3, <2>6, <2>7, <2>10, <2>11
<1> QED BY ZenonT(40), <1>1, <1>6, <1>7, <1>8

\* ncxc reads the end of the data connection.
LEMMA ServerEndStep ==
    ASSUME FramesKnown, BridgeInv, NEW k, ncxc_ServerEnd(k) PROVE BridgeInv'
<1> USE DEF BridgeInv, Steady
<1> DEFINE closed == Of["ncxc"] \cap open
<1>1. /\ CanRead("server", k, TRUE)
      /\ \/ /\ Sockets("server", k, closed, {}, "server", NoBytes)
            /\ buf' = [buf EXCEPT !["server"] = NoBytes]
            /\ bridged' = bridged /\ started' = started /\ died' = died
         \/ Dies("ncxc", "deleted")
  BY Zenon DEF ncxc_ServerEnd, NoBytes
<1>2. "server" \in open /\ "server" \in fin /\ ~Undisturbed
  BY Zenon, <1>1 DEF CanRead, Calm
<1>3. CASE Dies("ncxc", "deleted")
  <2>1. died["ncxc"] = "no"
    BY Zenon, <1>2, OpenAlive
  <2> QED BY Zenon, <1>2, <1>3, <2>1, DiesStep DEF Processes, Deaths
<1>4. CASE /\ Sockets("server", k, closed, {}, "server", NoBytes)
           /\ buf' = [buf EXCEPT !["server"] = NoBytes]
           /\ bridged' = bridged /\ started' = started /\ died' = died
  <2>1. /\ closed \in SUBSET Nodes /\ {} \in SUBSET Nodes /\ closed \subseteq {"server", "service"}
        /\ "server" \in closed /\ ("service" \in open => "service" \in closed)
    BY Zenon, <1>2, Names
  <2>2. NoBytes \in Bytes /\ link["origin"] \in Bytes
    BY Zenon, Names, Typed
  <2> HIDE DEF closed
  <2>3. BridgeTypes'
    <3>1. buf' \in [Connections -> Bytes]
      BY Zenon, <1>4, <2>2 DEF BridgeTypes
    <3> QED BY Zenon, <1>1, <1>4, <2>1, <2>2, <3>1, Names, SocketsTypes DEF BridgeTypes
  <2>4. /\ buf'["server"] = NoBytes
        /\ buf'["visitor"] = buf["visitor"] /\ buf'["origin"] = buf["origin"]
        /\ buf'["service"] = buf["service"]
    BY Zenon, <1>4, Names DEF BridgeTypes
  <2>5. /\ link'["V"] = link["V"] /\ link'["X"] = link["X"] /\ link'["visitor"] = link["visitor"]
        /\ link'["origin"] = link["origin"] /\ link'["server"] = NoBytes
        /\ "service" \notin open => link'["service"] = link["service"]
        /\ open' = open \ closed
        /\ sent' = sent /\ got' = got /\ left' = left
    <3>1. /\ open' = open \ closed /\ sent' = sent /\ got' = got /\ left' = left
      BY <1>4, SocketsLinks
    <3>2. link'["server"] = NoBytes
      BY <1>4, <2>1, SocketsLinks, Names
    <3>3. link'["origin"] = link["origin"]
      <4>1. Cat(link["origin"], NoBytes) = link["origin"]
        BY Zenon, <2>2, CatLaws
      <4>2. /\ "origin" \in open => link'["origin"] = Cat(link["origin"], NoBytes)
            /\ "origin" \notin open => link'["origin"] = link["origin"]
        BY <1>4, <2>1, SocketsLinks, Names
      <4> QED BY Zenon, <4>1, <4>2
    <3>4. /\ link'["V"] = link["V"] /\ link'["X"] = link["X"] /\ link'["visitor"] = link["visitor"]
      BY <1>4, <2>1, SocketsLinks, Names
    <3>5. "service" \notin open => link'["service"] = link["service"]
      <4>1. "service" \notin open => "service" \notin closed
        BY Zenon DEF closed
      <4> QED BY <1>4, <4>1, SocketsLinks, Names
    <3> QED BY Zenon, <3>1, <3>2, <3>3, <3>4, <3>5
  <2>6. Stages'
    <3>1. \A p \in Processes : died'[p] # "no" => Of[p] \cap open' = {}
      BY Zenon, <1>4, <2>5 DEF Stages
    <3>2. "origin" \in fin' => "server" \notin open'
      BY Zenon, <2>1, <2>5
    <3> QED BY ZenonT(40), <1>4, <2>1, <2>4, <2>5, <3>1, <3>2 DEF Stages
  <2>7. Ahead' = Ahead
    BY Zenon, <1>4 DEF Ahead
  <2>8. Up'
    <3>1. ~UpRun'
      BY Zenon, <2>1, <2>5 DEF UpRun
    <3>2. CASE bridged
      <4>1. ~UpWhole'
        BY Zenon, <1>4, <2>1, <2>5, <3>2 DEF UpWhole
      <4> QED BY Zenon, <2>5, <3>1, <4>1 DEF Up, Chain
    <3>3. CASE ~bridged
      <4>1. UpWhole' => UpWhole
        BY ZenonT(40), <1>4, <2>1, <2>5, <3>3 DEF UpWhole, ToX, Stages
      <4>2. link'["server"] = link["server"] /\ buf'["server"] = buf["server"]
        BY ZenonT(40), <2>4, <2>5, <3>3 DEF Stages
      <4> QED BY ZenonT(40), <2>4, <2>5, <2>7, <3>1, <4>1, <4>2 DEF Up, Chain
    <3> QED BY Zenon, <3>2, <3>3
  <2>9. Down'
    <3>1. ~DownWhole' /\ (DownRun' => DownRun)
      BY Zenon, <1>4, <2>1, <2>5 DEF DownWhole, DownRun
    <3> QED BY Zenon, <2>4, <2>5, <3>1 DEF Down, Chain
  <2>10. Calm'
    BY Zenon, <1>2, <1>4, <2>5 DEF Calm, Undisturbed
  <2> QED BY Zenon, <2>3, <2>6, <2>8, <2>9, <2>10
<1> QED BY Zenon, <1>1, <1>3, <1>4

\* ncxc reads the service.
LEMMA ServiceInStep ==
    ASSUME FramesKnown, BridgeInv, NEW k, NEW end \in BOOLEAN, ncxc_ServiceIn(k, end) PROVE BridgeInv'
<1> USE DEF BridgeInv, Steady
<1> DEFINE input == Input("service", k)
           closed == IF end THEN {"service"} ELSE {}
<1>1. /\ CanRead("service", k, end)
      /\ \/ /\ Sockets("service", k, closed, {}, "server", input)
            /\ buf' = [buf EXCEPT !["service"] = NoBytes]
            /\ bridged' = bridged /\ started' = started /\ died' = died
         \/ /\ "origin" \notin open
            /\ Sockets("service", k, Of["ncxc"] \cap open, {}, "server", NoBytes)
            /\ buf' = [buf EXCEPT !["service"] = NoBytes]
            /\ bridged' = bridged /\ started' = started /\ died' = died
         \/ SigPipe("ncxc", "server")
  <2>1. Peer["server"] = "origin"
    BY Zenon, Names
  <2> QED BY <2>1, Zenon DEF ncxc_ServiceIn, NoBytes
<1>2. "service" \in open /\ (end => "service" \in fin) /\ started /\ bridged
  BY Zenon, <1>1 DEF CanRead, Stages
<1>3. PICK t \in Bytes, u \in Bytes :
        /\ link["service"] = Cat(t, u) /\ input = Cat(buf["service"], t)
        /\ SubSeq(link["service"], k + 1, Len(link["service"])) = u
  <2>1. CanRead("service", k, end) /\ "service" \in Connections /\ BridgeTypes
    BY Zenon, <1>1, Names
  <2> QED BY ONLY Zenon, <2>1, Reads
<1>4. /\ got["V"] \in Bytes /\ link["V"] \in Bytes /\ buf["origin"] \in Bytes
      /\ link["origin"] \in Bytes /\ buf["service"] \in Bytes
      /\ Sends("X", sent["X"]) \in Bytes /\ NoBytes \in Bytes
  BY Zenon, Names, Typed
<1>5. input \in Bytes
  <2>1. buf["service"] \in Bytes
    BY Zenon, <1>4
  <2>2. Cat(buf["service"], t) \in Bytes
    BY ONLY Zenon, <2>1, t \in Bytes, CatLaws
  <2> QED BY Zenon, <1>3, <2>2
<1> HIDE DEF input
<1>6. CASE SigPipe("ncxc", "server")
  <2>1. "origin" \notin open /\ Dies("ncxc", "sigpipe")
    BY Zenon, <1>6, Names DEF SigPipe
  <2>2. ~Undisturbed
    BY Zenon, <2>1 DEF Calm
  <2>3. died["ncxc"] = "no"
    BY Zenon, <1>2, OpenAlive
  <2> QED BY Zenon, <2>1, <2>2, <2>3, DiesStep DEF Processes, Deaths
<1>7. CASE /\ Sockets("service", k, closed, {}, "server", input)
           /\ buf' = [buf EXCEPT !["service"] = NoBytes]
           /\ bridged' = bridged /\ started' = started /\ died' = died
  <2>1. closed \in SUBSET Nodes /\ {} \in SUBSET Nodes /\ closed \subseteq {"service"}
    BY Zenon, Names
  <2> HIDE DEF closed
  <2>2. BridgeTypes'
    <3>1. buf' \in [Connections -> Bytes]
      BY ZenonT(40), <1>4, <1>7 DEF BridgeTypes
    <3> QED BY ZenonT(40), <1>1, <1>5, <1>7, <2>1, <3>1, Names, SocketsTypes DEF BridgeTypes
  <2>3. /\ buf'["service"] = NoBytes
        /\ buf'["visitor"] = buf["visitor"] /\ buf'["server"] = buf["server"]
        /\ buf'["origin"] = buf["origin"]
    BY Zenon, <1>7, Names DEF BridgeTypes
  <2>4. /\ link'["server"] = link["server"] /\ link'["X"] = link["X"]
        /\ link'["visitor"] = link["visitor"] /\ link'["V"] = link["V"]
        /\ "service" \notin closed => link'["service"] = u
        /\ "origin" \in open => link'["origin"] = Cat(link["origin"], Cat(buf["service"], t))
        /\ "origin" \notin open => link'["origin"] = link["origin"]
        /\ open' = open \ closed /\ fin' = fin \cup {Peer[n] : n \in closed}
        /\ sent' = sent /\ got' = got /\ left' = left
    <3>1. /\ open' = open \ closed /\ fin' = fin \cup {Peer[n] : n \in closed}
          /\ sent' = sent /\ got' = got /\ left' = left
      BY <1>7, SocketsLinks
    <3>2. "service" \notin closed => link'["service"] = u
      <4>1. "service" \notin closed =>
                 link'["service"] = SubSeq(link["service"], k + 1, Len(link["service"]))
        BY <1>7, SocketsLinks, Names
      <4> QED BY <1>3, <4>1, Zenon
    <3>3. /\ "origin" \in open => link'["origin"] = Cat(link["origin"], Cat(buf["service"], t))
          /\ "origin" \notin open => link'["origin"] = link["origin"]
      <4>1. /\ "origin" \in open => link'["origin"] = Cat(link["origin"], input)
            /\ "origin" \notin open => link'["origin"] = link["origin"]
        BY <1>7, <2>1, SocketsLinks, Names
      <4> QED BY <1>3, <4>1, Zenon
    <3>4. /\ link'["server"] = link["server"] /\ link'["X"] = link["X"]
          /\ link'["visitor"] = link["visitor"] /\ link'["V"] = link["V"]
      BY <1>7, <2>1, SocketsLinks, Names
    <3> QED BY Zenon, <3>1, <3>2, <3>3, <3>4
  <2>5. Stages'
    <3>1. \A p \in Processes : died'[p] # "no" => Of[p] \cap open' = {}
      BY Zenon, <1>7, <2>4 DEF Stages
    <3>2. "origin" \in fin' => "server" \notin open'
      BY Zenon, <1>7, <2>1, SocketsFin
    <3> QED BY ZenonT(40), <1>2, <1>7, <2>1, <2>3, <2>4, <3>1, <3>2 DEF Stages
  <2>6. Ahead' = Ahead
    BY Zenon, <1>7 DEF Ahead
  <2>7. Up'
    <3>1. (UpRun' => UpRun) /\ (UpWhole' => UpWhole)
      BY Zenon, <1>7, <2>1, <2>4 DEF UpRun, UpWhole, ToX
    <3> QED BY ZenonT(40), <2>3, <2>4, <2>6, <3>1 DEF Up, Chain
  <2>8. Down'
    <3>1. DownRun' = DownRun
      BY ZenonT(40), <1>7, <2>1, <2>4 DEF DownRun
    <3>2. DownWhole' => "service" \notin closed /\ DownWhole
      BY ZenonT(40), <1>7, <2>4 DEF DownWhole, DownRun
    <3>3. CASE "origin" \in open
      <4>1. DownRun => DownWhole
        BY Zenon, <1>2 DEF DownRun, DownWhole
      <4>2. Chain(got["V"], link["V"], buf["origin"], link["origin"], buf["service"], Cat(t, u),
                  Sends("X", sent["X"]), NoBytes, DownRun, DownWhole)
        BY Zenon, <1>3 DEF Down
      <4>3. Chain(got["V"], link["V"], buf["origin"],
                  Cat(link["origin"], Cat(buf["service"], t)), NoBytes, u,
                  Sends("X", sent["X"]), NoBytes, DownRun, DownWhole)
        BY ONLY ZenonT(40), <1>4, <4>1, <4>2, t \in Bytes, u \in Bytes, ChainFirstPasses
      <4> QED BY Zenon, <2>3, <2>4, <3>1, <3>2, <3>3, <4>3 DEF Down, Chain
    <3>4. CASE "origin" \notin open
      <4>1. ~DownRun' /\ ~DownWhole'
        BY Zenon, <2>4, <3>4 DEF DownRun, DownWhole
      <4> QED BY ZenonT(40), <2>4, <4>1 DEF Down, Chain
    <3> QED BY Zenon, <3>3, <3>4
  <2>9. Calm'
    <3>1. CASE end
      BY ZenonT(40), <1>2, <1>7, <2>4, <3>1 DEF Calm, Undisturbed
    <3>2. CASE ~end
      <4>1. open' = open /\ fin' = fin
        BY Zenon, <2>4, <3>2 DEF closed
      <4> QED BY Zenon, <1>7, <2>4, <4>1 DEF Calm, Undisturbed, ToX
    <3> QED BY Zenon, <3>1, <3>2
  <2> QED BY Zenon, <2>2, <2>5, <2>7, <2>8, <2>9
<1>8. CASE /\ "origin" \notin open
           /\ Sockets("service", k, Of["ncxc"] \cap open, {}, "server", NoBytes)
           /\ buf' = [buf EXCEPT !["service"] = NoBytes]
           /\ bridged' = bridged /\ started' = started /\ died' = died
  <2> DEFINE cut == Of["ncxc"] \cap open
  <2>1. cut \in SUBSET Connections /\ cut \subseteq {"server", "service"} /\ "service" \in cut
    BY Zenon, <1>2, Names
  <2>2. Sockets("service", k, cut, {}, "server", NoBytes)
    BY Zenon, <1>8
  <2> HIDE DEF cut
  <2>3. open' = open \ cut
    BY <2>2, SocketsLinks
  <2>4. ~UpWhole' /\ ~DownWhole' /\ ~UpRun' /\ ~DownRun'
    BY Zenon, <1>2, <1>8, <2>1, <2>3 DEF UpWhole, DownWhole, UpRun, DownRun, ToX
  <2>5. ~Undisturbed
    BY Zenon, <1>8 DEF Calm
  <2> QED BY ZenonT(40), <1>1, <1>2, <1>8, <2>1, <2>2, <2>4, <2>5, Names, FailStep
<1> QED BY Zenon, <1>1, <1>6, <1>7, <1>8

\* ncxc reads the data connection while forwarding.
LEMMA ServerInStep ==
    ASSUME FramesKnown, BridgeInv, NEW k, ncxc_ServerIn(k) PROVE BridgeInv'
<1> USE DEF BridgeInv, Steady
<1> DEFINE input == Input("server", k)
           nil == {}
<1>1. /\ CanRead("server", k, FALSE) /\ started
      /\ \/ /\ "service" \in open
            /\ Sockets("server", k, nil, nil, "service", input)
            /\ buf' = [buf EXCEPT !["server"] = NoBytes]
            /\ bridged' = bridged /\ started' = started /\ died' = died
         \/ /\ "X" \notin open
            /\ Sockets("server", k, {"service"}, {}, "service", NoBytes)
            /\ buf' = [buf EXCEPT !["server"] = NoBytes]
            /\ bridged' = bridged /\ started' = started /\ died' = died
         \/ SigPipe("ncxc", "service")
         \/ "service" \notin open /\ Dies("ncxc", "null")
  <2>1. Peer["service"] = "X"
    BY Zenon, Names
  <2> QED BY <2>1, Zenon DEF ncxc_ServerIn, NoBytes
<1> HIDE DEF nil
<1>2. "server" \in open /\ started /\ bridged
  BY Zenon, <1>1 DEF CanRead, Stages
<1>3. PICK t \in Bytes, u \in Bytes :
        /\ link["server"] = Cat(t, u) /\ input = Cat(buf["server"], t)
        /\ SubSeq(link["server"], k + 1, Len(link["server"])) = u
  <2>1. CanRead("server", k, FALSE) /\ "server" \in Connections /\ BridgeTypes
    BY ZenonT(40), <1>1, Names
  <2> QED BY ONLY Zenon, <2>1, Reads
<1>4. /\ got["X"] \in Bytes /\ link["X"] \in Bytes /\ buf["server"] \in Bytes
      /\ Sends("V", sent["V"]) \in Bytes /\ NoBytes \in Bytes
  BY Zenon, Names, Typed
<1>5. input \in Bytes
  <2>1. buf["server"] \in Bytes
    BY Zenon, <1>4
  <2>2. Cat(buf["server"], t) \in Bytes
    BY ONLY Zenon, <2>1, t \in Bytes, CatLaws
  <2> QED BY Zenon, <1>3, <2>2
<1> HIDE DEF input
<1>6. died["ncxc"] = "no"
  BY Zenon, <1>2, OpenAlive
<1>7. CASE SigPipe("ncxc", "service")
  <2>1. "X" \notin open /\ Dies("ncxc", "sigpipe")
    BY Zenon, <1>7, Names DEF SigPipe
  <2>2. ~Undisturbed
    BY Zenon, <1>2, <2>1 DEF Calm, ToX
  <2> QED BY Zenon, <1>6, <2>1, <2>2, DiesStep DEF Processes, Deaths
<1>8. CASE "service" \notin open /\ Dies("ncxc", "null")
  <2>1. ~Undisturbed
    BY Zenon, <1>2, <1>8 DEF Calm, ToX
  <2> QED BY Zenon, <1>6, <1>8, <2>1, DiesStep DEF Processes, Deaths
<1>9. CASE /\ "service" \in open
           /\ Sockets("server", k, nil, nil, "service", input)
           /\ buf' = [buf EXCEPT !["server"] = NoBytes]
           /\ bridged' = bridged /\ started' = started /\ died' = died
  <2>1. nil \in SUBSET Nodes /\ \A m : m \notin nil
    BY Zenon DEF nil
  <2>2. BridgeTypes'
    <3>1. buf' \in [Connections -> Bytes]
      BY Zenon, <1>4, <1>9 DEF BridgeTypes
    <3> QED BY Zenon, <1>1, <1>5, <1>9, <2>1, <3>1, Names, SocketsTypes DEF BridgeTypes
  <2>3. /\ buf'["server"] = NoBytes
        /\ buf'["visitor"] = buf["visitor"] /\ buf'["service"] = buf["service"]
        /\ buf'["origin"] = buf["origin"]
    BY ZenonT(40), <1>9, Names DEF BridgeTypes
  <2>4. /\ link'["service"] = link["service"] /\ link'["origin"] = link["origin"]
        /\ link'["visitor"] = link["visitor"] /\ link'["V"] = link["V"]
        /\ link'["server"] = u
        /\ "X" \in open => link'["X"] = Cat(link["X"], Cat(buf["server"], t))
        /\ "X" \notin open => link'["X"] = link["X"]
        /\ open' = open /\ fin' = fin
        /\ sent' = sent /\ got' = got /\ left' = left
    <3>1. /\ open' = (open \cup nil) \ nil /\ fin' = fin \cup {Peer[n] : n \in nil}
          /\ sent' = sent /\ got' = got /\ left' = left
      BY <1>9, SocketsLinks
    <3>2. link'["server"] = u
      <4>1. link'["server"] = SubSeq(link["server"], k + 1, Len(link["server"]))
        BY <1>9, <2>1, SocketsLinks, Names
      <4> QED BY <1>3, <4>1, Zenon
    <3>3. /\ "X" \in open => link'["X"] = Cat(link["X"], Cat(buf["server"], t))
          /\ "X" \notin open => link'["X"] = link["X"]
      <4>1. /\ "X" \in open => link'["X"] = Cat(link["X"], input)
            /\ "X" \notin open => link'["X"] = link["X"]
        BY <1>9, <2>1, SocketsLinks, Names
      <4> QED BY <1>3, <4>1, Zenon
    <3>4. /\ link'["service"] = link["service"] /\ link'["origin"] = link["origin"]
          /\ link'["visitor"] = link["visitor"] /\ link'["V"] = link["V"]
      BY <1>9, <2>1, SocketsLinks, Names
    <3>5. open' = open /\ fin' = fin
      BY Zenon, <2>1, <3>1
    <3> QED BY Zenon, <3>1, <3>2, <3>3, <3>4, <3>5
  <2>5. Stages'
    <3>1. \A p \in Processes : died'[p] # "no" => Of[p] \cap open' = {}
      BY ZenonT(40), <1>9, <2>4 DEF Stages
    <3> QED BY ZenonT(40), <1>2, <1>9, <2>3, <2>4, <3>1 DEF Stages
  <2>6. /\ Ahead' = NoBytes /\ Ahead = NoBytes
        /\ UpRun' = UpRun /\ UpWhole' = UpWhole /\ DownRun' = DownRun /\ DownWhole' = DownWhole
    <3>1. bridged' = bridged /\ started' = started /\ open' = open
      BY Zenon, <1>9, <2>4
    <3>2. Ahead' = NoBytes /\ Ahead = NoBytes
      BY Zenon, <1>2, <3>1 DEF Ahead
    <3> QED BY ONLY Zenon, <3>1, <3>2 DEF UpRun, UpWhole, ToX, DownRun, DownWhole
  <2>7. Down'
    BY Zenon, <2>3, <2>4, <2>6 DEF Down, Chain
  <2>8. Chain(got["X"], link["X"], buf["server"], Cat(t, u), buf["visitor"], link["visitor"],
              Sends("V", sent["V"]), NoBytes, UpRun, UpWhole)
    BY Zenon, <1>3, <2>6 DEF Up
  <2>9. Up'
    <3>1. CASE "X" \in open
      <4>1. UpRun
        BY Zenon, <1>2, <1>9, <3>1 DEF UpRun, ToX
      <4>2. Chain(got["X"], Cat(link["X"], Cat(buf["server"], t)), NoBytes, u,
                  buf["visitor"], link["visitor"],
                  Sends("V", sent["V"]), NoBytes, UpRun, UpWhole)
        BY ONLY ZenonT(40), <1>4, <2>8, <4>1, t \in Bytes, u \in Bytes, ChainMiddlePasses
      <4> QED BY Zenon, <2>3, <2>4, <2>6, <3>1, <4>2 DEF Up
    <3>2. CASE "X" \notin open
      <4>1. ~UpRun' /\ ~UpWhole'
        BY Zenon, <1>2, <2>6, <3>2 DEF UpRun, UpWhole, ToX
      <4>2. Begins(Cat(got["X"], link["X"]), Sends("V", sent["V"]))
        BY Zenon, <2>8 DEF Chain
      <4>3. link'["X"] = link["X"] /\ got' = got /\ sent' = sent
        BY Zenon, <2>4, <3>2
      <4> QED BY ONLY Zenon, <4>1, <4>2, <4>3 DEF Up, Chain
    <3> QED BY Zenon, <3>1, <3>2
  <2>10. Calm'
    BY Zenon, <1>9, <2>4 DEF Calm, Undisturbed, ToX
  <2> QED BY Zenon, <2>2, <2>5, <2>7, <2>9, <2>10
<1>10. CASE /\ "X" \notin open
            /\ Sockets("server", k, {"service"}, {}, "service", NoBytes)
            /\ buf' = [buf EXCEPT !["server"] = NoBytes]
            /\ bridged' = bridged /\ started' = started /\ died' = died
  <2> DEFINE cut == {"service"}
  <2>1. cut \in SUBSET Connections /\ \A m : m \in cut <=> m = "service"
    BY Zenon, Names
  <2>2. Sockets("server", k, cut, {}, "service", NoBytes)
    BY Zenon, <1>10
  <2> HIDE DEF cut
  <2>3. open' = open \ cut
    BY <2>2, SocketsLinks
  <2>4. ~UpWhole' /\ ~DownWhole' /\ ~UpRun' /\ (DownRun' => DownRun)
    BY Zenon, <1>2, <1>10, <2>1, <2>3 DEF UpWhole, DownWhole, UpRun, DownRun, ToX
  <2>5. ~Undisturbed
    BY Zenon, <1>2, <1>10 DEF Calm, ToX
  <2> QED BY ZenonT(40), <1>1, <1>2, <1>10, <2>1, <2>2, <2>4, <2>5, Names, FailStep
<1> QED BY Zenon, <1>1, <1>7, <1>8, <1>9, <1>10

\* ncxc reads the data connection before the command is whole, and when it is.
LEMMA StartStep ==
    ASSUME FramesKnown, BridgeInv, NEW k, ncxc_Start(k) PROVE BridgeInv'
<1> USE DEF BridgeInv, Steady
<1> DEFINE input == Input("server", k)
           n == canReadMsg(input)
           after == AfterMessage(input, n)
           nil == {}
           new == {"service", "X"}
<1>1. /\ CanRead("server", k, FALSE) /\ ~started
      /\ \/ /\ Sockets("server", k, nil, nil, "server", NoBytes)
            /\ buf' = [buf EXCEPT !["server"] = LeftOnZero(input)]
            /\ bridged' = bridged /\ started' = started /\ died' = died
         \/ /\ n > 0
            /\ Sockets("server", k, nil, new, "service", after)
            /\ buf' = [buf EXCEPT !["server"] = NoBytes]
            /\ started' = TRUE /\ bridged' = bridged /\ died' = died
         \/ Dies("ncxc", "refused")
  <2>1. ForwardRest(after).forwarded = after /\ ForwardRest(after).kept = NoBytes
    BY Zenon DEF ForwardRest, NoBytes
  <2> HIDE DEF input, n, after
  <2> QED BY <2>1, Zenon DEF ncxc_Start, NoBytes, input, n, after
<1> HIDE DEF nil, new
<1>2. PICK t \in Bytes, u \in Bytes :
        /\ link["server"] = Cat(t, u) /\ input = Cat(buf["server"], t)
        /\ SubSeq(link["server"], k + 1, Len(link["server"])) = u
        /\ k > 0 => link["server"] # NoBytes
  <2>1. CanRead("server", k, FALSE) /\ "server" \in Connections /\ BridgeTypes
    BY Zenon, <1>1, Names
  <2> QED BY ONLY Zenon, <2>1, Reads
<1>3. "server" \in open /\ ~started /\ bridged
  <2>1. "server" \in open /\ k > 0
    BY Zenon, <1>1 DEF CanRead
  <2>2. link["server"] # NoBytes
    BY Zenon, <1>2, <2>1
  <2> QED BY Zenon, <1>1, <2>1, <2>2 DEF Stages
<1>4. /\ got["X"] = NoBytes /\ link["X"] = NoBytes /\ link["service"] = NoBytes /\ sent["X"] = 0
      /\ buf["service"] = NoBytes /\ "service" \notin open /\ "X" \notin open
  BY ZenonT(40), <1>3 DEF Stages
<1>5. /\ buf["server"] \in Bytes /\ Sends("V", sent["V"]) \in Bytes /\ NoBytes \in Bytes
      /\ buf["visitor"] \in Bytes /\ link["visitor"] \in Bytes
      /\ got["V"] \in Bytes /\ link["V"] \in Bytes
      /\ buf["origin"] \in Bytes /\ link["origin"] \in Bytes
  BY ZenonT(40), Names, Typed
<1>6. input \in Bytes /\ Cat(input, u) = Cat(buf["server"], link["server"])
  <2>1. buf["server"] \in Bytes
    BY Zenon, <1>5
  <2>2. Cat(buf["server"], t) \in Bytes /\ Cat(Cat(buf["server"], t), u) = Cat(buf["server"], Cat(t, u))
    BY ONLY ZenonT(40), <2>1, t \in Bytes, u \in Bytes, CatLaws
  <2> QED BY Zenon, <1>2, <2>2
<1>7. died["ncxc"] = "no"
  BY Zenon, <1>3, OpenAlive
<1>8. nil \in SUBSET Nodes /\ new \in SUBSET Nodes /\ \A m : m \notin nil
  BY Zenon, Names DEF nil, new
<1>9. CASE Dies("ncxc", "refused")
  BY Zenon, <1>7, <1>9, DiesStep DEF Processes, Deaths
<1>12. PICK q \in Bytes : Cat(Cat(input, u), q) = Cat(StartCmd, Sends("V", sent["V"]))
  <2> DEFINE all == Cat(input, u)
  <2>1. all \in Bytes /\ Cat(buf["server"], link["server"]) = all
    BY Zenon, <1>6, u \in Bytes, CatLaws
  <2> HIDE DEF all, input
  <2>2. UpRun /\ Ahead = StartCmd
    BY Zenon, <1>3 DEF UpRun, ToX, Ahead
  <2>3. Begins(Cat(Cat(NoBytes, NoBytes), all), Cat(StartCmd, Sends("V", sent["V"])))
    BY ZenonT(40), <1>4, <2>1, <2>2 DEF Up, Chain
  <2>4. Cat(NoBytes, NoBytes) = NoBytes /\ Cat(NoBytes, all) = all
    BY Zenon, <1>5, <2>1, CatLaws
  <2> QED BY Zenon, <2>3, <2>4 DEF Begins, all
<1>13. LeftOnZero(input) = input
  <2>1. input \in Bytes /\ Sends("V", sent["V"]) \in Bytes /\ Understood(StartCmd)
    BY Zenon, <1>5, <1>6 DEF FramesKnown
  <2> HIDE DEF input
  <2>2. Cat(u, q) \in Bytes /\ Cat(input, Cat(u, q)) = Cat(Cat(input, u), q)
    BY ONLY <2>1, u \in Bytes, q \in Bytes, CatLaws
  <2>3. Cat(input, Cat(u, q)) = Cat(StartCmd, Sends("V", sent["V"]))
    BY Zenon, <1>12, <2>2
  <2> QED BY <2>1, <2>2, <2>3, FrameWaits
<1>10. CASE /\ Sockets("server", k, nil, nil, "server", NoBytes)
            /\ buf' = [buf EXCEPT !["server"] = LeftOnZero(input)]
            /\ bridged' = bridged /\ started' = started /\ died' = died
  <2> HIDE DEF input
  <2>1. BridgeTypes'
    <3>1. buf' \in [Connections -> Bytes]
      BY ZenonT(40), <1>6, <1>10, <1>13 DEF BridgeTypes
    <3> QED BY ZenonT(40), <1>1, <1>5, <1>8, <1>10, <3>1, Names, SocketsTypes DEF BridgeTypes
  <2>2. /\ buf'["server"] = input
        /\ buf'["visitor"] = buf["visitor"] /\ buf'["service"] = buf["service"]
        /\ buf'["origin"] = buf["origin"]
    BY Zenon, <1>10, <1>13, Names DEF BridgeTypes
  <2>3. /\ link'["service"] = link["service"] /\ link'["origin"] = link["origin"]
        /\ link'["visitor"] = link["visitor"] /\ link'["V"] = link["V"]
        /\ link'["X"] = link["X"] /\ link'["server"] = u
        /\ open' = open /\ fin' = fin
        /\ sent' = sent /\ got' = got /\ left' = left
    <3>1. /\ open' = (open \cup nil) \ nil /\ fin' = fin \cup {Peer[m] : m \in nil}
          /\ sent' = sent /\ got' = got /\ left' = left
      BY <1>10, SocketsLinks
    <3>2. link'["server"] = u
      <4>1. link'["server"] = SubSeq(link["server"], k + 1, Len(link["server"]))
        BY <1>8, <1>10, SocketsLinks, Names
      <4> QED BY <1>2, <4>1, Zenon
    <3>3. link'["origin"] = link["origin"]
      <4>1. Cat(link["origin"], NoBytes) = link["origin"]
        BY Zenon, <1>5, CatLaws
      <4>2. /\ "origin" \in open => link'["origin"] = Cat(link["origin"], NoBytes)
            /\ "origin" \notin open => link'["origin"] = link["origin"]
        BY <1>8, <1>10, SocketsLinks, Names
      <4> QED BY Zenon, <4>1, <4>2
    <3>4. /\ link'["service"] = link["service"] /\ link'["X"] = link["X"]
          /\ link'["visitor"] = link["visitor"] /\ link'["V"] = link["V"]
      BY <1>8, <1>10, SocketsLinks, Names
    <3>5. open' = open /\ fin' = fin
      BY Zenon, <1>8, <3>1
    <3> QED BY Zenon, <3>1, <3>2, <3>3, <3>4, <3>5
  <2>4. Stages'
    <3>1. \A p \in Processes : died'[p] # "no" => Of[p] \cap open' = {}
      BY ZenonT(40), <1>10, <2>3 DEF Stages
    <3> QED BY ZenonT(40), <1>3, <1>10, <2>2, <2>3, <3>1 DEF Stages
  <2>5. /\ Ahead' = Ahead
        /\ UpRun' = UpRun /\ UpWhole' = UpWhole /\ DownRun' = DownRun /\ DownWhole' = DownWhole
    BY ZenonT(40), <1>10, <2>3 DEF Ahead, UpRun, UpWhole, ToX, DownRun, DownWhole
  <2>6. Down'
    BY ZenonT(40), <2>2, <2>3, <2>5 DEF Down, Chain
  <2>7. Up'
    BY ZenonT(40), <1>6, <2>2, <2>3, <2>5 DEF Up, Chain
  <2>8. Calm'
    BY Zenon, <1>10, <2>3 DEF Calm, Undisturbed, ToX
  <2> QED BY Zenon, <2>1, <2>4, <2>6, <2>7, <2>8
<1>11. CASE /\ n > 0
            /\ Sockets("server", k, nil, new, "service", after)
            /\ buf' = [buf EXCEPT !["server"] = NoBytes]
            /\ started' = TRUE /\ bridged' = bridged /\ died' = died
  <2> DEFINE s == Sends("V", sent["V"])
  <2>1. /\ after \in Bytes
        /\ \A r \in Bytes : Cat(Cat(input, u), r) = Cat(StartCmd, s) => Cat(after, Cat(u, r)) = s
    <3>6. ASSUME NEW r \in Bytes, Cat(Cat(input, u), r) = Cat(StartCmd, s)
          PROVE  after \in Bytes /\ Cat(after, Cat(u, r)) = s
      <4>1. Cat(u, r) \in Bytes /\ Cat(input, Cat(u, r)) = Cat(Cat(input, u), r)
        <5>1. input \in Bytes
          BY Zenon, <1>6
        <5> HIDE DEF input
        <5> QED BY ONLY <5>1, u \in Bytes, r \in Bytes, CatLaws
      <4>2. Cat(input, Cat(u, r)) = Cat(StartCmd, s)
        BY Zenon, <3>6, <4>1
      <4>3. s \in Bytes /\ input \in Bytes /\ canReadMsg(input) > 0
        BY ZenonT(40), <1>5, <1>6, <1>11
      <4> HIDE DEF input, s
      <4>4. Understood(StartCmd)
        BY Zenon DEF FramesKnown
      <4> QED BY <4>1, <4>2, <4>3, <4>4, FrameTaken
    <3> QED BY Zenon, <1>12, <3>6
  <2> HIDE DEF input, n, after, s
  <2>2. BridgeTypes'
    <3>1. buf' \in [Connections -> Bytes]
      BY Zenon, <1>5, <1>11 DEF BridgeTypes
    <3> QED BY ZenonT(40), <1>1, <1>8, <1>11, <2>1, <3>1, Names, SocketsTypes DEF BridgeTypes
  <2>3. /\ buf'["server"] = NoBytes
        /\ buf'["visitor"] = buf["visitor"] /\ buf'["service"] = buf["service"]
        /\ buf'["origin"] = buf["origin"]
    BY ZenonT(40), <1>11, Names DEF BridgeTypes
  <2>4. /\ link'["service"] = NoBytes /\ link'["origin"] = link["origin"]
        /\ link'["visitor"] = link["visitor"] /\ link'["V"] = link["V"]
        /\ link'["X"] = after /\ link'["server"] = u
        /\ open' = open \cup {"service", "X"} /\ fin' = fin
        /\ sent' = sent /\ got' = got /\ left' = left
    <3>1. /\ open' = (open \cup new) \ nil /\ fin' = fin \cup {Peer[m] : m \in nil}
          /\ sent' = sent /\ got' = got /\ left' = left
      BY <1>11, SocketsLinks
    <3>2. link'["server"] = u
      <4>1. link'["server"] = SubSeq(link["server"], k + 1, Len(link["server"]))
        BY <1>8, <1>11, SocketsLinks, Names
      <4> QED BY <1>2, <4>1, Zenon
    <3>3. link'["X"] = after
      <4>1. Cat(NoBytes, after) = after
        BY Zenon, <2>1, CatLaws
      <4>2. link'["X"] = Cat(link["X"], after)
        <5>1. "X" \in new
          BY Zenon DEF new
        <5> QED BY <1>8, <1>11, <5>1, SocketsLinks, Names
      <4> QED BY Zenon, <1>4, <4>1, <4>2
    <3>4. /\ link'["service"] = link["service"] /\ link'["origin"] = link["origin"]
          /\ link'["visitor"] = link["visitor"] /\ link'["V"] = link["V"]
      BY <1>8, <1>11, SocketsLinks, Names
    <3>5. open' = open \cup {"service", "X"} /\ fin' = fin
      BY Zenon, <1>8, <3>1 DEF new
    <3> QED BY Zenon, <1>4, <3>1, <3>2, <3>3, <3>4, <3>5
  <2>5. Stages'
    <3>1. \A p \in Processes : died'[p] # "no" => Of[p] \cap open' = {}
      BY ZenonT(40), <1>7, <1>11, <2>4, Names DEF Stages, Processes
    <3> QED BY ZenonT(40), <1>3, <1>4, <1>11, <2>3, <2>4, <3>1 DEF Stages
  <2>6. Down'
    <3>1. DownRun' = DownRun /\ (DownWhole' => DownRun)
      BY ZenonT(40), <1>11, <2>4 DEF DownRun, DownWhole
    <3>2. Sends("X", sent["X"]) = NoBytes /\ Cat(NoBytes, NoBytes) = NoBytes
      BY ZenonT(40), <1>4, <1>5, SendsBytes, Names, CatLaws
    <3> DEFINE all == Cat(Cat(got["V"], link["V"]), Cat(buf["origin"], link["origin"]))
    <3>3. all \in Bytes
      <4>1. Cat(got["V"], link["V"]) \in Bytes /\ Cat(buf["origin"], link["origin"]) \in Bytes
        BY ZenonT(40), <1>5, CatLaws
      <4> QED BY ONLY ZenonT(40), <4>1, CatLaws
    <3>4. DownRun => Begins(all, NoBytes)
      BY Zenon, <3>2 DEF Down, Chain
    <3>5. Begins(Cat(got["V"], link["V"]), NoBytes)
      BY Zenon, <3>2 DEF Down, Chain
    <3>6. DownRun => all = NoBytes
      <4> HIDE DEF all
      <4> QED BY Zenon, <3>3, <3>4, BeginsLaws
    <3> QED BY ZenonT(40), <1>4, <2>3, <2>4, <3>1, <3>2, <3>4, <3>5, <3>6 DEF Down, Chain
  <2>7. Up'
    <3>1. Ahead' = NoBytes /\ Ahead = StartCmd /\ UpRun
      BY Zenon, <1>3, <1>11 DEF Ahead, UpRun, ToX
    <3>2. UpWhole' => UpWhole
      BY ZenonT(40), <1>3, <1>11, <2>4 DEF UpWhole, ToX
    <3>3. /\ Cat(NoBytes, NoBytes) = NoBytes /\ Cat(NoBytes, after) = after /\ Cat(NoBytes, u) = u
          /\ Cat(NoBytes, s) = s /\ Cat(NoBytes, Cat(input, u)) = Cat(input, u)
          /\ Cat(after, u) \in Bytes
      BY ZenonT(40), <1>5, <1>6, <2>1, CatLaws DEF s
    <3>5. Cat(after, Cat(u, q)) = s
      BY Zenon, <1>12, <2>1 DEF s
    <3>6. Begins(after, s) /\ Begins(Cat(after, u), s)
      <4>1. Cat(u, q) \in Bytes /\ Cat(Cat(after, u), q) = s
        BY <2>1, <3>5, CatLaws
      <4> QED BY Zenon, <3>5, <4>1 DEF Begins
    <3>7. UpWhole' => Cat(Cat(after, u), Cat(buf["visitor"], link["visitor"])) = s
      <4> SUFFICES ASSUME UpWhole' PROVE Cat(Cat(after, u), Cat(buf["visitor"], link["visitor"])) = s
        BY Zenon
      <4> DEFINE a == Cat(buf["visitor"], link["visitor"])
      <4>1. a \in Bytes
        BY ZenonT(40), <1>5, CatLaws
      <4>2. Cat(Cat(input, u), a) = Cat(StartCmd, s)
        BY Zenon, <1>4, <1>6, <3>1, <3>2, <3>3 DEF Up, Chain, s
      <4> HIDE DEF a
      <4>3. Cat(after, Cat(u, a)) = s
        BY Zenon, <2>1, <4>1, <4>2
      <4>4. Cat(Cat(after, u), a) = Cat(after, Cat(u, a))
        <5>1. after \in Bytes
          BY Zenon, <2>1
        <5> QED BY ONLY <5>1, u \in Bytes, <4>1, CatLaws
      <4> QED BY Zenon, <4>3, <4>4 DEF a
    <3>8. s = Sends("V", sent'["V"])
      BY Zenon, <2>4 DEF s
    <3>9. Chain(NoBytes, after, NoBytes, u, buf["visitor"], link["visitor"], s, NoBytes, UpRun', UpWhole')
      BY ZenonT(40), <3>3, <3>6, <3>7 DEF Chain
    <3> QED BY ZenonT(40), <1>4, <2>3, <2>4, <3>1, <3>8, <3>9 DEF Up
  <2>8. Calm'
    BY Zenon, <1>11, <2>4 DEF Calm, Undisturbed, ToX
  <2> QED BY Zenon, <2>2, <2>5, <2>6, <2>7, <2>8
<1> QED BY Zenon, <1>1, <1>9, <1>10, <1>11

\* Every step of the ends and of both processes keeps the invariant.
LEMMA BridgeStep == FramesKnown /\ BridgeInv /\ [Next]_vars => BridgeInv'
<1> SUFFICES ASSUME FramesKnown, BridgeInv, [Next]_vars PROVE BridgeInv'
  BY Zenon
<1>1. ASSUME NEW e \in Ends, EndSends(e) \/ EndReads(e) \/ EndCloses(e) PROVE BridgeInv'
  BY Zenon, <1>1, EndSendsStep, EndReadsStep, EndClosesStep
<1>2. ASSUME NEW p \in {"ncxs", "ncxc"}, Killed(p) PROVE BridgeInv'
  BY Zenon, <1>2, KilledStep DEF Processes
<1>3. CASE VisitorIn
  BY Zenon, <1>3, VisitorInStep DEF VisitorIn
<1>4. CASE OriginIn
  BY Zenon, <1>4, HelloStep, OriginInStep DEF OriginIn
<1>5. CASE ServerIn
  BY Zenon, <1>5, StartStep, ServerInStep DEF ServerIn
<1>6. CASE ServerEnd
  BY Zenon, <1>6, ServerEndStep DEF ServerEnd
<1>7. CASE ServiceIn
  BY Zenon, <1>7, ServiceInStep DEF ServiceIn
<1>8. CASE UNCHANGED vars
  <2>1. /\ sent' = sent /\ got' = got /\ link' = link /\ fin' = fin /\ open' = open /\ buf' = buf
        /\ bridged' = bridged /\ started' = started /\ left' = left /\ died' = died
    BY Zenon, <1>8 DEF vars
  <2>2. BridgeTypes' /\ Stages'
    BY ZenonT(40), <2>1 DEF BridgeInv, Steady, BridgeTypes, Stages
  <2>3. Up' /\ Down'
    BY Zenon, <2>1 DEF BridgeInv, Steady, Up, Down, Chain, Ahead, UpRun, UpWhole, ToX, DownRun, DownWhole
  <2>4. Calm'
    BY Zenon, <2>1 DEF BridgeInv, Calm, Undisturbed, ToX
  <2> QED BY Zenon, <2>2, <2>3, <2>4 DEF BridgeInv, Steady
<1> QED BY Zenon, <1>1, <1>2, <1>3, <1>4, <1>5, <1>6, <1>7, <1>8 DEF Next

\* The invariant has the order of the bytes.
LEMMA InvInOrder == FramesKnown /\ BridgeInv => InOrder
<1> SUFFICES ASSUME FramesKnown, BridgeInv PROVE InOrder
  BY Zenon
<1>1. /\ got["X"] \in Bytes /\ link["X"] \in Bytes /\ got["V"] \in Bytes /\ link["V"] \in Bytes
      /\ Sends("V", sent["V"]) \in Bytes /\ Sends("X", sent["X"]) \in Bytes
  BY Zenon, Names, Typed DEF BridgeInv, Steady
<1>2. /\ Begins(Cat(got["X"], link["X"]), Sends("V", sent["V"]))
      /\ Begins(Cat(got["V"], link["V"]), Sends("X", sent["X"]))
  BY Zenon DEF BridgeInv, Steady, Up, Down, Chain
<1>3. Begins(got["X"], Sends("V", sent["V"])) /\ Begins(got["V"], Sends("X", sent["X"]))
  BY <1>1, <1>2, BeginsClosed, Zenon
<1>4. Sent("V") = Sends("V", sent["V"]) /\ Sent("X") = Sends("X", sent["X"])
  BY Zenon, SendsBytes, Names
<1>5. /\ \E n \in 0..Len(Sends("V", sent["V"])) : got["X"] = SubSeq(Sends("V", sent["V"]), 1, n)
      /\ \E n \in 0..Len(Sends("X", sent["X"])) : got["V"] = SubSeq(Sends("X", sent["X"]), 1, n)
  BY Zenon, <1>1, <1>3, BeginsPrefix
<1>6. Len(Sends("V", sent["V"])) = sent["V"] /\ Len(Sends("X", sent["X"])) = sent["X"]
  BY Names DEF BridgeInv, Steady, BridgeTypes, Sends, Ends
<1> QED BY ZenonT(40), <1>4, <1>5, <1>6 DEF InOrder

\* Six byte strings in a row.
Row(a, b, c, d, e, f) == a \o b \o c \o d \o e \o f

\* Joined from the left or in pairs they are the same.
LEMMA RowPairs ==
    ASSUME NEW a \in Bytes, NEW b \in Bytes, NEW c \in Bytes, NEW d \in Bytes, NEW e \in Bytes,
           NEW f \in Bytes
    PROVE  Row(a, b, c, d, e, f) = Cat(Cat(Cat(a, b), Cat(c, d)), Cat(e, f))
<1>1. Row(a, b, c, d, e, f) = Cat(Cat(Cat(Cat(Cat(a, b), c), d), e), f)
  BY Zenon DEF Cat, Row
<1> DEFINE g == Cat(a, b)
           h == Cat(Cat(g, c), d)
<1>2. g \in Bytes
  BY Zenon, CatLaws
<1> HIDE DEF g
<1>3. h \in Bytes /\ h = Cat(g, Cat(c, d))
  BY <1>2, CatLaws
<1> HIDE DEF h
<1>4. Cat(Cat(h, e), f) = Cat(h, Cat(e, f))
  BY <1>3, CatLaws
<1> QED BY ONLY Zenon, <1>1, <1>3, <1>4 DEF g, h

\* The invariant accounts for every byte.
LEMMA InvNothingLost == FramesKnown /\ BridgeInv => NothingLost
<1> SUFFICES ASSUME FramesKnown, BridgeInv, Undisturbed
             PROVE  /\ died = [p \in {"ncxs", "ncxc"} |-> "no"]
                    /\ got["X"] \o link["X"] \o buf.server \o link.server \o buf.visitor \o link.visitor
                         = (IF bridged /\ ~started THEN StartCmd ELSE <<>>) \o Sent("V")
                    /\ got["V"] \o link["V"] \o buf.origin \o link.origin \o buf.service \o link.service
                         = (IF bridged THEN <<>> ELSE do_data_channel_handshake) \o Sent("X")
  BY Zenon DEF NothingLost
<1> USE DEF BridgeInv, Steady
<1>1. died = [p \in {"ncxs", "ncxc"} |-> "no"]
  BY Zenon DEF Calm, BridgeTypes, Processes
<1>2. "V" \in open /\ "visitor" \in open /\ "origin" \in open /\ "server" \in open /\ ToX
  BY Zenon DEF Calm
<1>3. Sent("V") = Sends("V", sent["V"]) /\ Sent("X") = Sends("X", sent["X"])
  BY Zenon, SendsBytes, Names
<1>5. /\ got["X"] \in Bytes /\ link["X"] \in Bytes /\ buf["server"] \in Bytes
      /\ link["server"] \in Bytes /\ buf["visitor"] \in Bytes /\ link["visitor"] \in Bytes
      /\ got["V"] \in Bytes /\ link["V"] \in Bytes /\ buf["origin"] \in Bytes
      /\ link["origin"] \in Bytes /\ buf["service"] \in Bytes /\ link["service"] \in Bytes
      /\ Sends("X", sent["X"]) \in Bytes /\ NoBytes \in Bytes
  BY Zenon, Names, Typed
<1>6. Cat(Cat(Cat(got["X"], link["X"]), Cat(buf["server"], link["server"])),
          Cat(buf["visitor"], link["visitor"])) = Cat(Ahead, Sends("V", sent["V"]))
  <2>1. UpWhole
    BY Zenon, <1>2 DEF UpWhole
  <2> QED BY Zenon, <2>1 DEF Up, Chain
<1>7. got["X"] \o link["X"] \o buf.server \o link.server \o buf.visitor \o link.visitor
        = (IF bridged /\ ~started THEN StartCmd ELSE <<>>) \o Sent("V")
  <2>1. got["X"] \o link["X"] \o buf.server \o link.server \o buf.visitor \o link.visitor
          = Cat(Ahead, Sends("V", sent["V"]))
    <3>1. Row(got["X"], link["X"], buf["server"], link["server"], buf["visitor"], link["visitor"])
            = Cat(Ahead, Sends("V", sent["V"]))
      <4> DEFINE a == got["X"]
                 b == link["X"]
                 c == buf["server"]
                 d == link["server"]
                 e == buf["visitor"]
                 f == link["visitor"]
      <4>1. a \in Bytes /\ b \in Bytes /\ c \in Bytes /\ d \in Bytes /\ e \in Bytes /\ f \in Bytes
        BY <1>5, Zenon
      <4> HIDE DEF a, b, c, d, e, f
      <4>2. Row(a, b, c, d, e, f) = Cat(Cat(Cat(a, b), Cat(c, d)), Cat(e, f))
        BY ONLY <4>1, RowPairs
      <4> QED BY ONLY Zenon, <4>2, <1>6 DEF a, b, c, d, e, f
    <3> QED BY <3>1, Zenon DEF Row
  <2> QED BY <1>3, <2>1, Zenon DEF Cat, Ahead, NoBytes
<1>8. Cat(Cat(Cat(got["V"], link["V"]), Cat(buf["origin"], link["origin"])),
          Cat(buf["service"], link["service"]))
        = Cat(IF bridged THEN NoBytes ELSE do_data_channel_handshake, Sends("X", sent["X"]))
  <2>1. CASE started
    <3>1. DownWhole /\ bridged
      BY ZenonT(40), <1>2, <2>1 DEF DownWhole, DownRun, ToX, Stages
    <3> QED BY ZenonT(40), <3>1 DEF Down, Chain
  <2>2. CASE ~started
    <3>1. buf["service"] = NoBytes /\ link["service"] = NoBytes /\ sent["X"] = 0
      BY Zenon, <2>2 DEF Stages
    <3>2. Sends("X", sent["X"]) = NoBytes /\ Cat(NoBytes, NoBytes) = NoBytes
      BY ZenonT(40), <1>5, <3>1, SendsBytes, Names, CatLaws
    <3> DEFINE all == Cat(Cat(got["V"], link["V"]), Cat(buf["origin"], link["origin"]))
    <3>3. all \in Bytes /\ Cat(all, NoBytes) = all
      <4>1. Cat(got["V"], link["V"]) \in Bytes /\ Cat(buf["origin"], link["origin"]) \in Bytes
        BY Zenon, <1>5, CatLaws
      <4> QED BY ONLY Zenon, <4>1, CatLaws
    <3>4. CASE bridged
      <4>1. DownRun
        BY Zenon, <1>2, <3>4 DEF DownRun
      <4>2. Begins(all, NoBytes)
        BY Zenon, <3>2, <4>1 DEF Down, Chain
      <4>3. all = NoBytes
        <5> HIDE DEF all
        <5> QED BY Zenon, <3>3, <4>2, BeginsLaws
      <4> QED BY Zenon, <3>1, <3>2, <3>4, <4>3
    <3>5. CASE ~bridged
      <4>1. /\ got["V"] = NoBytes /\ link["V"] = NoBytes
            /\ Cat(buf["origin"], link["origin"]) = do_data_channel_handshake
        BY Zenon, <1>2, <3>5 DEF Stages
      <4>2. /\ Cat(NoBytes, do_data_channel_handshake) = do_data_channel_handshake
            /\ Cat(do_data_channel_handshake, NoBytes) = do_data_channel_handshake
        BY Zenon, CatLaws DEF FramesKnown
      <4> QED BY Zenon, <3>1, <3>2, <3>5, <4>1, <4>2
    <3> QED BY ZenonT(40), <3>4, <3>5
  <2> QED BY Zenon, <2>1, <2>2
<1>9. got["V"] \o link["V"] \o buf.origin \o link.origin \o buf.service \o link.service
        = (IF bridged THEN <<>> ELSE do_data_channel_handshake) \o Sent("X")
  <2>1. got["V"] \o link["V"] \o buf.origin \o link.origin \o buf.service \o link.service
          = Cat(IF bridged THEN NoBytes ELSE do_data_channel_handshake, Sends("X", sent["X"]))
    <3>1. Row(got["V"], link["V"], buf["origin"], link["origin"], buf["service"], link["service"])
            = Cat(IF bridged THEN NoBytes ELSE do_data_channel_handshake, Sends("X", sent["X"]))
      <4> DEFINE a == got["V"]
                 b == link["V"]
                 c == buf["origin"]
                 d == link["origin"]
                 e == buf["service"]
                 f == link["service"]
      <4>1. a \in Bytes /\ b \in Bytes /\ c \in Bytes /\ d \in Bytes /\ e \in Bytes /\ f \in Bytes
        BY <1>5, Zenon
      <4> HIDE DEF a, b, c, d, e, f
      <4>2. Row(a, b, c, d, e, f) = Cat(Cat(Cat(a, b), Cat(c, d)), Cat(e, f))
        BY ONLY <4>1, RowPairs
      <4> QED BY ONLY Zenon, <4>2, <1>8 DEF a, b, c, d, e, f
    <3> QED BY <3>1, Zenon DEF Row
  <2> QED BY <1>3, <2>1, Zenon DEF Cat, NoBytes
<1> QED BY Zenon, <1>1, <1>7, <1>9

=============================================================================
