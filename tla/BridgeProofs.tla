---------------------------- MODULE BridgeProofs ----------------------------
(***************************************************************************)
(* The bytes of either end of the bridge arrive in order and none is lost.   *)
(* The hello of the data channel and the start command are frames that the   *)
(* wire makes understood, and then every step keeps the bridge's invariant.  *)
(***************************************************************************)
EXTENDS BridgeSteps, WireProofs

\* Bytes that end with t and start with a frame: once canReadMsg finds a message in what is in
\* front of t, that is the frame's, and the bytes left behind it are the rest in front of t;
\* before, nothing is taken.
LEMMA FramePrefix ==
    ASSUME NEW msg, Sendable(msg), NEW rest \in Bytes, NEW s \in Bytes, NEW t \in Bytes,
           Cat(s, t) = Cat(headerInstaller(msg), rest)
    PROVE  /\ LeftOnZero(s) = s
           /\ canReadMsg(s) > 0 =>
                /\ AfterMessage(s, canReadMsg(s)) \in Bytes
                /\ Cat(AfterMessage(s, canReadMsg(s)), t) = rest
<1> DEFINE F == headerInstaller(msg)
           S == F \o rest
           n == Len(msg)
<1>1. n \in Nat /\ F \in Seq(Nat) /\ Len(F) = 5 + n /\ MSG_HEADER_LENGTH = 5
  BY FrameBytes, LenProperties DEF Sendable, MSG_HEADER_LENGTH
<1>2. /\ s \in Seq(Nat) /\ t \in Seq(Nat) /\ rest \in Seq(Nat) /\ s \o t = F \o rest
      /\ Len(s) \in Nat
  BY LenProperties, Zenon DEF Bytes, Cat
<1>3. /\ canReadMsg(SubSeq(S, 1, Len(s))) = IF Len(s) < 5 + n THEN 0 ELSE n
      /\ LeftOnZero(SubSeq(S, 1, Len(s))) = SubSeq(S, 1, Len(s))
  <2>1. Len(s) <= Len(S)
    <3>1. Len(s \o t) = Len(s) + Len(t) /\ Len(t) \in Nat /\ Len(s) \in Nat
      BY <1>2, JoinedBytes
    <3> QED BY <1>2, <3>1
  <2> QED BY <1>1, <1>2, <2>1, FrameRead
<1>4. SubSeq(S, 1, Len(s)) = s
  BY <1>2, TakeSkip
<1>0. LeftOnZero(s) = s
  BY <1>3, <1>4, Zenon
<1> SUFFICES ASSUME canReadMsg(s) > 0
             PROVE  /\ AfterMessage(s, canReadMsg(s)) \in Bytes
                    /\ Cat(AfterMessage(s, canReadMsg(s)), t) = rest
  BY <1>0, Zenon
<1>5. Len(s) >= 5 + n /\ canReadMsg(s) = n
  <2> DEFINE v == canReadMsg(s)
             l == Len(s)
  <2> HIDE DEF S, n
  <2>1. v = IF l < 5 + n THEN 0 ELSE n
    BY <1>3, <1>4, Zenon
  <2>2. v > 0 /\ l \in Nat /\ n \in Nat
    BY <1>1, <1>2
  <2> HIDE DEF v, l
  <2>3. l >= 5 + n /\ v = n
    BY <2>1, <2>2
  <2> QED BY <2>3 DEF v, l
<1> DEFINE f == SubSeq(s, 1, 5 + n)
           a == SubSeq(s, (5 + n) + 1, Len(s))
<1>6. f \in Bytes /\ a \in Bytes /\ s = Cat(f, a) /\ Len(f) = 5 + n
  BY <1>1, <1>2, <1>5, CutBytes
<1> HIDE DEF f, a, F, n
<1>7. Cat(f, Cat(a, t)) = Cat(F, rest)
  BY <1>6, CatLaws DEF F
<1>8. Skip(Cat(f, Cat(a, t)), 5 + n) = Cat(a, t)
  <2>1. Cat(a, t) \in Bytes
    BY <1>6, CatLaws
  <2>2. Skip(f \o Cat(a, t), Len(f)) = Cat(a, t)
    BY <1>6, <2>1, TakeSkip, Zenon DEF Bytes
  <2> QED BY <1>6, <2>2, Zenon DEF Cat
<1>9. Skip(Cat(F, rest), 5 + n) = rest
  BY <1>1, <1>2, TakeSkip DEF Cat
<1>10. AfterMessage(s, canReadMsg(s)) = a
  BY <1>1, <1>5 DEF AfterMessage, a
<1> QED BY <1>6, <1>7, <1>8, <1>9, <1>10

\* The hello of the data channel and the start command are frames.
HelloMsg == SerializeAsString(set_digest(set_hello_type(NewHello, 1), Nonce))
StartMsg == DataChannelCmd!InternalSerialize(DataChannelCmd!set(0))
\* Both fit into a frame.
LEMMA Frames ==
    /\ Sendable(HelloMsg) /\ do_data_channel_handshake = headerInstaller(HelloMsg)
    /\ Sendable(StartMsg) /\ StartCmd = headerInstaller(StartMsg)
    /\ do_data_channel_handshake \in Bytes /\ StartCmd \in Bytes
<1> DEFINE h == set_digest(set_hello_type(NewHello, 1), Nonce)
           n == Hello_ByteSizeLong(h)
<1>1. /\ h \in HelloObjects
      /\ h.has = {"hello_type", "digest"} /\ h.hello_type = 1 /\ h.digest = Nonce /\ h.content = NULL
  <2> DEFINE g == set_hello_type(NewHello, 1)
  <2>1. g.has = {"hello_type"} /\ g.hello_type = 1 /\ g.content = NULL
    BY DEF set_hello_type, NewHello
  <2>2. g \in HelloObjects
    BY HelloAssumption DEF set_hello_type, NewHello, HelloObjects, Hello_HelloType
  <2> HIDE DEF g
  <2>3. set_digest(g, Nonce) \in HelloObjects
    BY <2>2, BridgeAssumption DEF set_digest, HelloObjects
  <2>4. LET d == set_digest(g, Nonce)
        IN  /\ d.has = {"hello_type", "digest"} /\ d.hello_type = 1 /\ d.digest = Nonce
            /\ d.content = NULL
    BY <2>1, <2>2 DEF set_digest, HelloObjects
  <2> QED BY <2>3, <2>4 DEF g
<1> HIDE DEF h
<1>2. h \in HelloObjects /\ h.has # {} /\ h.content = NULL /\ "content" \notin h.has
  BY <1>1
<1>3. ContentThere(h)
  <2>1. h.digest \in Seq(Nat) /\ h.hello_type \in Nat
    BY <1>1, BridgeAssumption, HelloAssumption
  <2>2. h \in HelloMessages
    BY <1>1, <1>2, <2>1 DEF HelloObjects, HelloMessages
  <2> QED BY <1>2, <2>2 DEF ContentThere
<1>4. Sendable(SerializeAsString(h))
  <2>1. SerializeAsString(h) \in Seq(Nat) /\ n \in Nat /\ Len(SerializeAsString(h)) = n
    BY <1>3, HelloSize
  <2>2. n <= MaxInt32 /\ n >= 1
    BY <1>2, HelloBound
  <2> HIDE DEF n
  <2> QED BY <2>1, <2>2 DEF Sendable
<1>5. Sendable(HelloMsg) /\ do_data_channel_handshake = headerInstaller(HelloMsg)
  BY <1>4, Zenon DEF h, HelloMsg, do_data_channel_handshake
<1>6. StartMsg = <<8, 0>> /\ StartCmd = headerInstaller(StartMsg)
  BY DEF StartMsg, StartCmd, DataChannelCmd!InternalSerialize, DataChannelCmd!set
<1>7. Sendable(StartMsg)
  BY <1>6, EnumBytes
<1> QED BY <1>5, <1>6, <1>7, FrameBytes, Zenon DEF Bytes

\* The wire makes the hello and the start command understood, wherever the bytes are cut.
LEMMA FramesUnderstood == FramesKnown
<1>1. ASSUME NEW msg, Sendable(msg) PROVE Understood(headerInstaller(msg))
  <2> SUFFICES ASSUME NEW rest \in Bytes, NEW s \in Bytes, NEW t \in Bytes,
                      Cat(s, t) = Cat(headerInstaller(msg), rest)
               PROVE  /\ LeftOnZero(s) = s
                      /\ canReadMsg(s) > 0 =>
                           /\ AfterMessage(s, canReadMsg(s)) \in Bytes
                           /\ Cat(AfterMessage(s, canReadMsg(s)), t) = rest
    BY Zenon DEF Understood
  <2> QED BY <1>1, FramePrefix
<1> QED BY <1>1, Frames, Zenon DEF FramesKnown

\* For any number of bytes, any digest and any strings, whoever closes, dies or is killed and
\* wherever reads cut the streams: each end reads a beginning of what the other has sent, and
\* no byte of a command.
THEOREM BytesInOrder == Spec => []InOrder
  BY FramesUnderstood, InitInv, BridgeStep, InvInOrder, PTL DEF Spec

\* While neither end has left and nobody stops a process, both processes live and every byte
\* is at one place between its sender and its reader, behind the start command if that is
\* still to be read (handle_data_channel_hello, do_data_channel_transforward).
THEOREM BytesKept == Spec => []NothingLost
  BY FramesUnderstood, InitInv, BridgeStep, InvNothingLost, PTL DEF Spec

=============================================================================
