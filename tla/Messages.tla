------------------------------ MODULE Messages ------------------------------
(***************************************************************************)
(* Hello objects under any sequence of the calls their classes offer. A      *)
(* message reads as the value last put into it only while every function     *)
(* keeps bits, slots and pointer in step (HelloClass), and it crosses the    *)
(* connection unchanged only while ByteSizeLong, the serialiser and the      *)
(* parse table agree (Wire).                                                 *)
(***************************************************************************)
EXTENDS Wire

CONSTANT Objs       \* the Hello objects of the program

VARIABLE hello      \* per object: its _impl_

\* Type invariant: bits, slots and pointer of each object.
TypeOK == hello \in [Objs -> HelloObjects]

-----------------------------------------------------------------------------
(* The program's calls on its objects.                                     *)

NewObjects == hello = [o \in Objs |-> NewHello]

Becomes(o, h) == hello' = [hello EXCEPT ![o] = h]

CallOnHello(o) ==
    \/ \E v \in Hello_HelloType : Becomes(o, set_hello_type(hello[o], v))
    \/ Becomes(o, clear_hello_type(hello[o]))
    \/ \E v \in Strings :
        Becomes(o, set_digest(hello[o], v)) \/ Becomes(o, mutable_digest(hello[o], v))
    \/ Becomes(o, clear_digest(hello[o]))
    \/ Becomes(o, release_digest(hello[o]))
    \/ \E v \in Strings \cup {NULL} : Becomes(o, set_allocated_digest(hello[o], v))
    \/ Becomes(o, clear_content(hello[o]))
    \/ Becomes(o, release_content(hello[o]))
    \/ Becomes(o, Hello_Clear(hello[o]))

\* The object's content, after mutable_control_channel_hello_content(), becomes c.
ContentBecomes(o, c) == Becomes(o, mutable_content(hello[o], c))
content(o) == control_channel_hello_content(hello[o])

CallOnContent(o) ==
    \/ ContentBecomes(o, content(o))
    \/ \E v \in Strings :
        \/ ContentBecomes(o, set_service_name(content(o), v))
        \/ ContentBecomes(o, mutable_service_name(content(o), v))
    \/ ContentBecomes(o, clear_service_name(content(o)))
    \/ ContentBecomes(o, release_service_name(content(o)))
    \/ \E v \in Strings \cup {NULL} :
        ContentBecomes(o, set_allocated_service_name(content(o), v))
    \/ \E v \in Ports : ContentBecomes(o, set_proxy_port(content(o), v))
    \/ ContentBecomes(o, clear_proxy_port(content(o)))
    \/ ContentBecomes(o, Content_Clear(content(o)))

\* operator=(Hello&&) and Swap on objects without an arena come down to this.
InternalSwap(o, p) == hello' = [hello EXCEPT ![o] = hello[p], ![p] = hello[o]]

\* A new o is constructed from std::move(p): a fresh object, swapped.
MoveConstruct(o, p) == hello' = [hello EXCEPT ![o] = hello[p], ![p] = NewHello]

\* The content released from p is handed to o.
MoveContent(o, p) ==
    hello' = [hello EXCEPT ![o] = set_allocated_content(@, hello[p].content),
                           ![p] = release_content(@)]

SwapContents(o, p) ==
    hello' = [hello EXCEPT ![o] = mutable_content(@, content(p)),
                           ![p] = mutable_content(@, content(o))]

CallOnTwo(o, p) ==
    \/ Becomes(o, Hello_MergeImpl(hello[o], hello[p]))
    \/ Becomes(o, Hello_CopyFrom(hello[o], hello[p]))
    \/ Becomes(o, CopyOfHello(hello[p]))
    \/ InternalSwap(o, p)
    \/ MoveConstruct(o, p)
    \/ ContentBecomes(o, Content_MergeImpl(content(o), content(p)))
    \/ ContentBecomes(o, Content_CopyFrom(content(o), content(p)))
    \/ MoveContent(o, p)
    \/ SwapContents(o, p)

Call ==
    \E o \in Objs :
        \/ CallOnHello(o)
        \/ CallOnContent(o)
        \/ \E p \in Objs \ {o} : CallOnTwo(o, p)

Calls == NewObjects /\ [][Call]_hello

-----------------------------------------------------------------------------
(* Properties.                                                             *)

\* Of an absent field the slot holds the default.
ContentSound(c) ==
    /\ "service_name" \notin c.has => c.service_name = Empty
    /\ "proxy_port" \notin c.has => c.proxy_port = 0
HelloSound(h) ==
    /\ "digest" \notin h.has => h.digest = Empty
    /\ "hello_type" \notin h.has => h.hello_type = 0
    /\ "content" \in h.has => h.content # NULL /\ ContentSound(h.content)
    /\ "content" \notin h.has => control_channel_hello_content(h) = NewContent

\* After any calls, the getters of an absent field return its default, a present
\* content is allocated, and one left allocated by a clear is empty. The
\* programs read hello_type(), digest() and the content without asking has_*()
\* (NServer::handle_new_connection), and MergeImpl and mutable_* build on
\* whatever is left behind the pointer.
HasBitsSound == \A o \in Objs : HelloSound(hello[o])

\* The value an object stands for.
ContentValueOf(c) ==
    [service_name |-> IF "service_name" \in c.has THEN c.service_name ELSE None,
     proxy_port |-> IF "proxy_port" \in c.has THEN c.proxy_port ELSE None]
ValueOf(h) ==
    [hello_type |-> IF "hello_type" \in h.has THEN h.hello_type ELSE None,
     digest |-> IF "digest" \in h.has THEN h.digest ELSE None,
     content |-> IF "content" \in h.has THEN ContentValueOf(h.content) ELSE None]

Value == INSTANCE HelloValue WITH
    Types <- Hello_HelloType, msg <- [o \in Objs |-> ValueOf(hello[o])]

\* The objects behave as values with optional fields: what a call puts in is what
\* is there afterwards, and nothing cleared, merged away or swapped comes back
\* (every accessor of protocol.pb.h, Clear, MergeImpl, CopyFrom, InternalSwap).
ImplementsValue == Value!Spec

\* ByteSizeLong is the number of bytes _InternalSerialize writes, for the message
\* and for the content inside it: the library reserves that many, and the cached
\* size of the content is the length the receiver splits by.
SizeExact ==
    \A o \in Objs :
        /\ Hello_ByteSizeLong(hello[o]) = Len(SerializeAsString(hello[o]))
        /\ Content_ByteSizeLong(content(o)) = Len(Content_InternalSerialize(content(o)))

\* Parsing the bytes of two messages, one after the other, into an object leaves
\* it as copying the first into it and merging the second: the parse tables and
\* MergeImpl agree on what replaces and what merges, whatever was in the object.
\* A message alone crosses the wire unchanged.
ParseMerges ==
    \A to, o, p \in Objs :
        ParseFromString(hello[to], SerializeAsString(hello[o]) \o SerializeAsString(hello[p]))
            = Hello_MergeImpl(Hello_CopyFrom(hello[to], hello[o]), hello[p])

\* However a stream of frames is cut, canReadMsg answers for the first one exactly
\* when the whole of it is there, with the length of its message. Of a message
\* without a field not even a header is written.
FramesReadWhole ==
    \A o, p \in Objs :
        LET msg == SerializeAsString(hello[o])
            stream == headerInstaller(msg) \o headerInstaller(SerializeAsString(hello[p]))
        IN  hello[o].has # {} =>
                \A n \in 0..Len(stream) :
                    canReadMsg(SubSeq(stream, 1, n)) =
                        IF n < MSG_HEADER_LENGTH + Len(msg) THEN 0 ELSE Len(msg)

\* A reader of the stream that starts with the frame of bytes parses m and is left
\* with rest.
ReadsFirst(bytes, rest, Parse(_), m) ==
    LET stream == headerInstaller(bytes) \o rest
        n == canReadMsg(stream)
    IN  /\ Parse(SubSeq(stream, MSG_HEADER_LENGTH + 1, MSG_HEADER_LENGTH + n)) = m
        /\ SubSeq(stream, MSG_HEADER_LENGTH + n + 1, Len(stream)) = rest

\* The acknowledgements and commands cross the wire in front of any other frame,
\* the ones whose number is zero included (OK, CREATE_DATA_CHANNEL and
\* START_FORWARD_TCP; the frame of an empty message would be empty too), and
\* their sizes, parse and merge agree.
CommandsCross ==
    \A o \in Objs : \A v \in {0, 1} :
        LET rest == headerInstaller(SerializeAsString(hello[o]))
        IN  /\ ReadsFirst(Ack!InternalSerialize(Ack!set(v)), rest, Ack!Parse, Ack!set(v))
            /\ ReadsFirst(ControlChannelCmd!InternalSerialize(ControlChannelCmd!set(v)), rest,
                          ControlChannelCmd!Parse, ControlChannelCmd!set(v))
            /\ ReadsFirst(DataChannelCmd!InternalSerialize(DataChannelCmd!set(v)), rest,
                          DataChannelCmd!Parse, DataChannelCmd!set(v))
            /\ Ack!Agree /\ ControlChannelCmd!Agree /\ DataChannelCmd!Agree

=============================================================================
