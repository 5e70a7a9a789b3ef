-------------------------------- MODULE Wire --------------------------------
(***************************************************************************)
(* The messages as bytes: _InternalSerialize, ByteSizeLong and the parse     *)
(* tables of the generated classes, and the frame PROTOMSGUTIL puts a        *)
(* message in. The encodings the generated code calls (varints, fixed32,     *)
(* length-delimited records) and the parse loop are protobuf's own. Whether a *)
(* parse succeeded is left out: the programs parse what a serialiser wrote.  *)
(***************************************************************************)
EXTENDS HelloClass

\* OK and AUTH_ERROR; CREATE_DATA_CHANNEL and HEARTBEAT; START_FORWARD_TCP and
\* START_FORWARD_UDP.
Ack_AckContent == {0, 1}
ControlChannelCmd_CCmd == {0, 1}
DataChannelCmd_DCmd == {0, 1}

Ack == INSTANCE EnumMessage WITH Values <- Ack_AckContent
ControlChannelCmd == INSTANCE EnumMessage WITH Values <- ControlChannelCmd_CCmd
DataChannelCmd == INSTANCE EnumMessage WITH Values <- DataChannelCmd_DCmd

-----------------------------------------------------------------------------
(* Encodings of the protobuf library.                                      *)

VarintBytes[n \in Nat] ==
    IF n < 128 THEN <<n>> ELSE <<128 + (n % 128)>> \o VarintBytes[n \div 128]
VarintSize[n \in Nat] == IF n < 128 THEN 1 ELSE 1 + VarintSize[n \div 128]

\* The varint that bytes begin with: its number, and the bytes it takes.
Varint[bytes \in Seq(Nat)] ==
    IF bytes = <<>> THEN [number |-> 0, length |-> 0]
    ELSE IF Head(bytes) < 128 THEN [number |-> Head(bytes), length |-> 1]
    ELSE LET more == Varint[Tail(bytes)]
         IN  [number |-> (Head(bytes) % 128) + 128 * more.number, length |-> 1 + more.length]

Fixed32(n) == <<n % 256, (n \div 256) % 256, (n \div 65536) % 256, (n \div 16777216) % 256>>
Fixed32Number(b) == b[1] + 256 * b[2] + 65536 * b[3] + 16777216 * b[4]

Delimited(field, bytes) == VarintBytes[8 * field + 2] \o VarintBytes[Len(bytes)] \o bytes
Number(field, n) == VarintBytes[8 * field] \o VarintBytes[n]
StringSize(s) == VarintSize[Len(s)] + Len(s)

\* The first record of a message: tag, number or bytes, and what follows. One that is
\* cut short ends the parse.
Skip(bytes, n) == SubSeq(bytes, n + 1, Len(bytes))
FirstRecord(bytes) ==
    LET tag == Varint[bytes]
        body == Skip(bytes, tag.length)
        n == Varint[body]
        after == Skip(body, n.length)
    IN  IF tag.number % 8 = 0 THEN [tag |-> tag.number, value |-> n.number, rest |-> after]
        ELSE IF n.number > Len(after) THEN [tag |-> 0, value |-> 0, rest |-> <<>>]
        ELSE [tag |-> tag.number, value |-> SubSeq(after, 1, n.number),
              rest |-> Skip(after, n.number)]

-----------------------------------------------------------------------------
(* The generated serialisers, sizes and parse tables.                      *)

Where(present, bytes) == IF present THEN bytes ELSE <<>>
Count(present, n) == IF present THEN n ELSE 0

Content_InternalSerialize(c) ==
    Where("service_name" \in c.has, Delimited(1, c.service_name))
        \o Where("proxy_port" \in c.has, Number(2, c.proxy_port))

\* A size that takes the port for one byte.
SizeOneBytePort(c) ==
    Count("service_name" \in c.has, 1 + StringSize(c.service_name))
        + Count("proxy_port" \in c.has, 2)

Content_ByteSizeLong(c) ==
    Count("service_name" \in c.has, 1 + StringSize(c.service_name))
        + Count("proxy_port" \in c.has, 1 + VarintSize[c.proxy_port])

Content_table(c, record) ==
    IF record.tag = 10 THEN set_service_name(c, record.value)
    ELSE IF record.tag = 16 THEN set_proxy_port(c, record.value)
    ELSE c

\* The parse loop: what bytes make of the object c there is, one record at a time.
Content_Parse[bytes \in Seq(Nat)] ==
    [c \in ContentMessages |->
        IF bytes = <<>> THEN c
        ELSE LET record == FirstRecord(bytes)
             IN  Content_Parse[record.rest][Content_table(c, record)]]

\* The length in front of the content is the one its last ByteSizeLong cached.
Hello_InternalSerialize(h, cached_size) ==
    Where("hello_type" \in h.has, Number(1, h.hello_type))
        \o Where("digest" \in h.has, Delimited(2, h.digest))
        \o Where("content" \in h.has, VarintBytes[26] \o VarintBytes[cached_size]
                                          \o Content_InternalSerialize(h.content))

Hello_ByteSizeLong(h) ==
    Count("digest" \in h.has, 1 + StringSize(h.digest))
        + Count("content" \in h.has,
                LET n == Content_ByteSizeLong(h.content) IN 1 + VarintSize[n] + n)
        + Count("hello_type" \in h.has, 1 + VarintSize[h.hello_type])

\* A table that stores a second content record over the first.
TableReplacesContent(h, record) ==
    IF record.tag = 8 THEN set_hello_type(h, record.value)
    ELSE IF record.tag = 18 THEN set_digest(h, record.value)
    ELSE IF record.tag = 26
    THEN mutable_content(h, Content_Parse[record.value][NewContent])
    ELSE h

\* A content record is parsed into the content there is.
Hello_table(h, record) ==
    IF record.tag = 8 THEN set_hello_type(h, record.value)
    ELSE IF record.tag = 18 THEN set_digest(h, record.value)
    ELSE IF record.tag = 26
    THEN mutable_content(h, Content_Parse[record.value][control_channel_hello_content(h)])
    ELSE h

Hello_Parse[bytes \in Seq(Nat)] ==
    [h \in HelloMessages |->
        IF bytes = <<>> THEN h
        ELSE LET record == FirstRecord(bytes)
             IN  Hello_Parse[record.rest][Hello_table(h, record)]]

\* MessageLite: the sizes are computed, and cached, before the bytes are written;
\* a parse clears the object first.
SerializeAsString(h) ==
    Hello_InternalSerialize(h, Content_ByteSizeLong(control_channel_hello_content(h)))
ParseFromString(h, bytes) == Hello_Parse[bytes][Hello_Clear(h)]

-----------------------------------------------------------------------------
(* MessageHeader has no bits: a length of zero is not written.             *)

Header_InternalSerialize(message_length) ==
    Where(message_length # 0, <<13>> \o Fixed32(message_length))
Header_ByteSizeLong(message_length) == Count(message_length # 0, 5)
Header_table(bytes) == IF bytes[1] = 13 THEN Fixed32Number(Tail(bytes)) ELSE 0

MSG_HEADER_LENGTH == 5

headerInstaller(msg) == Header_InternalSerialize(Len(msg)) \o msg

\* A check that asks for the message without its header.
CanReadEarly(input) ==
    IF Len(input) < MSG_HEADER_LENGTH THEN 0
    ELSE LET n == Header_table(SubSeq(input, 1, MSG_HEADER_LENGTH))
         IN  IF Len(input) < n THEN 0 ELSE n

\* The length of the message at the head of input, 0 when it is not all there.
\* On any other answer the header is gone from the buffer.
canReadMsg(input) ==
    IF Len(input) < MSG_HEADER_LENGTH THEN 0
    ELSE LET n == Header_table(SubSeq(input, 1, MSG_HEADER_LENGTH))
         IN  IF Len(input) < n + MSG_HEADER_LENGTH THEN 0 ELSE n

\* The buffer after the answer 0: a header that gives the length 0 is taken too. No
\* serialiser writes one.
LeftOnZero(input) ==
    IF /\ Len(input) >= MSG_HEADER_LENGTH
       /\ Header_table(SubSeq(input, 1, MSG_HEADER_LENGTH)) = 0
    THEN Skip(input, MSG_HEADER_LENGTH) ELSE input

=============================================================================
