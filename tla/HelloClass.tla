----------------------------- MODULE HelloClass -----------------------------
(***************************************************************************)
(* The generated message classes Hello and its nested                        *)
(* Control_Channel_Hello_Content (protocol.pb.h, protocol.pb.cc): one        *)
(* operator per generated function, on the object's _impl_.                  *)
(*                                                                           *)
(* An object has a bit per optional field and a slot for its value. The      *)
(* getters return the slot whatever the bit says, and the nested message is  *)
(* a pointer that stays allocated when the field is cleared. Fields unknown  *)
(* to the program, and arenas, are left out: both programs are built from    *)
(* one protocol.proto and allocate messages on the stack.                    *)
(***************************************************************************)
EXTENDS Naturals, Sequences

CONSTANTS
    Strings,    \* the strings in use, sequences of bytes
    Ports,      \* the port numbers in use
    NULL,       \* the null pointer
    None        \* an absent field, in the value a message stands for

Empty == <<>>

Hello_HelloType == {0, 1}      \* CONTROL_CHANNEL_HELLO, DATA_CHANNEL_HELLO

ContentObjects ==
    [has : SUBSET {"service_name", "proxy_port"}, service_name : Strings, proxy_port : Ports]
HelloObjects ==
    [has : SUBSET {"hello_type", "digest", "content"}, hello_type : Hello_HelloType,
     digest : Strings, content : ContentObjects \cup {NULL}]

\* Objects with any strings and numbers, as a parse may fill them.
ContentMessages ==
    [has : SUBSET {"service_name", "proxy_port"}, service_name : Seq(Nat), proxy_port : Nat]
HelloMessages ==
    [has : SUBSET {"hello_type", "digest", "content"}, hello_type : Nat,
     digest : Seq(Nat), content : ContentMessages \cup {NULL}]

\* The library refuses messages of 2^31 bytes; strings below 2^29 are far from that.
\* proxy_port is an int32, and the programs put ports of 16 bits into it.
MaxString == 536870912
MaxInt32 == 2147483647

ASSUME HelloAssumption ==
    /\ Empty \in Strings
    /\ \A s \in Strings : s \in Seq(Nat) /\ Len(s) < MaxString
    /\ 0 \in Ports
    /\ \A p \in Ports : p \in Nat /\ p <= MaxInt32
    /\ NULL \notin Strings /\ NULL \notin ContentObjects
    /\ None \notin Strings /\ None \notin Ports /\ None \notin Hello_HelloType
    /\ None \notin [service_name : Strings \cup {None}, proxy_port : Ports \cup {None}]

-----------------------------------------------------------------------------
(* Control_Channel_Hello_Content. mutable_service_name hands out a pointer;   *)
(* v is what the caller writes through it.                                 *)

NewContent == [has |-> {}, service_name |-> Empty, proxy_port |-> 0]

CopyOfContent(from) ==
    [has |-> from.has, service_name |-> from.service_name, proxy_port |-> from.proxy_port]

set_service_name(c, v) == [c EXCEPT !.has = @ \cup {"service_name"}, !.service_name = v]
mutable_service_name(c, v) == [c EXCEPT !.has = @ \cup {"service_name"}, !.service_name = v]
clear_service_name(c) == [c EXCEPT !.service_name = Empty, !.has = @ \ {"service_name"}]
release_service_name(c) ==
    IF "service_name" \notin c.has THEN c
    ELSE [c EXCEPT !.has = @ \ {"service_name"}, !.service_name = Empty]

set_allocated_service_name(c, v) ==
    IF v # NULL THEN [c EXCEPT !.has = @ \cup {"service_name"}, !.service_name = v]
    ELSE [c EXCEPT !.has = @ \ {"service_name"}, !.service_name = Empty]

set_proxy_port(c, v) == [c EXCEPT !.proxy_port = v, !.has = @ \cup {"proxy_port"}]
clear_proxy_port(c) == [c EXCEPT !.proxy_port = 0, !.has = @ \ {"proxy_port"}]

Content_Clear(c) ==
    [has |-> {}, proxy_port |-> 0,
     service_name |-> IF "service_name" \in c.has THEN Empty ELSE c.service_name]

Content_MergeImpl(to, from) ==
    [has |-> to.has \cup from.has,
     service_name |-> (IF "service_name" \in from.has THEN from ELSE to).service_name,
     proxy_port |-> (IF "proxy_port" \in from.has THEN from ELSE to).proxy_port]

Content_CopyFrom(to, from) == Content_MergeImpl(Content_Clear(to), from)

-----------------------------------------------------------------------------
(* Hello.                                                                  *)

NewHello == [has |-> {}, hello_type |-> 0, digest |-> Empty, content |-> NULL]

\* The copy constructor copies the content only under its bit.
CopyOfHello(from) ==
    [has |-> from.has, hello_type |-> from.hello_type, digest |-> from.digest,
     content |-> IF "content" \in from.has THEN CopyOfContent(from.content) ELSE NULL]

set_hello_type(h, v) == [h EXCEPT !.hello_type = v, !.has = @ \cup {"hello_type"}]
clear_hello_type(h) == [h EXCEPT !.hello_type = 0, !.has = @ \ {"hello_type"}]

set_digest(h, v) == [h EXCEPT !.has = @ \cup {"digest"}, !.digest = v]
mutable_digest(h, v) == [h EXCEPT !.has = @ \cup {"digest"}, !.digest = v]
clear_digest(h) == [h EXCEPT !.digest = Empty, !.has = @ \ {"digest"}]
release_digest(h) ==
    IF "digest" \notin h.has THEN h
    ELSE [h EXCEPT !.has = @ \ {"digest"}, !.digest = Empty]
set_allocated_digest(h, v) ==
    IF v # NULL THEN [h EXCEPT !.has = @ \cup {"digest"}, !.digest = v]
    ELSE [h EXCEPT !.has = @ \ {"digest"}, !.digest = Empty]

\* What the getter of the content shows, allocated or not.
control_channel_hello_content(h) == IF h.content # NULL THEN h.content ELSE NewContent

\* The content is allocated if need be; c is what the caller leaves in it.
mutable_content(h, c) == [h EXCEPT !.has = @ \cup {"content"}, !.content = c]

\* A clear that only drops the bit.
ClearBitOnly(h) == [h EXCEPT !.has = @ \ {"content"}]

clear_content(h) ==
    [h EXCEPT !.content = IF @ # NULL THEN Content_Clear(@) ELSE @, !.has = @ \ {"content"}]
release_content(h) == [h EXCEPT !.has = @ \ {"content"}, !.content = NULL]
set_allocated_content(h, c) ==
    [h EXCEPT !.has = IF c # NULL THEN @ \cup {"content"} ELSE @ \ {"content"}, !.content = c]

Hello_Clear(h) ==
    [has |-> {}, hello_type |-> 0,
     digest |-> IF "digest" \in h.has THEN Empty ELSE h.digest,
     content |-> IF "content" \in h.has THEN Content_Clear(h.content) ELSE h.content]

\* A merge that replaces the content instead of merging into it.
MergeReplacesContent(to, from) ==
    [has |-> to.has \cup from.has,
     hello_type |-> (IF "hello_type" \in from.has THEN from ELSE to).hello_type,
     digest |-> (IF "digest" \in from.has THEN from ELSE to).digest,
     content |-> IF "content" \in from.has THEN CopyOfContent(from.content) ELSE to.content]

Hello_MergeImpl(to, from) ==
    [has |-> to.has \cup from.has,
     hello_type |-> (IF "hello_type" \in from.has THEN from ELSE to).hello_type,
     digest |-> (IF "digest" \in from.has THEN from ELSE to).digest,
     content |-> IF "content" \notin from.has THEN to.content
                 ELSE IF to.content = NULL THEN CopyOfContent(from.content)
                 ELSE Content_MergeImpl(to.content, from.content)]

Hello_CopyFrom(to, from) == Hello_MergeImpl(Hello_Clear(to), from)

=============================================================================
