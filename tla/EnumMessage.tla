----------------------------- MODULE EnumMessage -----------------------------
(***************************************************************************)
(* The shape shared by the generated classes Ack, ControlChannelCmd and      *)
(* DataChannelCmd (protocol.pb.cc, protocol.pb.h): one optional enum, field  *)
(* 1, with a bit. The enum is open: a parsed number is stored unchecked.     *)
(***************************************************************************)
EXTENDS Naturals, Sequences

CONSTANT Values     \* the numbers of the enum

New == [has |-> FALSE, value |-> 0]
set(v) == [has |-> TRUE, value |-> v]
Clear(m) == New
MergeImpl(to, from) ==
    [has |-> to.has \/ from.has, value |-> IF from.has THEN from.value ELSE to.value]
CopyFrom(to, from) == MergeImpl(Clear(to), from)

\* A serialiser that leaves out zero, as for a field without a bit.
SerializeNonZero(m) == IF m.value # 0 THEN <<8, m.value>> ELSE <<>>

\* Tag 8 is field 1 as a varint, and a value below 128 is one byte.
InternalSerialize(m) == IF m.has THEN <<8, m.value>> ELSE <<>>
ByteSizeLong(m) == IF m.has THEN 1 + 1 ELSE 0

\* Of several records of the field the last one stays.
Parse(bytes) == IF bytes = <<>> THEN New ELSE set(bytes[Len(bytes)])

\* The size is that of the bytes, and the bytes of two messages parse to the second
\* merged into the first.
Agree ==
    \A m, n \in {New} \cup {set(v) : v \in Values} :
        /\ ByteSizeLong(m) = Len(InternalSerialize(m))
        /\ Parse(InternalSerialize(m) \o InternalSerialize(n)) = MergeImpl(m, n)
        /\ CopyFrom(m, n) = n

=============================================================================
