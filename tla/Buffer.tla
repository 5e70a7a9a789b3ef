------------------------------- MODULE Buffer -------------------------------
(***************************************************************************)
(* The byte buffer of network/buffer.cpp: a vector with a read and a write   *)
(* index and a reserved prefix. Appending compacts the vector when the space *)
(* in front of the readable bytes helps and grows it otherwise.              *)
(***************************************************************************)
EXTENDS Naturals, Sequences

CONSTANTS
    kPrePendIndex,  \* reserved prefix
    kInitSize,      \* initial size of the vector
    Char,           \* the values of a char
    Zero,           \* the byte a vector is filled with when it grows
    Chunks,         \* bound: the strings the users append
    MaxChunk,       \* bound: their greatest length
    MaxReadable     \* bound: the readable bytes the users let pile up

ASSUME BufferAssumption ==
    /\ kPrePendIndex \in Nat
    /\ kInitSize \in Nat
    /\ kPrePendIndex <= kInitSize
    /\ Zero \in Char
    /\ MaxChunk \in Nat
    /\ MaxReadable \in Nat
    /\ \A s \in Chunks : s \in Seq(Char) /\ Len(s) <= MaxChunk

VARIABLES
    size,           \* buffer_.size()
    buffer_,        \* the vector's elements, indexed from 0
    read_index_,
    write_index_,
    out             \* the string the last Retrieve...AsString returned

bufferVars == <<size, buffer_, read_index_, write_index_, out>>

\* Type invariant of the buffer's members.
BufferTypeOK ==
    /\ size \in Nat
    /\ buffer_ \in [0..(size - 1) -> Char]
    /\ read_index_ \in Nat
    /\ write_index_ \in Nat
    /\ out \in Seq(Char)

BufferInit ==
    /\ size = kInitSize
    /\ buffer_ = [i \in 0..(kInitSize - 1) |-> Zero]
    /\ read_index_ = kPrePendIndex
    /\ write_index_ = kPrePendIndex
    /\ out = <<>>

readAbleBytes == write_index_ - read_index_

writeAbleBytes == size - write_index_

prependAbleBytes == read_index_

PeekAsString(len) == [i \in 1..len |-> buffer_[read_index_ + i - 1]]

PeekAllAsString == PeekAsString(readAbleBytes)

-----------------------------------------------------------------------------

\* The members after the readable bytes have been moved to the front.
Compacted ==
    [size |-> size,
     buffer |-> [i \in 0..(size - 1) |->
                    IF kPrePendIndex <= i /\ i < kPrePendIndex + readAbleBytes
                    THEN buffer_[read_index_ + (i - kPrePendIndex)]
                    ELSE buffer_[i]],
     read |-> kPrePendIndex,
     write |-> kPrePendIndex + readAbleBytes]

\* The members after buffer_.resize(n), n >= size.
Resized(n) ==
    [size |-> n,
     buffer |-> [i \in 0..(n - 1) |-> IF i < size THEN buffer_[i] ELSE Zero],
     read |-> read_index_,
     write |-> write_index_]

Same ==
    [size |-> size, buffer |-> buffer_, read |-> read_index_,
     write |-> write_index_]

\* Compacting whenever the free space, reserved prefix included, would do.
CompactIntoPrefix(len) ==
    IF writeAbleBytes >= len THEN Same
    ELSE IF writeAbleBytes + prependAbleBytes >= len THEN Compacted
    ELSE Resized(write_index_ + len)

\* Growing without ever compacting.
GrowOnly(len) ==
    IF writeAbleBytes >= len THEN Same ELSE Resized(write_index_ + len)

\* EnsureWriteableBytes(len): the members it leaves.
EnsureWriteableBytes(len) ==
    IF writeAbleBytes >= len THEN Same
    ELSE IF writeAbleBytes + prependAbleBytes >= kPrePendIndex + len
    THEN Compacted
    ELSE Resized(write_index_ + len)

\* The three overloads of Append end here.
Append_(s) ==
    LET b == EnsureWriteableBytes(Len(s))
    IN  /\ readAbleBytes + Len(s) <= MaxReadable
        /\ size' = b.size
        /\ buffer_' = [i \in 0..(b.size - 1) |->
                          IF b.write <= i /\ i < b.write + Len(s)
                          THEN s[i - b.write + 1] ELSE b.buffer[i]]
        /\ read_index_' = b.read
        /\ write_index_' = b.write + Len(s)
        /\ UNCHANGED out

\* EnsureWriteableBytes is public too.
Reserve(len) ==
    LET b == EnsureWriteableBytes(len)
    IN  /\ readAbleBytes + len <= MaxReadable
        /\ size' = b.size
        /\ buffer_' = b.buffer
        /\ read_index_' = b.read
        /\ write_index_' = b.write
        /\ UNCHANGED out

RetrieveAll ==
    /\ write_index_' = kPrePendIndex
    /\ read_index_' = kPrePendIndex

\* Resetting the write index only.
ForgetReadIndex(len) ==
    /\ readAbleBytes >= len
    /\ \/ /\ len + read_index_ < write_index_
          /\ read_index_' = read_index_ + len
          /\ UNCHANGED write_index_
       \/ /\ ~(len + read_index_ < write_index_)
          /\ write_index_' = kPrePendIndex
          /\ UNCHANGED read_index_

\* Retrieve(len): the assert is a precondition, a short buffer aborts.
RetrieveIndexes(len) ==
    /\ readAbleBytes >= len
    /\ \/ /\ len + read_index_ < write_index_
          /\ read_index_' = read_index_ + len
          /\ UNCHANGED write_index_
       \/ /\ ~(len + read_index_ < write_index_)
          /\ RetrieveAll

Retrieve(len) ==
    /\ RetrieveIndexes(len)
    /\ UNCHANGED <<size, buffer_, out>>

\* Reading the string after the indexes have moved: off by the length.
RetrieveThenPeek(len) ==
    /\ RetrieveIndexes(len)
    /\ out' = [i \in 1..len |-> buffer_[(read_index_' + i - 1) % size]]
    /\ UNCHANGED <<size, buffer_>>

RetrieveAsString(len) ==
    /\ RetrieveIndexes(len)
    /\ out' = PeekAsString(len)
    /\ UNCHANGED <<size, buffer_>>

RetrieveAllAsString ==
    /\ out' = PeekAllAsString
    /\ RetrieveAll
    /\ UNCHANGED <<size, buffer_>>

\* RetrieveUntil(beginRead() + len): unlike Retrieve it never resets.
RetrieveUntil(len) ==
    /\ readAbleBytes >= len
    /\ read_index_' = read_index_ + len
    /\ UNCHANGED <<size, buffer_, write_index_, out>>

RetrieveUtilAsString(len) ==
    /\ readAbleBytes >= len
    /\ read_index_' = read_index_ + len
    /\ out' = PeekAsString(len)
    /\ UNCHANGED <<size, buffer_, write_index_>>

BufferNext ==
    \/ \E s \in Chunks : Append_(s)
    \/ \E len \in 0..MaxChunk : Reserve(len)
    \/ \E len \in 0..readAbleBytes :
          \/ Retrieve(len) \/ RetrieveAsString(len)
          \/ RetrieveUntil(len) \/ RetrieveUtilAsString(len)
    \/ RetrieveAll /\ UNCHANGED <<size, buffer_, out>>
    \/ RetrieveAllAsString

BufferSpec == BufferInit /\ [][BufferNext]_bufferVars

-----------------------------------------------------------------------------

\* The indexes stay ordered inside the vector, so that no copy of Append,
\* Peek... or EnsureWriteableBytes leaves it.
IndexInvariant ==
    /\ kPrePendIndex <= read_index_
    /\ read_index_ <= write_index_
    /\ write_index_ <= size

\* A buffer whose users keep at most MaxReadable bytes in it never holds a
\* vector longer than the prefix, those bytes and one chunk: compaction in
\* EnsureWriteableBytes keeps a long-lived connection from growing for ever.
MemoryBound ==
    size <= kInitSize \/ size < kPrePendIndex + MaxReadable + MaxChunk

Queue == INSTANCE ByteQueue WITH q <- PeekAllAsString, Byte <- Char

\* The buffer is a byte queue: whatever compaction, growth and resets happen,
\* bytes come out once, in order and unchanged.
ImplementsQueue == Queue!Spec
=============================================================================
