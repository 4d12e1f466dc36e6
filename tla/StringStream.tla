---------------------------- MODULE StringStream ----------------------------
(***************************************************************************)
(* common::StringStream and VectorStream (common/MemoryStreams): a growing *)
(* buffer and a read position, in which messages are put together and from *)
(* which they are parsed; and the loops IInputStream::read and             *)
(* IOutputStream::write of common/Streams.cpp above them, which throw      *)
(* StreamError when the stream moves nothing.                              *)
(***************************************************************************)
EXTENDS Naturals, Sequences

CONSTANTS Byte,     \* the values of a byte
          MaxBytes  \* bound: the bytes a stream ever holds

VARIABLES buffer,       \* m_buffer
          in_position,  \* the bytes of it that were read
          error,        \* the last read threw StreamError
          io            \* what the last call moved, see Fifo

vars == <<buffer, in_position, error, io>>

Lesser(a, b) == IF a < b THEN a ELSE b

Unread == SubSeq(buffer, in_position + 1, Len(buffer))

Init == /\ buffer = <<>>
        /\ in_position = 0
        /\ error = FALSE
        /\ io = [op |-> "none", data |-> <<>>]

\* write_some takes everything, so IOutputStream::write is one round of it
write_some(data) ==
    /\ Len(buffer) + Len(data) <= MaxBytes
    /\ buffer' = buffer \o data
    /\ io' = [op |-> "write", data |-> data]
    /\ error' = FALSE
    /\ UNCHANGED in_position

\* the bytes of one read_some
Got(size) == SubSeq(buffer, in_position + 1,
                    in_position + Lesser(size, Len(buffer) - in_position))

read_some(size) ==
    /\ io' = [op |-> "read", data |-> Got(size)]
    /\ in_position' = in_position + Len(Got(size))
    /\ error' = FALSE
    /\ UNCHANGED buffer

\* IInputStream::read: what was there is consumed also when it throws
read(count) ==
    /\ error' = (Len(Got(count)) < count)
    /\ io' = [op |-> "read", data |-> Got(count)]
    /\ in_position' = in_position + Len(Got(count))
    /\ UNCHANGED buffer

\* copy_to(out, max_count): out takes `room' bytes in all, in any pieces, and
\* then nothing; TCPSocket::write_some is such a stream
copy_to(max_count, room) ==
    /\ io' = [op |-> "read", data |-> Got(Lesser(max_count, room))]
    /\ in_position' = in_position + Len(Got(Lesser(max_count, room)))
    /\ error' = FALSE
    /\ UNCHANGED buffer

clear ==
    /\ in_position' = 0
    /\ buffer' = <<>>
    /\ io' = [op |-> "clear", data |-> <<>>]
    /\ error' = FALSE

Next ==
    \/ \E n \in 0 .. MaxBytes : \E data \in [1 .. n -> Byte] : write_some(data)
    \/ \E size \in 0 .. MaxBytes : read_some(size) \/ read(size)
    \/ \E max_count, room \in 0 .. MaxBytes : copy_to(max_count, room)
    \/ clear

Spec == Init /\ [][Next]_vars

\* The condition every read_some asserts ("jump over the end of buffer").
InBuffer == in_position <= Len(buffer)

\* The stream hands its bytes over once each and in order, also after a read
\* that threw and after clear() of a stream in use.
AsFifo == INSTANCE Fifo WITH queue <- Unread
ImplementsFifo == AsFifo!FifoSpec
=============================================================================
