--------------------------- MODULE CircularBuffer ---------------------------
(***************************************************************************)
(* common::CircularBuffer (common/MemoryStreams), the buffer between every *)
(* socket and the protocol above it.  write_pos runs ahead of read_pos and *)
(* passes the end of the array; only did_read brings both back.  The       *)
(* loops copy_from and copy_to are one action per round, because each      *)
(* round calls a stream that takes or gives as much as it likes.           *)
(***************************************************************************)
EXTENDS Naturals, Sequences

CONSTANTS Byte,     \* the values of a byte
          Size,     \* the argument of the constructor
          MaxCount  \* bound: the largest count a caller passes

ASSUME SizeAssumption == Size \in Nat \ {0} /\ MaxCount \in Nat /\ Byte # {}

VARIABLES impl,       \* the array
          read_pos, write_pos,
          copy,       \* the loop that is running, see Loop
          io          \* what the last call moved, see Fifo

vars == <<impl, read_pos, write_pos, copy, io>>

Index == 0 .. Size - 1
Lesser(a, b) == IF a < b THEN a ELSE b

(***************************************************************************)
(* Positions and counts                                                    *)
(***************************************************************************)
Wrapped == write_pos >= Size

read_count == IF ~Wrapped THEN write_pos - read_pos ELSE Size - read_pos
read_count2 == IF ~Wrapped THEN 0 ELSE write_pos - Size
write_count == IF ~Wrapped THEN Size - write_pos ELSE read_pos - (write_pos - Size)
write_count2 == IF ~Wrapped THEN read_pos ELSE 0
write_ptr == IF ~Wrapped THEN write_pos ELSE write_pos - Size

size == read_count + read_count2
capacity == write_count + write_count2

\* the bytes [read_ptr, read_ptr + n)
Peek(n) == [i \in 1 .. n |-> impl[read_pos + i - 1]]

\* memcpy(write_ptr(), data, n)
Stored(data) ==
    [i \in Index |-> IF i >= write_ptr /\ i < write_ptr + Len(data)
                     THEN data[i - write_ptr + 1] ELSE impl[i]]

did_write(count) ==
    /\ write_pos' = write_pos + count
    /\ UNCHANGED read_pos

\* (A faulty variant moves the positions back one byte too late.)
did_read_late(count) ==
    LET moved == read_pos + count IN
    IF moved > Size
    THEN read_pos' = moved - Size /\ write_pos' = write_pos - Size
    ELSE read_pos' = moved /\ UNCHANGED write_pos

did_read(count) ==
    LET moved == read_pos + count IN
    IF moved >= Size
    THEN read_pos' = moved - Size /\ write_pos' = write_pos - Size
    ELSE read_pos' = moved /\ UNCHANGED write_pos

(***************************************************************************)
(* The calls                                                               *)
(***************************************************************************)
\* A running loop: which one, what is left of max_count and, for the property
\* below, the bytes it could move when it began and whether the other stream
\* has moved all it was offered so far.
Loop(dir, max_count, goal) ==
    [dir |-> dir, max_count |-> max_count, goal |-> goal, greedy |-> TRUE]
Idle == Loop("none", 0, 0)
Ended == [copy EXCEPT !.dir = "none"]

\* the bytes enter the array, the writer learns how many
Accept(data) ==
    /\ impl' = Stored(data)
    /\ did_write(Len(data))
    /\ io' = [op |-> "write", data |-> data]

\* n bytes leave the array
Give(n) ==
    /\ io' = [op |-> "read", data |-> Peek(n)]
    /\ did_read(n)
    /\ UNCHANGED impl

Init ==
    /\ impl \in [Index -> Byte]     \* the contents of a new array do not matter
    /\ read_pos = 0
    /\ write_pos = 0
    /\ copy = Idle
    /\ io = [op |-> "none", data |-> <<>>]

\* the byte strings a caller can pass
Data == UNION {[1 .. n -> Byte] : n \in 0 .. MaxCount}

\* (A faulty variant takes the whole free room for one piece.)
write_some_whole(data) ==
    /\ copy.dir = "none"
    /\ Accept(SubSeq(data, 1, Lesser(Len(data), capacity)))
    /\ UNCHANGED copy

write_some(data) ==
    /\ copy.dir = "none"
    /\ Accept(SubSeq(data, 1, Lesser(Len(data), write_count)))
    /\ UNCHANGED copy

read_some(count) ==
    /\ copy.dir = "none"
    /\ Give(Lesser(count, read_count))
    /\ UNCHANGED copy

clear ==
    /\ copy.dir = "none"
    /\ read_pos' = 0
    /\ write_pos' = 0
    /\ io' = [op |-> "clear", data |-> <<>>]
    /\ UNCHANGED <<impl, copy>>

copy_from ==
    /\ copy.dir = "none"
    /\ copy' = Loop("from", 0, capacity)
    /\ UNCHANGED <<impl, read_pos, write_pos, io>>

\* a round ends the loop when it moves nothing
Moved(count, offered) ==
    [dir |-> IF count = 0 THEN "none" ELSE copy.dir,
     max_count |-> IF copy.dir = "to" THEN copy.max_count - count ELSE copy.max_count,
     goal |-> copy.goal - count,
     greedy |-> copy.greedy /\ count = offered]

\* the other stream's read_some fills any part of [write_ptr, write_ptr + wc)
copy_from_round(data) ==
    /\ copy.dir = "from"
    /\ write_count # 0
    /\ Len(data) <= write_count
    /\ Accept(data)
    /\ copy' = Moved(Len(data), write_count)

copy_from_full ==
    /\ copy.dir = "from"
    /\ write_count = 0
    /\ copy' = Ended
    /\ UNCHANGED <<impl, read_pos, write_pos, io>>

copy_to(max_count) ==
    /\ copy.dir = "none"
    /\ copy' = Loop("to", max_count, Lesser(size, max_count))
    /\ UNCHANGED <<impl, read_pos, write_pos, io>>

\* the other stream's write_some takes any part of the rc bytes
copy_to_round(count) ==
    LET rc == Lesser(read_count, copy.max_count) IN
    /\ copy.dir = "to"
    /\ rc # 0
    /\ count \in 0 .. rc
    /\ Give(count)
    /\ copy' = Moved(count, rc)

copy_to_done ==
    /\ copy.dir = "to"
    /\ Lesser(read_count, copy.max_count) = 0
    /\ copy' = Ended
    /\ UNCHANGED <<impl, read_pos, write_pos, io>>

Round ==
    \/ \E data \in Data : copy_from_round(data)
    \/ copy_from_full
    \/ \E count \in 0 .. Size : copy_to_round(count)
    \/ copy_to_done

Next ==
    \/ \E data \in Data : write_some(data)
    \/ \E count \in 0 .. MaxCount : read_some(count)
    \/ clear
    \/ copy_from
    \/ \E max_count \in 0 .. MaxCount : copy_to(max_count)
    \/ Round

Spec == Init /\ [][Next]_vars

(***************************************************************************)
(* Properties                                                              *)
(***************************************************************************)
\* The type of the state: the positions are numbers and the array keeps its size.
TypeOK ==
    /\ impl \in [Index -> Byte]
    /\ read_pos \in Nat
    /\ write_pos \in Nat
    /\ copy \in [dir : {"none", "from", "to"}, max_count : Nat, goal : Nat,
                 greedy : BOOLEAN]
    /\ io \in [op : {"none", "write", "read", "clear"}, data : Seq(Byte)]

\* The conditions did_read and did_write assert ("Reading past end of
\* Buffer", "Writing past end of Buffer"), and read_pos inside the array,
\* without which read_count underflows.
Positions ==
    /\ read_pos < Size
    /\ read_pos <= write_pos
    /\ write_pos <= read_pos + Size

\* A caller takes 0 from write_some or read_some for a full or an empty buffer
\* and stops (copy_from, copy_to, TCPSocket's start_read): although each call
\* serves one contiguous piece, the first piece is empty only if both are.
FirstPieceServes ==
    /\ write_count = 0 <=> size = Size
    /\ read_count = 0 <=> size = 0
    /\ size + capacity = Size

\* P2PClient and the http connections take the body of a message with one
\* copy_to and call it complete by the size of what they got: when the other
\* stream moves all it is offered, a loop moves everything it could, the bytes
\* in both pieces of the array (up to max_count) or into all the room there is.
LoopsComplete == copy.dir = "none" /\ copy.greedy => copy.goal = 0

\* The buffer between a socket and the messages keeps its promises: types,
\* positions, what a count of 0 means, and loops that move all they can.
BufferSound == TypeOK /\ Positions /\ FirstPieceServes /\ LoopsComplete

\* The bytes a reader has not got yet, oldest first: those at the positions
\* from, from + 1, ... below `to', which pass the end of the array.
Slot(pos) == IF pos < Size THEN pos ELSE pos - Size
Queue(array, from, to) == [i \in 1 .. to - from |-> array[Slot(from + i - 1)]]

Contents == Queue(impl, read_pos, write_pos)

\* The buffer is a first in first out queue of bytes: through the wrap of both
\* positions nothing is lost, doubled or reordered.
AsFifo == INSTANCE Fifo WITH queue <- Contents
ImplementsFifo == AsFifo!FifoSpec
=============================================================================
