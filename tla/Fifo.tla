-------------------------------- MODULE Fifo --------------------------------
(***************************************************************************)
(* What a byte stream of common/Streams.hpp promises to its two users: the *)
(* bytes taken from the writer come back to the reader once each and in    *)
(* order.  `io' is what the last call handed over at the interface, so an  *)
(* implementation cannot hide a lost or a doubled byte behind its mapping  *)
(* of `queue'.                                                             *)
(***************************************************************************)
EXTENDS Naturals, Sequences

CONSTANTS Byte      \* the values of a byte

VARIABLES queue,    \* the bytes written and not read yet
          io        \* [op, data]: the last call and the bytes it moved

fvars == <<queue, io>>

FifoInit == queue = <<>> /\ io = [op |-> "none", data |-> <<>>]

\* a writer's bytes are appended
Put == /\ io'.op = "write"
       /\ io'.data \in Seq(Byte)
       /\ queue' = queue \o io'.data

\* a reader gets the oldest bytes
Take == /\ io'.op = "read"
        /\ queue = io'.data \o queue'

\* the owner throws the bytes away
Drop == io'.op = "clear" /\ queue' = <<>>

FifoNext == Put \/ Take \/ Drop

FifoSpec == FifoInit /\ [][FifoNext]_fvars
=============================================================================
