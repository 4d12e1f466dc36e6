------------------------------ MODULE ByteQueue ------------------------------
(***************************************************************************)
(* What P2PClient, http::Client and http::Agent::Connection share: they    *)
(* move bytes between a socket, a buffer and the streams of messages.  As  *)
(* the buffers are queues (CircularBuffer), only numbers of bytes matter.  *)
(***************************************************************************)
EXTENDS Integers, Sequences, FiniteSets

Lesser(a, b) == IF a < b THEN a ELSE b

\* the sum of the first n numbers of s
SumTo(s, n) ==
    LET Total[k \in 0 .. Len(s)] == IF k = 0 THEN 0 ELSE Total[k - 1] + s[k] IN Total[n]
Sum(s) == SumTo(s, Len(s))

\* copy_to(sock) of one answer after the other until the socket has taken n
\* bytes: the answers that are left
Left(rs, n) ==
    LET done == Cardinality({k \in 1 .. Len(rs) : SumTo(rs, k) <= n})
        rest == SubSeq(rs, done + 1, Len(rs)) IN
    IF rest = <<>> THEN <<>>
    ELSE <<Head(rest) - (n - SumTo(rs, done))>> \o Tail(rest)

\* buffer.copy_from(sock), of a buffer with b bytes and a socket with i
Filled(b, i, size) == b + Lesser(i, size - b)

\* The loop that reads a body which lacks `need' bytes: from the buffer, then,
\* when that was not enough, from what the socket has.
BodyRead(b, i, need, size) ==
    IF need <= b THEN [body |-> need, buffer |-> b - need, incoming |-> i]
    ELSE LET b2 == Filled(0, i, size)
             n2 == Lesser(need - b, b2) IN
         [body |-> b + n2, buffer |-> b2 - n2, incoming |-> i - b2]
=============================================================================
