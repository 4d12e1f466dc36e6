------------------------------ MODULE BlockHash ------------------------------
(***************************************************************************)
(* How the hash functions of crypto/ (skein.c, blake256.c, groestl.c,      *)
(* jh.c, keccak.c) cut a message into blocks: buffering, padding, counters *)
(* and flags.  The compression functions themselves are ideal: a state is  *)
(* the sequence of the blocks it has absorbed, each with the counter and   *)
(* flags it was absorbed with.  Blocks are of B bytes instead of 64, so    *)
(* that every boundary is met.                                             *)
(***************************************************************************)
EXTENDS Integers, Sequences, SequencesExt

CONSTANTS B,          \* bytes of a block
          L,          \* bytes of the length at the end of a padded block
          W,          \* the low word of a counter of bytes wraps at W, a multiple of B
          Others,     \* messages that padding must tell apart
          OutBytes    \* bytes of a skein digest

HashAssumption == B \in Nat /\ L \in 1 .. B - 2 /\ W % B = 0

Zeros(n) == [k \in 1 .. n |-> 0]
Block(m, k) == SubSeq(m, (k - 1) * B + 1, k * B)
Blocks(m) == [k \in 1 .. Len(m) \div B |-> Block(m, k)]
From(m, k) == SubSeq(m, k, Len(m))

\* byte i of a length or count n: any value no other byte has
LenBytes(n) == [i \in 1 .. L |-> -(n * L + i)]

(***************************************************************************)
(* Skein: one text for states of 512 and 1024 bits (Init never selects the *)
(* one of 256).  The last block is held back until Final, which flags it.  *)
(***************************************************************************)
Skein_Start == [X |-> <<>>, b |-> <<>>, T0 |-> 0, first |-> TRUE, final |-> FALSE]

Skein_512_Init == Skein_Start
Skein1024_Init == Skein_Start

Skein_512_Process_Block(ctx, blks, byteCntAdd) ==
    FoldLeft(LAMBDA c, blk :
                [c EXCEPT !.T0 = @ + byteCntAdd, !.first = FALSE,
                          !.X = Append(@, <<blk, c.T0 + byteCntAdd, c.first, c.final>>)],
             ctx, blks)
Skein1024_Process_Block(ctx, blks, byteCntAdd) == Skein_512_Process_Block(ctx, blks, byteCntAdd)

\* full blocks of m, except the last one even if it is full
Skein_Bulk(PB(_, _, _), ctx, m) ==
    LET n == IF Len(m) > B THEN (Len(m) - 1) \div B ELSE 0
        c == PB(ctx, [k \in 1 .. n |-> Block(m, k)], B) IN
    [c EXCEPT !.b = From(m, n * B + 1)]

Skein_Update(PB(_, _, _), ctx, msg) ==
    IF Len(msg) + Len(ctx.b) <= B THEN [ctx EXCEPT !.b = @ \o msg]
    ELSE IF ctx.b = <<>> THEN Skein_Bulk(PB, ctx, msg)
    ELSE LET n == B - Len(ctx.b) IN
         Skein_Bulk(PB, PB(ctx, <<ctx.b \o SubSeq(msg, 1, n)>>, B), From(msg, n + 1))

\* The digest: what each output block is made from, and how many of its bytes
\* are used (counter mode)
Skein_Final(PB(_, _, _), ctx) ==
    LET c == PB([ctx EXCEPT !.final = TRUE], <<ctx.b \o Zeros(B - Len(ctx.b))>>, Len(ctx.b))
        blocks == (OutBytes + B - 1) \div B IN
    [X |-> c.X, out |-> [i \in 1 .. blocks |->
        <<i - 1, IF OutBytes - (i - 1) * B >= B THEN B ELSE OutBytes - (i - 1) * B>>]]

Skein_512_Update(ctx, msg) == Skein_Update(Skein_512_Process_Block, ctx, msg)
Skein1024_Update(ctx, msg) == Skein_Update(Skein1024_Process_Block, ctx, msg)
Skein_512_Final(ctx) == Skein_Final(Skein_512_Process_Block, ctx)
Skein1024_Final(ctx) == Skein_Final(Skein1024_Process_Block, ctx)

(***************************************************************************)
(* Blake: the counter is that of message bytes, and a block without any is *)
(* absorbed with none (nullt).  Final pads by calling Update, and takes    *)
(* back in the counter what is not message.                                *)
(***************************************************************************)
Blake_Init == [h |-> <<>>, buf |-> <<>>, t0 |-> 0, t1 |-> 0, nullt |-> FALSE]

\* t[0] += 512, with carry into t[1], and blake256_compress
Blake_Compress(S, blk) ==
    LET t0 == (S.t0 + B) % W
        t1 == S.t1 + (IF t0 = 0 THEN 1 ELSE 0) IN
    [S EXCEPT !.t0 = t0, !.t1 = t1,
              !.h = Append(@, <<blk, IF S.nullt THEN <<0, 0>> ELSE <<t1, t0>>>>)]

blake256_update(S, data) ==
    LET left == Len(S.buf)
        fill == B - left
        full == left > 0 /\ Len(data) % B >= fill
        c == IF full THEN Blake_Compress(S, S.buf \o SubSeq(data, 1, fill)) ELSE S
        rest == IF full THEN From(data, fill + 1) ELSE data
        kept == IF full THEN <<>> ELSE S.buf
        d == FoldLeft(Blake_Compress, c, Blocks(rest))
        tail == From(rest, (Len(rest) \div B) * B + 1) IN
    [d EXCEPT !.buf = IF tail = <<>> THEN <<>> ELSE kept \o tail]

\* S->t[0] -= n
Blake_Back(S, n) == [S EXCEPT !.t0 = (@ - n) % W]
Blake_Null(S) == [S EXCEPT !.nullt = TRUE]
padding(n) == <<128>> \o Zeros(n - 1)

Blake_Pad(S) ==
    LET len == Len(S.buf)
        room == B - L - 1 IN
    IF len = room THEN blake256_update(Blake_Back(S, 1), <<129>>)
    ELSE Blake_Back(blake256_update(
            IF len < room
            THEN blake256_update(Blake_Back(IF len = 0 THEN Blake_Null(S) ELSE S, room - len),
                                 padding(room - len))
            ELSE Blake_Null(blake256_update(
                    Blake_Back(blake256_update(Blake_Back(S, B - len), padding(B - len)), room),
                    Zeros(room))),
            <<1>>), 1)

blake256_final_h(S) ==
    LET lo == S.t0 + Len(S.buf)
        hi == IF lo >= W THEN S.t1 + 1 ELSE S.t1 IN
    blake256_update(Blake_Back(Blake_Pad(S), L), LenBytes(hi * W + (lo % W)))

blake256_final(S) == [X |-> blake256_final_h(S).h, out |-> <<>>]

(***************************************************************************)
(* Groestl and JH: an array as buffer, in which bytes of earlier use stay  *)
(***************************************************************************)
Stale == [k \in 1 .. B |-> -1]
Put(array, at, bytes) ==
    [k \in 1 .. B |-> IF k > at /\ k <= at + Len(bytes) THEN bytes[k - at] ELSE array[k]]

Groestl_Init == [chaining |-> <<>>, buffer |-> Stale, buf_ptr |-> 0, counter |-> 0]

Groestl_F512(h, m) == Append(h, m)
Groestl_Transform(ctx, blks) ==
    [ctx EXCEPT !.chaining = FoldLeft(Groestl_F512, @, blks), !.counter = @ + Len(blks)]

Groestl_Update(ctx, input) ==
    LET index == IF ctx.buf_ptr = 0 THEN 0
                 ELSE IF B - ctx.buf_ptr < Len(input) THEN B - ctx.buf_ptr ELSE Len(input)
        filled == Put(ctx.buffer, ctx.buf_ptr, SubSeq(input, 1, index)) IN
    IF ctx.buf_ptr > 0 /\ ctx.buf_ptr + index < B
    THEN [ctx EXCEPT !.buffer = filled, !.buf_ptr = @ + index]
    ELSE LET c == IF ctx.buf_ptr = 0 THEN ctx ELSE Groestl_Transform(ctx, <<filled>>)
             rest == From(input, index + 1)
             d == Groestl_Transform(c, Blocks(rest))
             tail == From(rest, (Len(rest) \div B) * B + 1) IN
         [d EXCEPT !.buffer = Put(filled, 0, tail), !.buf_ptr = Len(tail)]

\* (A faulty variant leaves the rest of the last block in the buffer.)
Groestl_Final_stale(ctx) ==
    LET padded == Put(ctx.buffer, ctx.buf_ptr, <<128>>)
        c == IF ctx.buf_ptr + 1 > B - L THEN Groestl_Transform(ctx, <<padded>>) ELSE ctx IN
    [X |-> Groestl_Transform(c, <<Put(padded, B - L, LenBytes(c.counter + 1))>>).chaining,
     out |-> <<>>]

Groestl_Final(ctx) ==
    LET padded == Put(ctx.buffer, ctx.buf_ptr, <<128>>)
        ptr == ctx.buf_ptr + 1
        two == ptr > B - L
        c == IF two THEN Groestl_Transform(ctx, <<Put(padded, ptr, Zeros(B - ptr))>>) ELSE ctx
        last == IF two THEN Zeros(B) ELSE Put(padded, ptr, Zeros(B - ptr))
        d == Groestl_Transform(c, <<Put(last, B - L, LenBytes(c.counter + 1))>>) IN
    [X |-> d.chaining, out |-> <<>>]

Jh_Init == [x |-> <<>>, buffer |-> Stale, datasize_in_buffer |-> 0, databitlen |-> 0]

Jh_F8(state) == [state EXCEPT !.x = Append(@, state.buffer)]

\* When the piece does not fill the buffer, memory after it is copied too.
Jh_Update(state, data) ==
    LET s == [state EXCEPT !.databitlen = @ + Len(data)]
        have == state.datasize_in_buffer
        Junk(n) == [k \in 1 .. n |-> -2] IN
    IF have > 0 /\ have + Len(data) < B
    THEN [s EXCEPT !.buffer = Put(@, have, data \o Junk(B - have - Len(data))),
                   !.datasize_in_buffer = @ + Len(data)]
    ELSE LET n == IF have > 0 THEN B - have ELSE 0
             c == IF have > 0
                  THEN [Jh_F8([s EXCEPT !.buffer = Put(@, have, SubSeq(data, 1, n))])
                           EXCEPT !.datasize_in_buffer = 0]
                  ELSE s
             rest == From(data, n + 1)
             d == FoldLeft(LAMBDA a, blk : Jh_F8([a EXCEPT !.buffer = blk]), c, Blocks(rest))
             tail == From(rest, (Len(rest) \div B) * B + 1) IN
         IF tail = <<>> THEN d
         ELSE [d EXCEPT !.buffer = Put(@, 0, tail), !.datasize_in_buffer = Len(tail)]

Jh_Final(state) ==
    LET used == state.databitlen % B
        length == LenBytes(state.databitlen) IN
    IF used = 0
    THEN [X |-> Jh_F8([state EXCEPT !.buffer = Put(Put(Zeros(B), 0, <<128>>), B - L, length)]).x,
          out |-> <<>>]
    ELSE LET c == Jh_F8([state EXCEPT !.buffer = Put(@, used, <<128>> \o Zeros(B - used - 1))]) IN
         [X |-> Jh_F8([c EXCEPT !.buffer = Put(Zeros(B), B - L, length)]).x, out |-> <<>>]

(***************************************************************************)
(* Keccak takes the whole message at once: it has no Update, and a context *)
(* here is the message so far                                              *)
(***************************************************************************)
Or128(b) == IF b >= 128 THEN b ELSE b + 128
keccak_last(in) ==
    LET temp == in \o <<1>> \o Zeros(B - Len(in) - 1) IN
    [temp EXCEPT ![B] = Or128(@)]

\* st ^= the block, and the permutation
keccakf(st, blk) == Append(st, blk)

keccak(in) ==
    LET st == FoldLeft(keccakf, <<>>, Blocks(in)) IN
    [X |-> keccakf(st, keccak_last(From(in, (Len(in) \div B) * B + 1))), out |-> <<>>]

(***************************************************************************)
(* Hashing a message piece by piece                                        *)
(***************************************************************************)
Algs == {"skein", "skein1024", "blake", "groestl", "jh", "keccak"}

Fresh(alg) ==
    CASE alg = "skein" -> Skein_512_Init [] alg = "skein1024" -> Skein1024_Init
      [] alg = "blake" -> Blake_Init
      [] alg = "groestl" -> Groestl_Init [] alg = "jh" -> Jh_Init [] alg = "keccak" -> <<>>
UpdateOf(alg, ctx, m) ==
    CASE alg = "skein" -> Skein_512_Update(ctx, m) [] alg = "skein1024" -> Skein1024_Update(ctx, m)
      [] alg = "blake" -> blake256_update(ctx, m)
      [] alg = "groestl" -> Groestl_Update(ctx, m) [] alg = "jh" -> Jh_Update(ctx, m)
      [] alg = "keccak" -> ctx \o m
FinalOf(alg, ctx) ==
    CASE alg = "skein" -> Skein_512_Final(ctx) [] alg = "skein1024" -> Skein1024_Final(ctx)
      [] alg = "blake" -> blake256_final(ctx)
      [] alg = "groestl" -> Groestl_Final(ctx) [] alg = "jh" -> Jh_Final(ctx)
      [] alg = "keccak" -> keccak(ctx)

VARIABLES input, left, sizes, ctx, digest
vars == <<input, left, sizes, ctx, digest>>

NoDigest == [X |-> <<>>, out |-> <<>>]

\* inputs: <<algorithm, message, sizes of the pieces given to Update>>
Init(inputs) ==
    /\ input \in inputs
    /\ left = input[2]
    /\ sizes = input[3]
    /\ ctx = Fresh(input[1])
    /\ digest = NoDigest

Update ==
    /\ sizes # <<>>
    /\ ctx' = UpdateOf(input[1], ctx, SubSeq(left, 1, Head(sizes)))
    /\ left' = From(left, Head(sizes) + 1)
    /\ sizes' = Tail(sizes)
    /\ UNCHANGED <<input, digest>>

Final ==
    /\ sizes = <<>> /\ digest = NoDigest
    /\ digest' = FinalOf(input[1], ctx)
    /\ UNCHANGED <<input, left, sizes, ctx>>

Next == Update \/ Final

(***************************************************************************)
(* What the algorithms are, of a whole message                             *)
(***************************************************************************)
Count(m) == IF Len(m) = 0 THEN 1 ELSE (Len(m) + B - 1) \div B
Lesser(a, b) == IF a < b THEN a ELSE b
PadTo(m, r) == m \o Zeros((r - Len(m)) % B)

\* each block of padded text p of a message of n bytes with the number of
\* message bytes so far, or none if it holds no message byte
WithCounter(p, n) ==
    [k \in 1 .. Len(p) \div B |->
        <<Block(p, k), IF (k - 1) * B >= n THEN <<0, 0>>
                       ELSE <<Lesser(k * B, n) \div W, Lesser(k * B, n) % W>>>>]

\* Positions are counted in whole words of the counter by its high half.
Defined(alg, m) ==
    CASE alg \in {"skein", "skein1024"} ->
            [k \in 1 .. Count(m) |->
                <<Block(m \o Zeros(B), k), Lesser(k * B, Len(m)), k = 1, k = Count(m)>>]
      [] alg = "blake" ->
            LET ended == IF Len(m) % B = B - L - 1 THEN m \o <<129>>
                         ELSE PadTo(m \o <<128>>, B - L - 1) \o <<1>> IN
            WithCounter(ended \o LenBytes(Len(m)), Len(m))
      [] alg = "groestl" ->
            LET p == PadTo(m \o <<128>>, B - L) IN
            Blocks(p \o LenBytes((Len(p) + L) \div B))
      [] alg = "jh" ->
            IF Len(m) % B = 0
            THEN Blocks(PadTo(m \o <<128>>, B - L) \o LenBytes(Len(m)))
            ELSE Blocks(PadTo(m \o <<128>>, 0) \o Zeros(B - L) \o LenBytes(Len(m)))
      [] alg = "keccak" ->
            LET p == PadTo(m \o <<1>>, 0) IN Blocks([p EXCEPT ![Len(p)] = Or128(@)])

(***************************************************************************)
(* Properties                                                              *)
(***************************************************************************)
\* The pieces that blake256_update does not join to what is buffered: an empty
\* one and, after a partial block, one of a block or more whose rest leaves room
\* in the buffer; its blocks go before the buffered bytes, or instead of them.
BufferedBefore(i) == FoldLeft(+, 0, SubSeq(input[3], 1, i - 1)) % B
NotJoined ==
    /\ input[1] = "blake"
    /\ \E i \in DOMAIN input[3] :
          LET n == input[3][i] IN
          /\ BufferedBefore(i) > 0
          /\ n = 0 \/ (n >= B /\ n % B < B - BufferedBefore(i))

\* However the message is cut into pieces, and at every length around the
\* boundaries of blocks and of the padding, what is absorbed is what the
\* algorithm's definition says: no byte is lost, repeated or left over from
\* an earlier use of the buffer, and no counter is off.  The one exception, and
\* it is one exactly, are the pieces that blake256_update does not join: then the
\* hash is not that of the message.  (No caller makes such pieces.)
AbsorbsDefined ==
    digest # NoDigest =>
        IF NotJoined THEN digest.X # Defined(input[1], input[2])
        ELSE digest.X = Defined(input[1], input[2])

\* Two messages are never absorbed alike: padding cannot be mistaken for
\* message bytes of the same value.
Injective ==
    digest # NoDigest /\ input[2] \in Others =>
        \A m \in Others \ {input[2]} : Defined(input[1], m) # digest.X

\* Buffers hold what they can: no Update writes behind the end of its buffer,
\* and skein keeps a full block back (the asserts of Skein_*_Update).
BufferBounded ==
    /\ input[1] \in {"skein", "skein1024"} => Len(ctx.b) <= B /\ (left # input[2] => Len(ctx.b) >= 1)
    /\ input[1] = "blake" => Len(ctx.buf) < B
    /\ input[1] = "groestl" => ctx.buf_ptr < B
    /\ input[1] = "jh" => ctx.datasize_in_buffer < B
=============================================================================
