------------------------------ MODULE KeyValue ------------------------------
(***************************************************************************)
(* platform/DBlmdb.cpp and platform/DBsqlite3.cpp: the ordered table of    *)
(* byte strings under the block chain, the wallet cache and the peer       *)
(* lists, over either library.  Of the libraries only what the calls do is *)
(* modelled.  Transactions are modelled where they matter, in BlockChain   *)
(* and WalletState.  At the end, the integers of variable length: those in *)
(* the keys (common/Varint.cpp) and those of serialized blocks and of      *)
(* addresses (common/Varint.hpp, Streams.cpp), seven bits to a byte and    *)
(* the lowest first.                                                       *)
(***************************************************************************)
EXTENDS Integers, Sequences, FiniteSets, SequencesExt, TLC

CONSTANTS Key,        \* keys in use, sequences of bytes
          Start,      \* pairs <<prefix, middle>> with which cursors are opened
          FF,         \* the greatest byte
          MaxKeySize, \* the start of a backward cursor is padded to this size
          Group       \* bits of the value in a byte of a number in a stream, 7 in the code

ByteSet == 0 .. FF
\* no key is as long as the padded start of a cursor (keys are a prefix, a
\* hash and two numbers: less than 128 bytes)
KeysFit ==
    /\ FF \in Nat /\ MaxKeySize \in Nat
    /\ IsFiniteSet(Key) /\ Key \subseteq Seq(ByteSet) /\ Start \subseteq Seq(ByteSet) \X Seq(ByteSet)
    /\ \A k \in Key : Len(k) > 0 /\ Len(k) < MaxKeySize

GroupAssumption == Group \in 1 .. 7

Backend == {"lmdb", "sqlite"}
NoKey == <<>>
NoCursor == [is_end |-> TRUE]

VARIABLES db,      \* the library built in
          table,   \* the keys stored (values are whatever was put)
          cur,     \* the cursor, or NoCursor
          began,   \* the table when it was opened
          seen     \* the keys it has shown
vars == <<db, table, cur, began, seen>>

\* memcmp, and the shorter one first
Before(a, b) ==
    \/ IsStrictPrefix(a, b)
    \/ \E i \in 1 .. Len(a) : /\ i <= Len(b) /\ a[i] < b[i]
                              /\ \A j \in 1 .. i - 1 : a[j] = b[j]
NotAfter(a, b) == a = b \/ Before(a, b)

Least(K) == IF K = {} THEN NoKey ELSE CHOOSE k \in K : \A o \in K : NotAfter(k, o)
Greatest(K) == IF K = {} THEN NoKey ELSE CHOOSE k \in K : \A o \in K : NotAfter(o, k)

(***************************************************************************)
(* Cursors                                                                 *)
(***************************************************************************)
\* mdb_cursor_get
MDB_SET_RANGE(K, k) == Least({o \in K : NotAfter(k, o)})
MDB_NEXT(K, at) == Least({o \in K : Before(at, o)})
MDB_PREV(K, at) == Greatest({o \in K : Before(o, at)})

padded(start) == start \o [i \in 1 .. MaxKeySize - Len(start) |-> FF]

\* the key on which a new cursor stands
lmdb_open(start, forward) ==
    IF forward
    THEN IF start = <<>> THEN Least(table) ELSE MDB_SET_RANGE(table, start)
    ELSE IF start = <<>> THEN Greatest(table)
         ELSE LET found == MDB_SET_RANGE(table, padded(start)) IN
              IF found = NoKey THEN Greatest(table) ELSE MDB_PREV(table, found)

\* SELECT ... WHERE kk >= ? ORDER BY kk ASC, or <= and DESC
sqlite_select(bound, forward, K) ==
    IF forward THEN Least({k \in K : NotAfter(bound, k)})
    ELSE Greatest({k \in K : NotAfter(k, bound)})
sqlite_open(start, forward) ==
    sqlite_select(IF forward THEN start ELSE padded(start), forward, table)

\* What a cursor opened with s shows when it stands on key k
check_prefix(s, k, forward) ==
    LET ends == k = NoKey \/ ~IsPrefix(s[1], k) IN
    [s |-> s, prefix |-> s[1], forward |-> forward, is_end |-> ends,
     suffix |-> IF ends THEN <<>> ELSE SubSeq(k, Len(s[1]) + 1, Len(k))]

At(c) == c.prefix \o c.suffix
Showing(c) == IF c.is_end THEN <<>> ELSE <<At(c)>>

\* begin and rbegin
open(s, forward) ==
    LET start == s[1] \o s[2]
        k == IF db = "lmdb" THEN lmdb_open(start, forward) ELSE sqlite_open(start, forward) IN
    /\ cur = NoCursor
    /\ cur' = check_prefix(s, k, forward)
    /\ seen' = Showing(cur')
    /\ began' = table
    /\ UNCHANGED <<db, table>>

next ==
    /\ cur # NoCursor /\ ~cur.is_end
    /\ cur' = check_prefix(cur.s,
                  IF cur.forward THEN MDB_NEXT(table, At(cur)) ELSE MDB_PREV(table, At(cur)),
                  cur.forward)
    /\ seen' = seen \o Showing(cur')
    /\ UNCHANGED <<db, table, began>>

\* (A faulty variant goes one key further than the neighbour.)
erased_next_skips(k, K, forward) ==
    LET Neighbour(o) == IF forward THEN MDB_NEXT(K, o) ELSE MDB_PREV(K, o) IN
    IF Neighbour(k) = NoKey THEN NoKey ELSE Neighbour(Neighbour(k))

\* mdb_cursor_del leaves the cursor between the neighbours of the erased
\* key; sqlite's statement is run again from the erased key.
erased_next(k, K, forward) ==
    IF db = "sqlite" THEN sqlite_select(k, forward, K)
    ELSE IF forward THEN MDB_NEXT(K, k) ELSE MDB_PREV(K, k)
erase ==
    LET k == At(cur)
        K == table \ {k} IN
    /\ cur # NoCursor /\ ~cur.is_end
    /\ table' = K
    /\ cur' = check_prefix(cur.s, erased_next(k, K, cur.forward), cur.forward)
    /\ seen' = seen \o Showing(cur')
    /\ UNCHANGED <<db, began>>

done ==
    /\ cur # NoCursor
    /\ cur' = NoCursor /\ seen' = <<>> /\ began' = {}
    /\ UNCHANGED <<db, table>>

(***************************************************************************)
(* Single keys                                                             *)
(***************************************************************************)
Outside == cur = NoCursor /\ UNCHANGED <<db, cur, began, seen>>

\* throws when the key is there and must not be
put(k, nooverwrite) ==
    /\ Outside
    /\ nooverwrite => k \notin table
    /\ table' = table \cup {k}

\* throws when the key is not there and must be
del(k, mustexist) ==
    /\ Outside
    /\ mustexist => k \in table
    /\ table' = table \ {k}

Init ==
    /\ db \in Backend
    /\ table = {}
    /\ cur = NoCursor /\ began = {} /\ seen = <<>>

Next ==
    \/ \E s \in Start, forward \in BOOLEAN : open(s, forward)
    \/ next \/ erase \/ done
    \/ \E k \in Key, nooverwrite \in BOOLEAN : put(k, nooverwrite)
    \/ \E k \in Key, mustexist \in BOOLEAN : del(k, mustexist)

(***************************************************************************)
(* Properties                                                              *)
(***************************************************************************)
InRange(k, s, forward) ==
    /\ IsPrefix(s[1], k)
    /\ IF forward THEN NotAfter(s[1] \o s[2], k)
       ELSE Before(k, s[1] \o s[2]) \/ IsPrefix(s[1] \o s[2], k)

\* A cursor of either library shows the keys under its prefix, from its start
\* on, in order, each once, none left out and none after the last, also while
\* keys are erased through it on the way: the loops over tips, headers,
\* histories and whole data bases rely on it.
Ahead(a, b, forward) == IF forward THEN Before(a, b) ELSE Before(b, a)
WalkExact ==
    cur # NoCursor =>
        LET all == {k \in began : InRange(k, cur.s, cur.forward)} IN
        /\ \A i \in 1 .. Len(seen) : seen[i] \in all
        /\ \A i, j \in 1 .. Len(seen) : i < j => Ahead(seen[i], seen[j], cur.forward)
        /\ \A k \in all \ Range(seen) :
              ~cur.is_end /\ \A i \in 1 .. Len(seen) : Ahead(seen[i], k, cur.forward)

\* A walk that erases everything it shows leaves exactly what is out of its
\* range, which is how data bases are emptied and rebuilt.
EraseAll ==
    cur # NoCursor /\ cur.is_end /\ (\A i \in 1 .. Len(seen) : seen[i] \notin table) =>
        table = {k \in began : ~InRange(k, cur.s, cur.forward)}

(***************************************************************************)
(* Numbers in streams                                                      *)
(***************************************************************************)
Cont == 2 ^ Group        \* the bit of a byte that says that another one follows

write_varint(i) ==
    LET Bytes[k \in 0 .. i] ==
          IF k >= Cont THEN <<(k % Cont) + Cont>> \o Bytes[k \div Cont] ELSE <<k>>
    IN Bytes[i]

\* The loop of read_varint at byte k of bytes: read is the number of bytes
\* read, or -1 (overflow) or -2 (not the shortest form).
Outcome(read, i) == [read |-> read, value |-> i]
read_varint(bits, bytes) ==
    LET Loop[k \in 1 .. Len(bytes) + 1, i \in 0 .. 2 ^ bits - 1] ==
          LET shift == (k - 1) * Group IN
          IF k > Len(bytes) THEN Outcome(k - 1, i)
          ELSE IF shift + Group >= bits /\ bytes[k] >= 2 ^ (bits - shift) THEN Outcome(-1, i)
          ELSE IF bytes[k] = 0 /\ shift # 0 THEN Outcome(-2, i)
          ELSE LET more == i + (bytes[k] % Cont) * 2 ^ shift IN
               IF bytes[k] < Cont THEN Outcome(k, more) ELSE Loop[k + 1, more]
    IN Loop[1, 0]

\* The reader of streams: every failure, the end of the stream too, throws.
Thrown == Outcome(0, 0)
read_varint_helper(bits, bytes) ==
    LET Loop[k \in 1 .. Len(bytes) + 1, temp \in 0 .. 2 ^ bits - 1] ==
          LET shift == (k - 1) * Group IN
          IF k > Len(bytes) THEN Thrown
          ELSE IF shift >= bits - Group /\ bytes[k] >= 2 ^ (bits - shift) THEN Thrown
          ELSE LET more == temp + (bytes[k] % Cont) * 2 ^ shift IN
               IF bytes[k] >= Cont THEN Loop[k + 1, more]
               ELSE IF bytes[k] = 0 /\ shift # 0 THEN Thrown
               ELSE Outcome(k, more)
    IN Loop[1, 0]

\* get_varint_data writes to an array of this many bytes
DataSize(bits) == (bits + Group - 1) \div Group

(***************************************************************************)
(* Numbers in keys.  Bytes have eight bits here.                           *)
(***************************************************************************)
uint_be_to_bytes(n, val) ==
    LET Bytes[k \in 0 .. n, v \in 0 .. val] ==
          IF k = 0 THEN <<>> ELSE Append(Bytes[k - 1, v \div 256], v % 256)
    IN Bytes[n, val]
uint_be_from_bytes(b) ==
    LET Value[k \in 0 .. Len(b)] == IF k = 0 THEN 0 ELSE Value[k - 1] * 256 + b[k] IN Value[Len(b)]

\* Sizes above 5 need values that are beyond TLC's integers: the bound is 2^31 - 1.
get_varint_sqlite4_size(val) ==
    IF val <= 240 THEN 1 ELSE IF val <= 2287 THEN 2 ELSE IF val <= 67823 THEN 3
    ELSE IF val <= 16777215 THEN 4 ELSE 5

write_varint_sqlite4(val) ==
    IF val <= 240 THEN <<val>>
    ELSE IF val <= 2287 THEN <<(val - 240) \div 256 + 241, (val - 240) % 256>>
    ELSE IF val <= 67823 THEN <<249, (val - 2288) \div 256, (val - 2288) % 256>>
    ELSE LET n == get_varint_sqlite4_size(val) - 1 IN <<247 + n>> \o uint_be_to_bytes(n, val)

\* A key is read as a whole: it has the value's bytes and nothing behind them, or reading throws.
read_varint_sqlite4(str) ==
    LET a0 == str[1]
        size == IF a0 <= 240 THEN 1 ELSE IF a0 <= 248 THEN 2 ELSE a0 - 246 IN
    IF str = <<>> THEN -1
    ELSE IF Len(str) # size THEN -1
    ELSE IF a0 <= 240 THEN a0
    ELSE IF a0 <= 248 THEN 240 + 256 * (a0 - 241) + str[2]
    ELSE IF a0 = 249 THEN 2288 + 256 * str[2] + str[3]
    ELSE uint_be_from_bytes(Tail(str))

(***************************************************************************)
(* Properties of the numbers                                               *)
(***************************************************************************)
IsForm(bytes, n, v) == SubSeq(bytes, 1, n) = write_varint(v)

\* Reading a stream succeeds exactly when it starts with the bytes that
\* write_varint writes for some value of the type, and yields that value: no
\* two encodings of a block or transaction are read as the same numbers.
StreamExact(bits, bytes) ==
    LET r == read_varint_helper(bits, bytes) IN
    /\ r # Thrown => r.value < 2 ^ bits /\ IsForm(bytes, r.read, r.value)
    /\ r = Thrown => \A n \in 1 .. Len(bytes), v \in 0 .. 2 ^ bits - 1 : ~IsForm(bytes, n, v)

\* The reader of arrays (used for the tag of an address) agrees with it, but
\* for an input that ends within a number: then it returns all of the bytes
\* it has seen as if they were the number.
ArraysAgree(bits, bytes) ==
    LET a == read_varint(bits, bytes)
        s == read_varint_helper(bits, bytes)
        cut == Len(bytes) = 0 \/ bytes[Len(bytes)] >= Cont IN
    /\ s # Thrown => a = s
    /\ s = Thrown /\ a.read >= 0 => cut /\ a.read = Len(bytes)

\* get_varint_data has room in its array for every number that can be read:
\* the array has one byte for each started group of bits.
DataFits(bits, bytes) ==
    LET r == read_varint_helper(bits, bytes) IN
    r # Thrown => Len(write_varint(r.value)) <= DataSize(bits)

Less(s, t) ==
    \E k \in 1 .. Len(t) :
        /\ SubSeq(s, 1, k - 1) = SubSeq(t, 1, k - 1) /\ k <= Len(s) /\ s[k] < t[k]

\* Keys sort as bytes in the order of the values, whatever follows them in
\* the key, so that the data base's cursors walk heights and amounts in order.
KeysOrdered(pair) ==
    pair[1] < pair[2] => Less(write_varint_sqlite4(pair[1]), write_varint_sqlite4(pair[2]))

\* A key is read back as the value it was written for, and has the size that
\* get_varint_sqlite4_size announces.
KeysReadBack(pair) ==
    LET key == write_varint_sqlite4(pair[1]) IN
    /\ Len(key) = get_varint_sqlite4_size(pair[1])
    /\ \A k \in 1 .. Len(key) : key[k] \in 0 .. 255
    /\ read_varint_sqlite4(key) = pair[1]
    /\ read_varint_sqlite4(Append(key, 0)) = -1
=============================================================================
