------------------------------ MODULE MCCodecs ------------------------------
(***************************************************************************)
(* The parts of the program that only compute - numbers, texts, hashes,    *)
(* curve arithmetic and signatures - next to each other.  They do          *)
(* not interact: a behaviour is about one part, whose variables are x1 to  *)
(* x7 as far as it needs them.                                             *)
(***************************************************************************)
EXTENDS Integers, Sequences, SequencesExt

CONSTANTS value1, value2      \* the two JsonValues

VARIABLES part, x1, x2, x3, x4, x5, x6, x7
vars == <<part, x1, x2, x3, x4, x5, x6, x7>>

None == "none"
Rest(k) == \* the variables from k on are not used
    /\ k <= 3 => x3 = None
    /\ k <= 4 => x4 = None
    /\ k <= 5 => x5 = None
    /\ k <= 6 => x6 = None /\ x7 = None

SeqsUpTo(S, n) == UNION {[1 .. k -> S] : k \in 0 .. n}

(***************************************************************************)
(* The numbers of KeyValue, without its table and cursors: any short       *)
(* sequence of bytes is read with either reader, and pairs of values       *)
(* around the ends of the ranges become keys.                              *)
(***************************************************************************)
KV == INSTANCE KeyValue WITH
        FF <- 255, MaxKeySize <- 128, Group <- 2, Key <- {}, Start <- {},
        db <- None, table <- {}, cur <- None, began <- {}, seen <- <<>>
Bits == 5          \* width of the value that is read
MaxBytes == 4      \* bound: length of the input
Around(n) == {n - 1, n, n + 1}
KeyValues == {0, 1, 255, 256, 2147483646} \cup Around(240) \cup Around(495) \cup Around(2287) \cup Around(2543)
             \cup Around(67823) \cup Around(65535) \cup Around(16777215)

VarintInit == x1 = <<>> /\ x2 \in KeyValues \X KeyValues /\ Rest(3)
\* the inputs and the pairs are independent: each is enumerated by itself
NextByte ==
    /\ part = "varint" /\ Len(x1) < MaxBytes /\ x2 = <<0, 0>>
    /\ \E b \in 0 .. 2 * KV!Cont - 1 : x1' = Append(x1, b)
    /\ UNCHANGED <<part, x2, x3, x4, x5, x6, x7>>

(***************************************************************************)
(* Amounts: every amount of a small word, factors near the ends of its     *)
(* range, transactions of up to two inputs and outputs with such amounts.  *)
(***************************************************************************)
Am == INSTANCE Amounts WITH Half <- 80, Radix <- 2, Places <- 9
Word == Am!Word
Operands == (0 .. 40) \cup ((Word \div 2) - 9 .. (Word \div 2) + 9) \cup (Word - 40 .. Word - 1)
NearEnds == {1, Word \div 2, (Word \div 2) + 1, Word - 1}
TopHash == {0, 1, 79, 80, Word - 1}

NoTx == [inputs |-> <<>>, outputs |-> <<>>, signatures |-> 0]
InputsTried ==
    [type : {"KeyInput"}, amount : NearEnds, key_image : {1, 2}, output_indexes : {<<0, 1>>}]
    \cup [type : {"KeyInput"}, amount : {1}, key_image : {2}, output_indexes : {<<>>, <<1, 0>>, <<3>>}]
    \cup [type : {"CoinbaseInput"}, amount : {0}, key_image : {0}, output_indexes : {<<>>}]
OutputsTried ==
    [type : {"KeyOutput"}, amount : NearEnds \cup {0}, key_valid : {TRUE}]
    \cup [type : {"KeyOutput", "other"}, amount : {1}, key_valid : {FALSE}]

\* x1, x2: operands; x3: a transaction
AmountsInit == x1 = 0 /\ x2 = 0 /\ x3 = NoTx /\ Rest(4)
Untried == part = "amounts" /\ x1 = 0 /\ x2 = 0 /\ x3 = NoTx /\ UNCHANGED <<part, x4, x5, x6, x7>>
TryAmount == Untried /\ (\E x \in 0 .. Word - 1 : x1' = x) /\ UNCHANGED <<x2, x3>>
TryOperands == Untried /\ (\E x \in Operands, y \in 1 .. 15 : x1' = x /\ x2' = y) /\ UNCHANGED x3
TryTransaction ==
    /\ Untried
    /\ \E i \in SeqsUpTo(InputsTried, 2), o \in SeqsUpTo(OutputsTried, 2), n \in 0 .. 2 :
          x3' = [inputs |-> i, outputs |-> o, signatures |-> n]
    /\ UNCHANGED <<x1, x2>>

(***************************************************************************)
(* HttpText: messages with every choice of the fields that are printed     *)
(* conditionally; lengths of four bits, so that fifteen stands for none.   *)
(***************************************************************************)
CR == "CR"
LF == "LF"
Lengths == {0, 9, 14, 15}
HeaderLists == {<<>>, <<<<<<"x">>, <<"y", "SP", "y">>>>>>, <<<<<<"x">>, <<"z">>>>, <<<<"authorization">>, <<"z">>>>>>}
Requests ==
    [kind : {"request"}, method : {"x"}, uri : {<<"/", "x">>}, major : {1}, minor : {0, 1},
     headers : HeaderLists, host : {<<>>, <<"h">>}, auth : {<<>>, <<"y">>},
     keep_alive : BOOLEAN, length : Lengths, status : {<<>>}, status_text : {<<>>}]
Responses ==
    [kind : {"response"}, method : {"x"}, uri : {<<>>}, major : {1}, minor : {0, 1},
     headers : HeaderLists, host : {<<>>}, auth : {<<>>}, keep_alive : BOOLEAN,
     length : Lengths, status : {<<"4", "0", "1">>}, status_text : {<<>>, <<"x", "SP", "y">>}]
Originals == Requests \cup Responses
Free == {m \in Originals : /\ m.length = 15 /\ m.minor = 1 /\ m.keep_alive
                            /\ <<m.headers, m.host, m.auth, m.status_text>> = <<<<>>, <<>>, <<>>, <<>>>>}
HeadPieces ==
    {<<"content-length", ":", "SP", "1", CR, LF>>, <<"content-length", ":", "SP", "9", "9", CR, LF>>,
     <<"connection", ":", "SP", "close", CR, LF>>, <<"x", "(">>, <<"x", ":", "SP", "1", CR, LF>>,
     <<"x", "x">>, <<":", "SP">>, <<"SP", "1", CR, LF>>, <<"HT", CR, LF>>, <<CR, LF>>, <<"CTL">>}
H == INSTANCE HttpText WITH
        Pieces <- HeadPieces, MaxPieces <- 5, NoLength <- 15,
        original <- x1, raw <- x2, text <- x3, read <- x4, state_ <- x5, req <- x6, lowcase <- x7
HeadStep == part = "head" /\ H!Next /\ UNCHANGED part

(***************************************************************************)
(* JsonText: all texts of a few characters over small alphabets, one for   *)
(* structure, one for strings and one for numbers, and values of depth two.*)
(***************************************************************************)
J == INSTANCE JsonText WITH MaxUnsigned <- 25, MaxSigned <- 12, Precision <- 2, text <- x1, value <- x2, done <- x3
Wrap(t) == <<"[">> \o t \o <<"]">>
Texts ==
    SeqsUpTo({"[", "]", ",", "1", " "}, 5)
    \cup SeqsUpTo({"{", "}", "\"", ":", "1"}, 5)
    \cup {<<"{", "\"">> \o t \o <<"}">> : t \in SeqsUpTo({"\"", ":", ",", "1"}, 5)}
    \cup {<<"{", "\"", "a", "\"", ":", "1", ",">> \o t \o <<"}">> : t \in SeqsUpTo({"\"", ":", "2", "a"}, 4)}
    \cup {<<"{", "\"", "a", "\"", ":", "1", ",", "\"">> \o k \o <<"\"", ":", "2", "}">> : k \in SeqsUpTo({"a", " "}, 2)}
    \cup {<<"\"">> \o t \o e : t \in SeqsUpTo({"\"", "\\", "a", "t", "u"}, 4), e \in {<<"\"">>, <<>>}}
    \cup {<<"\"", "\\", c, "\"">> : c \in {"b", "f", "n", "r", "/", "x"}}
    \cup {<<"\"", "\\", "u">> \o t \o <<"\"">> : t \in [1 .. 4 -> {"0", "7", "8", "D", "f"}] \cup {<<"F", "f", "f", "d">>, <<"f", "F", "F", "e">>}}
    \cup {<<"\"", "\\", "u">> \o t \o <<"\"">> : t \in SeqsUpTo({"0", "u"}, 5)}
    \cup {<<"\"", c, "\"">> : c \in J!Control}
    \cup {Wrap(t) : t \in SeqsUpTo({"-", "0", "2", ".", "e"}, 4)}
    \cup SeqsUpTo({"-", "0", "7", ".", "e", " "}, 3)
    \cup SeqsUpTo({"t", "r", "u", "e"}, 4)
    \cup {Wrap(t) : t \in SeqsUpTo({"n", "u", "l"}, 5)}
    \cup {<<"f">> \o t : t \in SeqsUpTo({"a", "l", "s", "e"}, 4)}
Strings == SeqsUpTo({"a", "\"", "\\", "TAB", "LF", "NUL"}, 2)
Leaves == {J!NIL, <<"TRUE", <<>>>>, <<"FALSE", <<>>>>, <<"STRING", <<>>>>, <<"STRING", <<"NUL", "\"">>>>,
           <<"DOUBLE", <<"", <<"1", "0">>, <<"0", "5">>>>>>, <<"DOUBLE", <<"-", <<>>, <<>>>>>>,
           <<"DOUBLE", <<"-", <<"9">>, <<"9", "9", "5">>>>>>, <<"DOUBLE", <<"", <<>>, <<"0", "6", "4">>>>>>}
          \cup {<<"UNSIGNED", n>> : n \in {0, 9, 10, 25}}
          \cup {<<"SIGNED", n>> : n \in {-12, -1, 0, 7}}
Trees == Leaves \cup {<<"ARRAY", a>> : a \in SeqsUpTo(Leaves, 2)}
         \cup UNION {{<<"OBJECT", f>> : f \in [K -> Leaves]} : K \in {{}, {<<>>}, {<<"a">>, <<"\"">>}}}
Values ==
    Trees \cup {<<"STRING", s>> : s \in Strings}
    \cup {<<"ARRAY", <<t>>>> : t \in Trees}
    \cup {<<"OBJECT", [q \in {k} |-> t]>> : k \in Strings, t \in {<<"ARRAY", <<>>>>, <<"OBJECT", [q \in {<<"b">>} |-> J!NIL]>>}}
JsonStep == part = "json" /\ J!Next /\ UNCHANGED <<part, x4, x5, x6, x7>>

(***************************************************************************)
(* JsonUnion: two values and a place to spare.                             *)
(***************************************************************************)
U == INSTANCE JsonUnion WITH
        Slots <- {value1, value2}, Places <- {1, 2, 3}, Contents <- {1, 2}, slot <- x1, heap <- x2, broken <- x3
UnionStep == part = "union" /\ U!Next /\ UNCHANGED <<part, x4, x5, x6, x7>>

(***************************************************************************)
(* BlockHash: blocks of four bytes with a length of two; messages of up to *)
(* eleven bytes in up to three pieces, and all short messages over the     *)
(* byte values that padding uses.                                          *)
(***************************************************************************)
Others == UNION {[1 .. n -> {0, 1, 128}] : n \in 0 .. 4}
B == INSTANCE BlockHash WITH
        B <- 4, L <- 2, W <- 8, OutBytes <- 6, input <- x1, left <- x2, sizes <- x3, ctx <- x4, digest <- x5
Numbered(n) == [k \in 1 .. n |-> 1000 + k]
Pieces(n) == {<<n>>} \cup {<<a, n - a>> : a \in 0 .. n}
             \cup {<<p[1], p[2], n - p[1] - p[2]>> : p \in {q \in (1 .. n) \X (1 .. n) : q[1] + q[2] < n}}
\* keccak has no function for pieces
Inputs ==
    {<<alg, Numbered(n), <<n>>>> : alg \in B!Algs, n \in 0 .. 11}
    \cup UNION {{<<alg, Numbered(n), p>> : alg \in B!Algs \ {"keccak"}, p \in Pieces(n)} : n \in 0 .. 11}
    \cup {<<alg, m, <<Len(m)>>>> : alg \in B!Algs, m \in Others}
HashStep == part = "hash" /\ B!Next /\ UNCHANGED <<part, x6, x7>>

(***************************************************************************)
(* CurveOps: the curve with A = 8 over the field of 37 elements, which has *)
(* forty points; a base point of order five, and scalars of two bytes.     *)
(***************************************************************************)
C == INSTANCE CurveOps WITH
        P <- 37, A <- 8, Ell <- 5, Bytes <- 2, TopBits <- 6, Base <- <<11, 19>>, job <- x1, result <- x2
Moduli == {32749, 32719, 32717, 32713, 32707, 32693, 32687, 32653, 32647,
           32633, 32621, 32611, 32609, 32603, 32587, 32579, 32573, 32569}
Some == {<<4, 15>>, <<9, 17>>, <<0, 36>>, <<15, 30>>}
Low == {0, 1, 7, 8, 9, 15, 16, 23, 24, 119, 120, 127, 128, 129, 135, 136, 170, 240, 247, 248, 255}
Scalars == {<<a, b>> : a \in Low, b \in {0, 1, 8, 15, 31, 63, 85, 120, 127}}
Few == {<<a, b>> : a \in {0, 1, 15, 171, 255}, b \in {0, 1, 85, 127}}
\* the order five, as 5 and as 8 - 3
SmallChain == << <<0, 5>> >>
LongChain == << <<0, 1>>, <<3, -3>> >>
CurveJobs ==
    {<<"add", q, r, z[1], z[2]>> : q \in C!Curve, r \in C!Curve, z \in {<<1, 1>>, <<5, 22>>}}
    \cup {<<"multiply", a, q>> : a \in Scalars, q \in Some}
    \cup {<<"two", a, q, b, <<11, 19>>>> : a \in Few, b \in Few, q \in Some}
    \cup {<<"decode", <<y, sign>>>> : y \in 0 .. 63, sign \in 0 .. 1}
    \cup {<<"hash", s>> : s \in 0 .. 127}
    \cup {<<"subgroup", q, chain>> : q \in C!Curve, chain \in {SmallChain, LongChain}}
    \cup {<<"chains", m>> : m \in Moduli}
    \cup {<<"valid", s, <<1, 2, 1>>>> : s \in [1 .. 3 -> 0 .. 3]}
CurveStep == part = "curve" /\ C!Next /\ UNCHANGED <<part, x3, x4, x5, x6, x7>>

(***************************************************************************)
(* Crypto: a group of 8 * 10007 points and hashes that mix their arguments.*)
(***************************************************************************)
Mix(buf) ==
    LET square(x) == ((x % 23279) * (x % 23279)) % 23279
        f[i \in 0 .. Len(buf)] == IF i = 0 THEN 1 ELSE (f[i - 1] * 5003 + 7 * square(buf[i]) + buf[i]) % 23279 IN
    f[Len(buf)]
MixScalar(buf) == Mix(buf) * 3 + 5
MixPoint(key) == Mix(<<key, 77>>) % (8 * 10007)
S == INSTANCE Crypto WITH
        Ell <- 10007, HashScalar <- MixScalar, HashPoint <- MixPoint, job <- x1, result <- x2
Bytes == {0, 1, 10006, 10007, 25000}
Small == {0, 10007, 4 * 10007, 7 * 10007}
Rings == {<<0>>, <<0, 8>>, <<0, 24, 3000>>, <<16, 16, 16>>}
Random == <<[c |-> 3, r |-> 10006], [c |-> 0, r |-> 0], [c |-> 999, r |-> 12]>>
CryptoJobs ==
    {<<"output", tx, view, s, i, suffix, small>> :
        tx \in Bytes, view \in Bytes, s \in Bytes, i \in {0, 127, 128, 300}, suffix \in {<<>>, <<5>>}, small \in Small}
    \cup {<<"sign", s, m, k, change>> :
        s \in Bytes, m \in {1, 2}, k \in Bytes, change \in {"none", "message", "c", "r", "key"}}
    \cup {<<"ring", s, ring, 1, k, SubSeq(Random, 1, Len(ring)), change, small>> :
        s \in Bytes \ {0, 10007}, ring \in Rings, k \in Bytes,
        change \in {"none", "message", "image", "member", "c", "r"}, small \in Small}
    \cup {<<"ring", s, ring, 2, k, SubSeq(Random, 1, Len(ring)), "none", small>> :
        s \in Bytes \ {0, 10007}, ring \in Rings \ {<<0>>}, k \in Bytes, small \in Small}
    \cup {<<"proof", tx, view, k, change, small>> :
        tx \in Bytes, view \in Bytes, k \in Bytes,
        change \in {"none", "message", "derivation", "receiver"}, small \in Small}
CryptoStep == part = "crypto" /\ S!Next /\ UNCHANGED <<part, x3, x4, x5, x6, x7>>

(***************************************************************************)
(* All parts                                                               *)
(***************************************************************************)
ASSUME PartsAssumption ==
    /\ KV!GroupAssumption /\ U!PlacesAssumption
    /\ B!HashAssumption /\ C!CurveAssumption /\ S!EllAssumption

Init ==
    \/ part = "varint" /\ VarintInit
    \/ part = "amounts" /\ AmountsInit
    \/ part = "head" /\ H!Init
    \/ part = "json" /\ J!Init(Texts, Values) /\ Rest(4)
    \/ part = "union" /\ U!Init /\ Rest(4)
    \/ part = "hash" /\ B!Init(Inputs) /\ Rest(6)
    \/ part = "curve" /\ C!Init(CurveJobs) /\ Rest(3)
    \/ part = "crypto" /\ S!Init(CryptoJobs) /\ Rest(3)

Next ==
    \/ NextByte \/ TryAmount \/ TryOperands \/ TryTransaction
    \/ HeadStep \/ JsonStep \/ UnionStep \/ HashStep \/ CurveStep \/ CryptoStep
Spec == Init /\ [][Next]_vars

(***************************************************************************)
(* Properties                                                              *)
(***************************************************************************)
\* Numbers and texts are read and computed exactly: both readers of variable
\* length integers accept one form of each value, keys of the data base sort as
\* their values, products, penalties and the test of a proof of work are those
\* of unlimited integers, no sum of a valid transaction has wrapped around, and
\* split amounts add up to what they were; printed amounts are read back as what
\* they were exactly if no zeros begin the digits behind the cents; heads of HTTP
\* messages end at their blank line with the length of their last Content-Length;
\* and JSON texts mean what a grammar and UTF-8 say or are refused, exactly but
\* for two cases: a number at the very end is refused, and a code past ASCII
\* becomes other bytes, those of UTF-8 in the reverse order (Varint.hpp,
\* Streams.cpp, int-util.h, CryptoNoteTools.cpp, Currency.cpp, RequestParser.cpp,
\* ResponseParser.cpp, JsonValue.cpp).
EncodingsExact ==
    /\ part = "varint" =>
        /\ KV!StreamExact(Bits, x1) /\ KV!ArraysAgree(Bits, x1) /\ KV!DataFits(Bits, x1)
        /\ KV!KeysOrdered(x2) /\ KV!KeysReadBack(x2)
    /\ part = "amounts" =>
        /\ Am!LongArithmetic(x1, x2) /\ Am!PenaltyMonotone(x1, x2) /\ Am!WorkExact(x1, x2, TopHash)
        /\ Am!NothingFromOverflow(x3)
        /\ Am!SplitAddsUp(x1, 9, 3) /\ Am!ReadsBack(x1)
    /\ part = "head" => H!RoundTrip /\ H!EndsAtBlankLine /\ H!FramingFromHeaders
    /\ part = "json" => J!ParsesMeaning /\ J!RoundTrip

\* Whatever copies, moves and assignments are made between JSON values, to
\* themselves too, and wherever memory runs out, what they hold is owned by
\* one of them, destroyed once and never read as another type, and has the
\* meaning of the value it was taken from (JsonValue.cpp).
ValuesOwned ==
    /\ [](part = "union" => U!OwnedOnce /\ U!NeverBroken)
    /\ [][part = "union" => U!AssignsRight]_vars

\* However a message is cut into pieces and however long it is, the hash
\* functions absorb exactly the blocks, counters and flags of their
\* definitions, and no two messages are padded alike (skein.c, blake256.c,
\* groestl.c, jh.c; keccak.c for whole messages, the only ones it takes).  Of the
\* pieces blake256_update is given, an empty one or one of a whole block or more
\* may follow a partial block only where it fills that block: with any other the
\* hash is not that of the message.
HashesExact == part = "hash" => B!AbsorbsDefined /\ B!Injective /\ B!BufferBounded

\* The formulas, recodings and window methods of crypto-ops.c are the group
\* law, points have one encoding, hashes are mapped to the curve, points of
\* small order are told apart and the unrolled chains are those of the real
\* field and order; outputs are found and spent by their receiver, and
\* signatures, ring signatures and proofs of sending are accepted as made and
\* refused after any change, also with points of small order and numbers out of
\* range (crypto.cpp).
SignaturesExact ==
    /\ part = "curve" =>
        /\ C!GroupLaw /\ C!MultiplesExact /\ C!EncodingUnique /\ C!HashOnCurve
        /\ C!SubgroupExact /\ C!ChainsExact /\ C!ValidExact
    /\ part = "crypto" => S!OutputsFound /\ S!SignatureExact /\ S!RingExact /\ S!ProofExact
=============================================================================
