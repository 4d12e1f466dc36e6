------------------------------ MODULE Amounts -------------------------------
(***************************************************************************)
(* Arithmetic on amounts of money: the rules of one transaction            *)
(* (BlockChainState.cpp, CryptoNoteTools.cpp), the split of an amount into *)
(* outputs, the penalty of large blocks, the test of a proof of work and   *)
(* the text of an amount (Currency.cpp, Difficulty.cpp, int-util.h).       *)
(***************************************************************************)
EXTENDS Integers, Sequences, SequencesExt

CONSTANTS Half,      \* 2^32: a word has two halves, and is the type of an amount
          Radix,     \* 10, the base of written numbers
          Places     \* CRYPTONOTE_DISPLAY_DECIMAL_POINT
ASSUME AmountsAssumption == Half \in Nat \ {0, 1} /\ Radix \in Nat \ {0, 1} /\ Places \in Nat \ {0, 1}

Word == Half * Half
Thousand == Radix ^ 3

(***************************************************************************)
(* Long arithmetic (int-util.h): two words, the upper one first            *)
(***************************************************************************)
hi_dword(x) == x \div Half
lo_dword(x) == x % Half

mul128(multiplier, multiplicand) ==
    LET a == hi_dword(multiplier)    b == lo_dword(multiplier)
        c == hi_dword(multiplicand)  d == lo_dword(multiplicand)
        adbc == (a * d + b * c) % Word
        adbc_carry == IF adbc < a * d THEN 1 ELSE 0
        product_lo == (b * d + (adbc % Half) * Half) % Word
        product_lo_carry == IF product_lo < b * d THEN 1 ELSE 0
    IN <<(a * c + hi_dword(adbc) + adbc_carry * Half + product_lo_carry) % Word, product_lo>>

\* one step of the division: quotient and remainder
div_with_remainder(dividend, divisor, remainder) ==
    <<(remainder * Half + dividend) \div divisor, (remainder * Half + dividend) % divisor>>
div128_32(n, divisor) ==
    LET dividend == <<hi_dword(n[1]), lo_dword(n[1]), hi_dword(n[2]), lo_dword(n[2])>>
        q[k \in 0 .. 4] == IF k = 0 THEN <<0, 0>> ELSE div_with_remainder(dividend[k], divisor, q[k - 1][2])
    IN <<q[1][1] * Half + q[2][1], q[3][1] * Half + q[4][1]>>

\* A reward or fee in a block larger than the median.  Asserted on entry:
\* the block is at most twice the median.
get_penalized_amount(amount, median_size, current_block_size) ==
    IF amount = 0 THEN 0
    ELSE IF current_block_size <= median_size THEN amount
    ELSE LET product == mul128(amount, (current_block_size * (2 * median_size - current_block_size)) % Word) IN
         div128_32(div128_32(product, median_size), median_size)[2]

\* hash is four words, the lowest first: whether hash * difficulty has no fifth
cadd(a, b) == (a + b) % Word < a
cadc(a, b, c) == (a + b) % Word < a \/ (c /\ (a + b) % Word = Word - 1)
check_hash(hash, difficulty) ==
    LET m0 == mul128(hash[1], difficulty)
        m1 == mul128(hash[2], difficulty)
        m2 == mul128(hash[3], difficulty)
        m3 == mul128(hash[4], difficulty)
        carry == cadc(m1[1], m2[2], cadd(m0[1], m1[2]))
    IN m3[1] = 0 /\ ~cadc(m2[1], m3[2], carry)

(***************************************************************************)
(* The rules of one transaction                                            *)
(***************************************************************************)
Sum(s) ==
    LET From[k \in 0 .. Len(s)] == IF k = 0 THEN 0 ELSE From[k - 1] + s[k] IN From[Len(s)]
Field(s, f) == [k \in 1 .. Len(s) |-> s[k][f]]

\* Some prefix of the amounts is more than a word holds.
Overflows(s) == \E k \in 1 .. Len(s) : Sum(SubSeq(s, 1, k)) > Word - 1

OutputWrong(o, check_key) ==
    \/ o.amount = 0
    \/ o.type # "KeyOutput"
    \/ check_key /\ ~o.key_valid
\* the first index is a position, the others are distances
RepeatsIndex(in) == \E k \in 2 .. Len(in.output_indexes) : in.output_indexes[k] = 0
InputWrong(tx, k) ==
    LET in == tx.inputs[k] IN
    \/ in.type # "KeyInput"
    \/ \E j \in 1 .. k - 1 : tx.inputs[j].key_image = in.key_image
    \/ in.output_indexes = <<>>
    \/ RepeatsIndex(in)

\* Whether validate_semantic returns no error, for a transaction that is not
\* the coinbase (nobody calls it with generating).
validate_semantic(tx, check_output_key) ==
    /\ tx.inputs # <<>>
    /\ \A k \in 1 .. Len(tx.outputs) : ~OutputWrong(tx.outputs[k], check_output_key)
    /\ ~Overflows(Field(tx.outputs, "amount"))
    /\ \A k \in 1 .. Len(tx.inputs) : ~InputWrong(tx, k)
    /\ ~Overflows(Field(tx.inputs, "amount"))
    /\ Sum(Field(tx.outputs, "amount")) <= Sum(Field(tx.inputs, "amount"))
    /\ tx.signatures = Len(tx.inputs)

\* The fee of a transaction that is not validated yet: sums wrap around.
NoFee == -1
IsKeyInput(in) == in.type = "KeyInput"
get_tx_fee(tx) ==
    LET amount_in == Sum(Field(SelectSeq(tx.inputs, IsKeyInput), "amount")) % Word
        amount_out == Sum(Field(tx.outputs, "amount")) % Word
    IN IF amount_in < amount_out THEN NoFee ELSE amount_in - amount_out

(***************************************************************************)
(* The split of an amount into outputs                                     *)
(***************************************************************************)
dust_handler(dust) == SelectSeq(<<dust % Thousand, dust - (dust % Thousand)>>, LAMBDA d : d # 0)

Split(amount, order, dust, handled, out) ==
    [amount |-> amount, order |-> order, dust |-> dust, handled |-> handled, out |-> out]
SplitDone(s) == s.out \o (IF ~s.handled /\ s.dust # 0 THEN dust_handler(s.dust) ELSE <<>>)
SplitStep(s, dust_threshold) ==
    LET chunk == ((s.amount % Radix) * s.order) % Word
        rest == s.amount \div Radix
        order == (s.order * Radix) % Word
        flush == ~s.handled /\ s.dust # 0 IN
    IF s.dust + chunk <= dust_threshold THEN Split(rest, order, s.dust + chunk, s.handled, s.out)
    ELSE Split(rest, order, s.dust, s.handled \/ flush,
               s.out \o (IF flush THEN dust_handler(s.dust) ELSE <<>>) \o (IF chunk # 0 THEN <<chunk>> ELSE <<>>))
decompose_amount(amount, dust_threshold) ==
    LET Loop[k \in 0 .. amount] ==
          IF k = 0 THEN Split(amount, 1, 0, FALSE, <<>>)
          ELSE LET s == Loop[k - 1] IN IF s.amount = 0 THEN s ELSE SplitStep(s, dust_threshold)
        Digits == CHOOSE n \in 0 .. amount : Radix ^ n > amount
    IN SplitDone(Loop[Digits])

\* the outputs of a coinbase transaction: the last ones are joined
MinerOutputs(amounts, max_outs) ==
    LET outs == IF max_outs = 0 THEN 1 ELSE max_outs IN
    IF Len(amounts) <= outs THEN amounts
    ELSE Append(SubSeq(amounts, 1, outs - 1), Sum(SubSeq(amounts, outs, Len(amounts))))

(***************************************************************************)
(* The text of an amount, a sequence of characters: digits are numbers.    *)
(***************************************************************************)
Point == -1
Mark == -2       \* ' between groups of digits
Blank == -3
Letter == -4     \* any other character

to_string(n) ==
    LET Text[k \in 0 .. n] == IF k < Radix THEN <<k>> ELSE Append(Text[k \div Radix], k % Radix) IN Text[n]
ffw(n, digits) ==
    LET result == to_string(n) IN
    (IF Len(result) < digits THEN [k \in 1 .. digits - Len(result) |-> 0] ELSE <<>>) \o result

PRETTY_AMOUNTS(limit) == {d * Radix ^ k : d \in 1 .. Radix - 1, k \in 0 .. Len(to_string(limit)) - 1}
is_dust(amount, least) == amount \notin PRETTY_AMOUNTS(amount) \/ amount < least

DECIMAL_PLACES(k) == Radix ^ k
format_amount(places, amount) ==
    LET ia == amount \div DECIMAL_PLACES(places)
        fa == amount - ia * DECIMAL_PLACES(places)
        rest == fa % DECIMAL_PLACES(places - 2)     \* what is behind the cents
        Grouped[n \in 0 .. ia] ==
          IF n < Thousand THEN to_string(n) ELSE Grouped[n \div Thousand] \o <<Mark>> \o ffw(n % Thousand, 3)
    IN Grouped[ia]
       \o (IF fa # 0 THEN <<Point>> \o ffw(fa \div DECIMAL_PLACES(places - 2), 2) ELSE <<>>)
       \o (IF rest # 0 THEN <<Mark>> \o ffw(rest \div Thousand, 3) ELSE <<>>)
       \o (IF rest % Thousand # 0 THEN <<Mark>> \o ffw(rest % Thousand, 3) ELSE <<>>)

trim(str) ==
    LET Ink == {k \in 1 .. Len(str) : str[k] # Blank} IN
    IF Ink = {} THEN <<>> ELSE SubSeq(str, Min(Ink), Max(Ink))
erase_all(str, c) == SelectSeq(str, LAMBDA x : x # c)
find_first_of(str, c) == SelectInSeq(str, LAMBDA x : x = c)     \* 0 when there is none
isdigit(c) == c >= 0

\* The value, or Refused.  Surplus zeros behind the point are removed and missing
\* ones added; a value that a word does not hold fails in the stream.
Refused == -1
parse_amount(places, str) ==
    LET text == erase_all(trim(str), Mark)
        point_index == find_first_of(text, Point)
        fraction_size == IF point_index = 0 THEN 0 ELSE Len(text) - point_index
        Surplus[n \in 0 .. Len(text)] ==     \* zeros erased when n are
          IF places < fraction_size - n /\ text[Len(text) - n] = 0 THEN Surplus[n + 1] ELSE n
        surplus == Surplus[0]
        kept == SubSeq(text, 1, Len(text) - surplus)
        digits == IF point_index = 0 THEN kept ELSE RemoveAt(kept, point_index)
        missing == places - (fraction_size - surplus)
        Value[k \in 0 .. Len(digits)] == IF k = 0 THEN 0 ELSE Value[k - 1] * Radix + digits[k]
        amount == Value[Len(digits)] * Radix ^ missing
    IN IF missing < 0 \/ digits = <<>> THEN Refused
       ELSE IF \E k \in 1 .. Len(digits) : ~isdigit(digits[k]) THEN Refused
       ELSE IF amount >= Word THEN Refused ELSE amount

(***************************************************************************)
(* Properties                                                              *)
(***************************************************************************)
\* The product of two words, of which one is any and one is near an end, is
\* exact, and so is its quotient by half a word (mul128 where the compiler
\* has no wide type, div128_32).
LongArithmetic(a, b) ==
    \A y \in {b, Word - 1 - b} :
        LET p == mul128(a, y) IN
        /\ p[1] * Word + p[2] = a * y
        /\ b # 0 => LET q == div128_32(p, b) IN q[1] * Word + q[2] = (a * y) \div b

\* A penalty never raises an amount, takes nothing within the median and all
\* at twice the median, and a larger block is never paid more.
PenaltyMonotone(a, b) ==
    b # 0 => \A size \in 0 .. 2 * b :
        LET paid == get_penalized_amount(a, b, size) IN
        /\ size <= b => paid = a
        /\ size > b => paid = (a * size * (2 * b - size)) \div (b * b)
        /\ size > b /\ a # 0 => paid < a /\ paid <= get_penalized_amount(a, b, size - 1)

\* A proof of work is accepted exactly when hash * difficulty fits the hash:
\* the schoolbook multiplication leaves no carry.
WorkExact(a, b, tops) ==
    \A top \in tops, d \in {b, Half + b, Word - 1 - b} :
        LET h == <<a, (a + b) % Word, (b * Half + top) % Word, top>>
            Carry[k \in 0 .. 4] == IF k = 0 THEN 0 ELSE (h[k] * d + Carry[k - 1]) \div Word IN
        check_hash(h, d) <=> Carry[4] = 0

\* The amounts of a transaction that passes are what they seem: no sum has
\* wrapped around, the fee that was added up before the check is the
\* difference, and no output is spent twice within the transaction.
NothingFromOverflow(tx) ==
    validate_semantic(tx, TRUE) =>
        /\ get_tx_fee(tx) # NoFee
        /\ Sum(Field(tx.inputs, "amount")) = Sum(Field(tx.outputs, "amount")) + get_tx_fee(tx)
        /\ \A j, k \in 1 .. Len(tx.inputs) : j # k => tx.inputs[j].key_image # tx.inputs[k].key_image

\* The outputs an amount is split into add up to it, before and after the
\* last ones of a coinbase are joined, none of them is zero, and only the
\* dust, which is at most two outputs, is no round number.
SplitAddsUp(a, least, outs) ==
    LET parts == decompose_amount(a, least)
        IsDusty(p) == is_dust(p, 0) IN
    /\ Sum(parts) = a
    /\ Sum(MinerOutputs(parts, outs)) = a
    /\ Len(MinerOutputs(parts, outs)) <= IF outs = 0 THEN 1 ELSE outs
    /\ 0 \notin ToSet(parts)
    /\ Sum(SelectSeq(parts, IsDusty)) <= least /\ Len(SelectSeq(parts, IsDusty)) <= 2

\* Behind the cents format_amount writes two groups, of which only the last
\* has a fixed number of digits for any number of places, and nothing keeps the
\* zeros before them: with the ten places of the currency an amount is read back
\* as itself only if the part behind its cents is none or fills its digits, and
\* as another one otherwise.  Blanks around it and zeros after its fraction do
\* not matter; any other character makes it no amount.
ReadsBack(a) ==
    LET text == format_amount(Places, a)
        rest == a % Radix ^ (Places - 2)
        Complete == Places = 8 \/ rest = 0 \/ rest * Radix >= Radix ^ (Places - 2)
        padded == <<Blank>> \o text \o <<Blank>>
        longer == text \o (IF Point \in ToSet(text) THEN <<>> ELSE <<Point>>) \o [k \in 1 .. Places |-> 0] IN
    /\ Complete <=> parse_amount(Places, text) = a
    /\ Complete =>
           /\ parse_amount(Places, padded) = a
           /\ parse_amount(Places, longer) = a
    /\ parse_amount(Places, text \o <<Letter>>) = Refused
    /\ parse_amount(Places, <<Blank, Mark>> \o <<Blank>> \o text) = Refused
=============================================================================
