------------------------------ MODULE JsonText ------------------------------
(***************************************************************************)
(* common/JsonValue.cpp, from text to values and back: the recursive       *)
(* descent over an input stream, with the state bits of the stream, and    *)
(* the printer.  A text is a sequence of characters, which are named by    *)
(* themselves or as in ASCII; a value is a pair of its type and its        *)
(* content.  Integers have few digits and a small range, reals are decimal.*)
(***************************************************************************)
EXTENDS Integers, Sequences, SequencesExt

CONSTANTS MaxUnsigned,   \* the largest unsigned integer
          MaxSigned,     \* minus the smallest signed integer
          Precision      \* 11: decimal places that are printed

Digits == {"0", "1", "2", "3", "4", "5", "6", "7", "8", "9"}
DigitSeq == <<"0", "1", "2", "3", "4", "5", "6", "7", "8", "9">>
Digit(c) == (CHOOSE i \in 1 .. 10 : DigitSeq[i] = c) - 1
Control == {"NUL", "BS", "TAB", "LF", "FF", "CR", "DEL"}
Space == {" ", "TAB", "LF", "FF", "CR"}

\* the codes of the characters in the texts; any other byte is named by its code
Table == {<<"NUL", 0>>, <<"BS", 8>>, <<"TAB", 9>>, <<"LF", 10>>, <<"FF", 12>>, <<"CR", 13>>, <<" ", 32>>, <<"\"", 34>>,
          <<",", 44>>, <<"/", 47>>, <<":", 58>>, <<"\\", 92>>, <<"a", 97>>, <<"b", 98>>, <<"t", 116>>, <<"u", 117>>,
          <<"DEL", 127>>} \cup {<<DigitSeq[i], 47 + i>> : i \in 1 .. 10}
Code(c) == (CHOOSE e \in Table : e[1] = c)[2]
Byte(n) == LET named == {e \in Table : e[2] = n} IN
           IF named = {} THEN ToString(256 + n) ELSE (CHOOSE e \in named : TRUE)[1]
AsBytes(ns) == [i \in 1 .. Len(ns) |-> Byte(ns[i])]
HexDigits == Digits \cup {"a", "b", "c", "d", "e", "f", "A", "B", "C", "D", "E", "F"}
HexSeq == <<{"0"}, {"1"}, {"2"}, {"3"}, {"4"}, {"5"}, {"6"}, {"7"}, {"8"}, {"9"},
            {"a", "A"}, {"b", "B"}, {"c", "C"}, {"d", "D"}, {"e", "E"}, {"f", "F"}>>
from_hex(c) == (CHOOSE i \in 1 .. 16 : c \in HexSeq[i]) - 1

(***************************************************************************)
(* Numbers: the conversions of the standard library that the code calls    *)
(***************************************************************************)
Least(a, b) == IF a <= b THEN a ELSE b
Number(text) == FoldLeft(LAMBDA n, c : n * 10 + Digit(c), 0, text)
RECURSIVE Decimal(_)
Decimal(n) == IF n < 10 THEN <<DigitSeq[n + 1]>> ELSE Append(Decimal(n \div 10), DigitSeq[(n % 10) + 1])

\* out of range: the nearest number, and the stream that fails is thrown away
to_unsigned(text) == IF text = <<"-">> THEN 0 ELSE Least(Number(text), MaxUnsigned)
to_signed(text) == -Least(Number(Tail(text)), MaxSigned)

\* <<sign, digits before the point, digits after it>>, no needless zeros
RECURSIVE Trim(_, _)
Trim(s, fromLeft) ==
    IF s = <<>> THEN s
    ELSE IF fromLeft THEN (IF Head(s) = "0" THEN Trim(Tail(s), TRUE) ELSE s)
    ELSE IF Last(s) = "0" THEN Trim(Front(s), FALSE) ELSE s
RECURSIVE Shifted(_, _, _)
Shifted(whole, part, n) ==
    IF n = 0 THEN <<whole, part>>
    ELSE IF n > 0 THEN Shifted(Append(whole, IF part = <<>> THEN "0" ELSE Head(part)),
                               IF part = <<>> THEN part ELSE Tail(part), n - 1)
    ELSE Shifted(IF whole = <<>> THEN whole ELSE Front(whole),
                 <<IF whole = <<>> THEN "0" ELSE Last(whole)>> \o part, n + 1)
to_real(sign, whole, part, exponent) ==
    LET d == Shifted(whole, part, exponent) IN
    IF whole \o part = <<>> THEN <<"", <<>>, <<>>>>
    ELSE <<sign, Trim(d[1], TRUE), Trim(d[2], FALSE)>>

(***************************************************************************)
(* Printing                                                                *)
(***************************************************************************)
NIL == <<"NIL", <<>>>>
\* letters that name control characters after a backslash
Named == [b |-> "BS", t |-> "TAB", n |-> "LF", f |-> "FF", r |-> "CR"]
escape_char(c) ==
    IF c \in {"\\", "\""} THEN <<"\\", c>>
    ELSE IF \E n \in DOMAIN Named : Named[n] = c THEN <<"\\", CHOOSE n \in DOMAIN Named : Named[n] = c>>
    ELSE IF c = "NUL" THEN <<"\\", "u", "0", "0", "0", "0">>     \* as for the other codes below " "
    ELSE <<c>>
escape_string(str) == FlattenSeq([i \in 1 .. Len(str) |-> escape_char(str[i])])
Quoted(str) == <<"\"">> \o escape_string(str) \o <<"\"">>

\* the order of the keys in the map
Rank(key) == FoldLeft(LAMBDA n, c : 256 * n + Code(c) + 1, 0, key)
Sorted(keys) == SetToSortSeq(keys, LAMBDA k, l : Rank(k) < Rank(l))

\* A real with a fixed number of places, of which the last zeros are cut off,
\* but not the one behind the point.
Fixed(v) ==
    LET whole == v[2]
        part == v[3]
        n == Number(whole \o SubSeq(part, 1, Precision)) + (IF Digit(part[Precision + 1]) >= 5 THEN 1 ELSE 0)
        digits == [i \in 1 .. Precision |-> "0"] \o Decimal(n)
        cut == Len(digits) - Precision IN
    IF Len(part) <= Precision THEN v
    ELSE <<v[1], Trim(SubSeq(digits, 1, cut), TRUE), Trim(SubSeq(digits, cut + 1, Len(digits)), FALSE)>>
FixedText(v) ==
    (IF v[1] = "-" THEN <<"-">> ELSE <<>>) \o (IF v[2] = <<>> THEN <<"0">> ELSE v[2]) \o <<".">>
    \o (IF v[3] = <<>> THEN <<"0">> ELSE v[3])

Joined(parts) == FlattenSeq([i \in 1 .. Len(parts) |-> IF i = 1 THEN parts[i] ELSE <<",">> \o parts[i]])

RECURSIVE to_string(_)
to_string(v) ==
    CASE v[1] = "ARRAY" -> <<"[">> \o Joined([i \in 1 .. Len(v[2]) |-> to_string(v[2][i])]) \o <<"]">>
      [] v[1] = "OBJECT" ->
            LET keys == Sorted(DOMAIN v[2]) IN
            <<"{">> \o Joined([i \in 1 .. Len(keys) |-> Quoted(keys[i]) \o <<":">> \o to_string(v[2][keys[i]])])
                    \o <<"}">>
      [] v[1] = "TRUE" -> <<"t", "r", "u", "e">>
      [] v[1] = "FALSE" -> <<"f", "a", "l", "s", "e">>
      [] v[1] = "NIL" -> <<"n", "u", "l", "l">>
      [] v[1] = "UNSIGNED" -> Decimal(v[2])
      [] v[1] = "SIGNED" -> IF v[2] < 0 THEN <<"-">> \o Decimal(-v[2]) ELSE Decimal(v[2])
      [] v[1] = "DOUBLE" -> FixedText(Fixed(v[2]))
      [] v[1] = "STRING" -> Quoted(v[2])

(***************************************************************************)
(* The stream: p characters are read.  A function that reads returns its   *)
(* result and the stream, or throws.                                       *)
(***************************************************************************)
Open(text) == [s |-> text, p |-> 0, eof |-> FALSE, fail |-> FALSE]
Thrown == <<"THROWN", <<>>>>
Good(in) == ~in.eof /\ ~in.fail
Rest(in) == SubSeq(in.s, in.p + 1, Len(in.s))

\* the next character, which stays; looking again after the end fails
peek(in) ==
    IF ~Good(in) THEN <<"END", [in EXCEPT !.fail = TRUE]>>
    ELSE IF in.p = Len(in.s) THEN <<"END", [in EXCEPT !.eof = TRUE]>>
    ELSE <<in.s[in.p + 1], in>>
Skip(in, n) == [in EXCEPT !.p = @ + n]

\* >> c skips white space
read_non_ws_char(in) ==
    LET at == {i \in in.p + 1 .. Len(in.s) : in.s[i] \notin Space} IN
    IF ~Good(in) \/ at = {} THEN <<"THROWN", in>>
    ELSE LET i == CHOOSE i \in at : \A j \in at : i <= j IN <<in.s[i], [in EXCEPT !.p = i]>>

\* what is appended for a code, the low bits first
Appended(cp) ==
    AsBytes(IF cp < 128 THEN <<cp>>
            ELSE IF cp < 2048 THEN <<128 + (cp % 64), 192 + (cp \div 64)>>
            ELSE <<128 + (cp % 64), 128 + ((cp \div 64) % 64), 224 + (cp \div 4096)>>)

\* what the characters after a backslash stand for, and how many they are
CodePoint(hex) == FoldLeft(LAMBDA n, c : n * 16 + from_hex(c), 0, hex)
Supported(cp) == ~(cp >= 55296 /\ cp <= 57343) /\ cp < 65534     \* no surrogates
IsCode(s) == Len(s) >= 5 /\ s[1] = "u" /\ (\A i \in 2 .. 5 : s[i] \in HexDigits)
Unescape(rest) ==
    IF rest = <<>> THEN <<Thrown, 0>>
    ELSE IF rest[1] \in {"\\", "\"", "/"} THEN <<<<rest[1]>>, 1>>
    ELSE IF rest[1] \in DOMAIN Named THEN <<<<Named[rest[1]]>>, 1>>
    ELSE IF ~IsCode(rest) THEN <<Thrown, 0>>
    ELSE LET cp == CodePoint(SubSeq(rest, 2, 5)) IN
         IF Supported(cp) THEN <<Appended(cp), 5>> ELSE <<Thrown, 0>>

RECURSIVE read_string_token(_, _)
read_string_token(in, value) ==
    LET rest == Rest(in) IN
    IF rest = <<>> \/ Head(rest) \in Control THEN <<Thrown, in>>
    ELSE IF Head(rest) = "\"" THEN <<<<"STRING", value>>, Skip(in, 1)>>
    ELSE IF Head(rest) # "\\" THEN read_string_token(Skip(in, 1), Append(value, Head(rest)))
    ELSE LET u == Unescape(Tail(rest)) IN
         IF u[1] = Thrown THEN <<Thrown, in>>
         ELSE read_string_token(Skip(in, 1 + u[2]), value \o u[1])

\* Too few characters: what is compared was never set.  The stream has failed, so
\* the text is refused whether the comparison succeeds or not.
read_word(in, word, v) ==
    IF Len(Rest(in)) < Len(word) THEN <<v, [in EXCEPT !.eof = TRUE, !.fail = TRUE]>>
    ELSE IF SubSeq(Rest(in), 1, Len(word)) = word THEN <<v, Skip(in, Len(word))>>
    ELSE <<Thrown, in>>
read_true(in) == read_word(in, <<"r", "u", "e">>, <<"TRUE", <<>>>>)
read_false(in) == read_word(in, <<"a", "l", "s", "e">>, <<"FALSE", <<>>>>)
read_null(in) == read_word(in, <<"u", "l", "l">>, NIL)

\* the run of characters of set, and the stream after looking at what ends it
RECURSIVE Run(_, _, _)
Run(in, set, text) ==
    LET c == peek(in) IN
    IF c[1] \in set THEN Run(Skip(in, 1), set, Append(text, c[1])) ELSE <<text, c[2]>>

WithoutSign(text) == IF text # <<>> /\ Head(text) = "-" THEN Tail(text) ELSE text
BeforePoint(text) == SelectInSeq(text, LAMBDA c : c = ".")
read_real(in, text, exponent) ==
    LET t == WithoutSign(text)
        point == BeforePoint(t)
        whole == IF point = 0 THEN t ELSE SubSeq(t, 1, point - 1)
        part == IF point = 0 THEN <<>> ELSE SubSeq(t, point + 1, Len(t)) IN
    <<<<"DOUBLE", to_real(IF Head(text) = "-" THEN "-" ELSE "", whole, part, exponent)>>, in>>

read_exponent(in, text) ==
    LET e == Skip(in, 1)
        sign == peek(e)
        from == IF sign[1] \in {"+", "-"} THEN Skip(e, 1) ELSE e
        ds == Run(from, Digits, <<>>) IN
    IF ds[1] = <<>> THEN <<Thrown, in>>
    ELSE read_real(ds[2], text, IF sign[1] = "-" THEN -Number(ds[1]) ELSE Number(ds[1]))

read_number(in, c) ==
    LET run == Run(in, Digits \cup {"."}, <<c>>)
        text == run[1]
        pee == peek(run[2])
        dots == Cardinality({i \in DOMAIN text : text[i] = "."}) IN
    IF dots > 1 THEN <<Thrown, in>>
    ELSE IF pee[1] \in {"e", "E"} THEN read_exponent(pee[2], text)
    ELSE IF dots = 1 THEN read_real(pee[2], text, 0)
    ELSE IF Len(text) > 1 /\ (c = "0" \/ (c = "-" /\ text[2] = "0")) THEN <<Thrown, in>>
    ELSE IF Len(text) > 1 /\ c = "-" THEN <<<<"SIGNED", to_signed(text)>>, pee[2]>>
    ELSE <<<<"UNSIGNED", to_unsigned(text)>>, pee[2]>>

RECURSIVE read_value(_), read_array(_, _), read_object(_, _, _)
read_value(in) ==
    LET c == read_non_ws_char(in) IN
    CASE c[1] = "[" -> LET d == read_non_ws_char(c[2]) IN
                       IF d[1] = "]" THEN <<<<"ARRAY", <<>>>>, d[2]>>
                       ELSE IF d[1] = "THROWN" THEN <<Thrown, in>>
                       ELSE read_array(Skip(d[2], -1), <<>>)
      [] c[1] = "{" -> LET d == read_non_ws_char(c[2]) IN
                       IF d[1] = "}" THEN <<<<"OBJECT", <<>>>>, d[2]>> ELSE read_object(d[2], d[1], <<>>)
      [] c[1] = "t" -> read_true(c[2])
      [] c[1] = "f" -> read_false(c[2])
      [] c[1] = "n" -> read_null(c[2])
      [] c[1] \in Digits \cup {"-"} -> read_number(c[2], c[1])
      [] c[1] = "\"" -> read_string_token(c[2], <<>>)
      [] OTHER -> <<Thrown, in>>

read_array(in, value) ==
    LET v == read_value(in)
        c == read_non_ws_char(v[2]) IN
    IF v[1] = Thrown \/ c[1] \notin {"]", ","} THEN <<Thrown, in>>
    ELSE IF c[1] = "]" THEN <<<<"ARRAY", Append(value, v[1])>>, c[2]>>
    ELSE read_array(c[2], Append(value, v[1]))

\* c is read already; a key that comes again keeps its last value
read_object(in, c, value) ==
    LET name == read_string_token(in, <<>>)
        colon == read_non_ws_char(name[2])
        v == read_value(colon[2])
        next == read_non_ws_char(v[2])
        more == [k \in DOMAIN value \cup {name[1][2]} |-> IF k = name[1][2] THEN v[1] ELSE value[k]]
        d == read_non_ws_char(next[2]) IN
    IF c # "\"" \/ name[1] = Thrown \/ colon[1] # ":" THEN <<Thrown, in>>
    ELSE IF v[1] = Thrown \/ next[1] \notin {"}", ","} THEN <<Thrown, in>>
    ELSE IF next[1] = "}" THEN <<<<"OBJECT", more>>, next[2]>>
    ELSE read_object(d[2], d[1], more)

from_string(text) ==
    LET v == read_value(Open(text)) IN
    IF v[1] = Thrown \/ v[2].fail \/ \E i \in v[2].p + 1 .. Len(text) : text[i] \notin Space THEN Thrown
    ELSE v[1]

(***************************************************************************)
(* What a text means, by the grammar of JSON and the encoding UTF-8, with  *)
(* a little more for numbers: the digits of one may be missing before or   *)
(* after the point, or altogether, which is zero.                          *)
(***************************************************************************)
RECURSIVE Strip(_)
Strip(s) ==
    IF s = <<>> THEN s
    ELSE IF Head(s) \in Space THEN Strip(Tail(s))
    ELSE IF Last(s) \in Space THEN Strip(Front(s)) ELSE s

NumberMeaning(s) ==
    LET mantissa == SelectInSeq(s, LAMBDA c : c \in {"e", "E"})
        m == IF mantissa = 0 THEN s ELSE SubSeq(s, 1, mantissa - 1)
        e == IF mantissa = 0 THEN <<>> ELSE SubSeq(s, mantissa + 1, Len(s))
        ed == IF e # <<>> /\ Head(e) \in {"+", "-"} THEN Tail(e) ELSE e
        t == WithoutSign(m)
        point == SelectInSeq(t, LAMBDA c : c = ".")
        whole == IF point = 0 THEN t ELSE SubSeq(t, 1, point - 1)
        part == IF point = 0 THEN <<>> ELSE SubSeq(t, point + 1, Len(t))
        sign == IF m # <<>> /\ Head(m) = "-" THEN "-" ELSE "" IN
    IF \/ m = <<>> \/ (m # <<>> /\ Head(m) = ".")
       \/ ~(ToSet(whole) \subseteq Digits) \/ ~(ToSet(part) \subseteq Digits) \/ ~(ToSet(ed) \subseteq Digits)
       \/ (mantissa > 0 /\ ed = <<>>)
    THEN Thrown
    ELSE IF mantissa > 0 \/ point > 0
    THEN <<"DOUBLE", to_real(sign, whole, part,
                             IF mantissa = 0 THEN 0 ELSE IF e # <<>> /\ Head(e) = "-" THEN -Number(ed) ELSE Number(ed))>>
    ELSE IF whole = <<>> THEN <<"UNSIGNED", 0>>
    ELSE IF (whole # <<"0">> \/ sign = "-") /\ Head(whole) = "0" THEN Thrown
    ELSE IF sign = "-" THEN <<"SIGNED", -Least(Number(whole), MaxSigned)>>
    ELSE <<"UNSIGNED", Least(Number(whole), MaxUnsigned)>>

Utf8(cp) ==
    LET Low(n) == 128 + (n % 64) IN
    IF cp < 128 THEN <<cp>> ELSE IF cp < 2048 THEN <<192 + (cp \div 64), Low(cp)>>
    ELSE <<224 + (cp \div 4096), Low(cp \div 64), Low(cp)>>
\* the escape sequences, with what they stand for
Escapes == {<<escape_char(c), <<c>>>> : c \in {"\\", "\"", "TAB", "LF", "CR", "BS", "FF"}} \cup {<<<<"\\", "/">>, <<"/">>>>}
CodesAt(s) == IF s[1] = "\\" /\ IsCode(Tail(s)) THEN {CodePoint(SubSeq(s, 3, 6))} \cap (0 .. 55295 \cup 57344 .. 65533) ELSE {}
\* what the first characters of a string stand for, at most one meaning for each;
\* Encoded tells the bytes of a code
PieceAt(Encoded(_), s) ==
    {e \in Escapes : Len(s) > 1 /\ e[1] = SubSeq(s, 1, 2)}
    \cup {<<SubSeq(s, 1, 6), AsBytes(Encoded(cp))>> : cp \in CodesAt(s)}
    \cup {<<<<c>>, <<c>>>> : c \in {s[1]} \ (Control \cup {"\\", "\""})}
\* the strings between quotes that s means
StringMeaning(Encoded(_), str) ==
    LET M[s \in Seq(STRING)] ==
            IF s = <<>> THEN {<<>>}
            ELSE UNION {{e[2] \o rest : rest \in M[SubSeq(s, Len(e[1]) + 1, Len(s))]} : e \in PieceAt(Encoded, s)} IN
    M[str]
\* the values that a text means: one, or none if it is refused
MeaningBy(Encoded(_), whole) ==
    LET Means[t \in Seq(STRING)] ==
        LET s == Strip(t)
            inner == SubSeq(s, 2, Len(s) - 1)
            Cuts(u, c) == {i \in 1 .. Len(u) : u[i] = c}
            Between(begin, end) == Len(s) > 1 /\ s[1] = begin /\ Last(s) = end
            Values[u \in Seq(STRING)] ==
                {<<v>> : v \in Means[u]}
                \cup UNION {UNION {{<<v>> \o vs : vs \in Values[SubSeq(u, i + 1, Len(u))]} :
                                       v \in Means[SubSeq(u, 1, i - 1)]} : i \in Cuts(u, ",")}
            Member[u \in Seq(STRING)] ==
                UNION {UNION {{<<k[2], v>> : v \in Means[SubSeq(u, i + 1, Len(u))]} :
                                  k \in {v \in Means[SubSeq(u, 1, i - 1)] : v[1] = "STRING"}} : i \in Cuts(u, ":")}
            Members[u \in Seq(STRING)] ==
                {<<m>> : m \in Member[u]}
                \cup UNION {UNION {{<<m>> \o ms : ms \in Members[SubSeq(u, i + 1, Len(u))]} :
                                       m \in Member[SubSeq(u, 1, i - 1)]} : i \in Cuts(u, ",")}
            \* a key that comes again keeps its last value
            Object(ms) == [k \in {ms[i][1] : i \in DOMAIN ms} |-> ms[Max({i \in DOMAIN ms : ms[i][1] = k})][2]] IN
        IF s = <<>> THEN {}
        ELSE IF s = <<"t", "r", "u", "e">> THEN {<<"TRUE", <<>>>>}
        ELSE IF s = <<"f", "a", "l", "s", "e">> THEN {<<"FALSE", <<>>>>}
        ELSE IF s = <<"n", "u", "l", "l">> THEN {NIL}
        ELSE IF Between("\"", "\"") THEN {<<"STRING", str>> : str \in StringMeaning(Encoded, inner)}
        ELSE IF Between("[", "]") THEN {<<"ARRAY", vs>> : vs \in IF Strip(inner) = <<>> THEN {<<>>} ELSE Values[inner]}
        ELSE IF Between("{", "}")
        THEN {<<"OBJECT", Object(ms)>> : ms \in IF Strip(inner) = <<>> THEN {<<>>} ELSE Members[inner]}
        ELSE {NumberMeaning(s)} \ {Thrown} IN
    Means[whole]
Meaning(t) == MeaningBy(Utf8, t)

(***************************************************************************)
(* One computation                                                         *)
(***************************************************************************)
VARIABLES text, value, done
vars == <<text, value, done>>

\* texts to parse, or values to print
Init(texts, values) ==
    /\ done = "no"
    /\ \/ text \in texts /\ value = Thrown
       \/ text = <<>> /\ value \in values

Parse == done = "no" /\ value = Thrown /\ value' = from_string(text) /\ done' = "parse" /\ UNCHANGED text
Write == done = "no" /\ value # Thrown /\ text' = to_string(value) /\ done' = "write" /\ UNCHANGED value
Next == Parse \/ Write

(***************************************************************************)
(* Properties                                                              *)
(***************************************************************************)
IsNumber(v) == v[1] \in {"UNSIGNED", "SIGNED", "DOUBLE"}
\* a number at the very end of the text, where the code looks for another
\* character twice
LooksTwice(t, v) == IsNumber(v) /\ Last(t) \notin Space /\ ToSet(t) \cap {"e", "E"} = {}
\* a code of more than one byte: after a backslash that no backslash escapes
LongCode(t) ==
    LET Escapes_[i \in 0 .. Len(t)] == i > 0 /\ t[i] = "\\" /\ ~Escapes_[i - 1] IN
    \E i \in 1 .. Len(t) :
        /\ Escapes_[i] /\ IsCode(SubSeq(t, i + 1, Len(t)))
        /\ CodePoint(SubSeq(t, i + 2, i + 5)) >= 128
LowFirst(cp) == Reverse(Utf8(cp))

\* A text is parsed to what the grammar says it means and refused if it means
\* nothing, wherever it is cut, and whatever follows a value; but a number
\* without exponent at the very end of the text is refused, and for a code past
\* ASCII the string gets the bytes of UTF-8 from the last to the first, which
\* is another string.
ParsesMeaning ==
    done = "parse" =>
        IF \A v \in Meaning(text) : LooksTwice(text, v) THEN value = Thrown
        ELSE IF LongCode(text) THEN value \in MeaningBy(LowFirst, text) \ Meaning(text)
        ELSE {value} = Meaning(text)

RECURSIVE Normal(_)
Normal(v) ==
    IF v[1] = "SIGNED" /\ v[2] >= 0 THEN <<"UNSIGNED", v[2]>>
    ELSE IF v[1] = "DOUBLE" THEN <<"DOUBLE", Fixed(v[2])>>
    ELSE IF v[1] = "ARRAY" THEN <<"ARRAY", [i \in 1 .. Len(v[2]) |-> Normal(v[2][i])]>>
    ELSE IF v[1] = "OBJECT" THEN <<"OBJECT", [k \in DOMAIN v[2] |-> Normal(v[2][k])]>>
    ELSE v

\* What is printed is read back as the same value, except that an integer that is
\* not negative becomes unsigned and that a real is rounded; every key and string
\* with quotes, backslashes or control characters below the blank included.
RoundTrip ==
    done = "write" =>
        from_string(IF IsNumber(value) THEN to_string(value) \o <<" ">> ELSE to_string(value)) = Normal(value)
=============================================================================
