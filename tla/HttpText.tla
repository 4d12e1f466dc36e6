------------------------------ MODULE HttpText ------------------------------
(***************************************************************************)
(* The text of HTTP messages (http/types.cpp, RequestParser.cpp,           *)
(* ResponseParser.cpp): to_string prints the head of a message, and the    *)
(* parsers consume one character at a time.  A character is a string; a    *)
(* word that the code only ever compares as a whole ("content-length",     *)
(* "close", ...) is one character here.                                    *)
(***************************************************************************)
EXTENDS Integers, Sequences, SequencesExt

CONSTANTS Originals,   \* messages that are printed and parsed again
          Free,        \* those in which any text is tried
          Pieces,      \* what that text is put together from
          MaxPieces,   \* bound: how many of them
          NoLength     \* size_t(-1), which stands for no content length

CR == "CR"
LF == "LF"
Digits == <<"0", "1", "2", "3", "4", "5", "6", "7", "8", "9">>

is_ctl(c) == c \in {CR, LF, "HT", "CTL"}
is_tspecial(c) == c \in {":", "/", "SP", "HT", "("}
is_digit(c) == c \in ToSet(Digits)
DigitValue(c) == CHOOSE d \in 0 .. 9 : Digits[d + 1] = c
\* what a method or the name of a header is made of (is_char excludes bytes above 127)
IsToken(c) == c # "BYTE128" /\ ~is_ctl(c) /\ ~is_tspecial(c)

\* Value of a text as a number, or -1: boost::lexical_cast, which also fails
\* when the number does not fit.
lexical_cast(t) ==
    LET Value == FoldLeft(LAMBDA n, c : n * 10 + DigitValue(c), 0, t) IN
    IF t = <<>> \/ \E k \in 1 .. Len(t) : ~is_digit(t[k]) THEN -1
    ELSE IF Value > NoLength THEN -1 ELSE Value

Number(n) == IF n < 10 THEN <<Digits[n + 1]>> ELSE <<Digits[(n \div 10) + 1], Digits[(n % 10) + 1]>>

(***************************************************************************)
(* to_string                                                               *)
(***************************************************************************)
Line(name, value) == name \o <<":", "SP">> \o value \o <<CR, LF>>
Version(r) == <<"H", "T", "T", "P", "/">> \o Number(r.major) \o <<".">> \o Number(r.minor)
HeaderLines(r) == FlattenSeq([k \in 1 .. Len(r.headers) |-> Line(r.headers[k][1], r.headers[k][2])])

\* both end alike: keep-alive is only written for HTTP/1.0, and close never
Ending(r) ==
    (IF r.major = 1 /\ r.minor = 0 /\ r.keep_alive THEN Line(<<"connection">>, <<"keep-alive">>) ELSE <<>>)
    \o (IF r.length # NoLength THEN Line(<<"content-length">>, Number(r.length)) ELSE <<>>)
    \o <<CR, LF>>

request_to_string(r) ==
    <<r.method, "SP">> \o r.uri \o <<"SP">> \o Version(r) \o <<CR, LF>>
    \o (IF r.host # <<>> THEN Line(<<"host">>, r.host) ELSE <<>>)
    \o HeaderLines(r)
    \o (IF r.auth # <<>> THEN Line(<<"authorization">>, <<"basic", "SP">> \o r.auth) ELSE <<>>)
    \o Ending(r)

response_to_string(r) ==
    Version(r) \o <<"SP">> \o r.status \o <<"SP">>
    \o (IF r.status_text = <<>> THEN <<"Unknown">> ELSE r.status_text) \o <<CR, LF>>
    \o HeaderLines(r)
    \o Ending(r)

(***************************************************************************)
(* The parsers                                                             *)
(***************************************************************************)
VARIABLES original,   \* the message that was printed
          raw,        \* how many pieces were put in place of its text
          text,       \* what is left to parse
          read,       \* what was parsed
          state_,
          req,        \* the message parsed so far
          lowcase     \* name and value of the header being parsed

vars == <<original, raw, text, read, state_, req, lowcase>>

NewHeader == [name |-> <<>>, value |-> <<>>]
Fresh == [kind |-> original.kind, method |-> <<>>, uri |-> <<>>, major |-> 0, minor |-> 0,
          headers |-> <<>>, host |-> <<>>, auth |-> <<>>, keep_alive |-> TRUE,
          length |-> NoLength, status |-> <<>>, status_text |-> <<>>]

\* states that expect one character
Expects ==
    [http_version_h |-> <<"H", "http_version_t_1">>,
     http_version_t_1 |-> <<"T", "http_version_t_2">>,
     http_version_t_2 |-> <<"T", "http_version_p">>,
     http_version_p |-> <<"P", "http_version_slash">>,
     http_version_slash |-> <<"/", "http_version_major_start">>,
     status_code_space |-> <<"SP", "status_text">>,
     expecting_newline_1 |-> <<LF, "header_line_start">>,
     space_before_header_value |-> <<"SP", "header_value">>,
     expecting_newline_2 |-> <<LF, "header_line_start">>,
     expecting_newline_3 |-> <<LF, "good">>]

\* states in which digits are collected: where a digit leads, which character
\* ends the number, and where that leads
Collects ==
    [http_version_major_start |-> <<"http_version_major", "none", "bad">>,
     http_version_major |-> <<"http_version_major", ".", "http_version_minor_start">>,
     http_version_minor_start |-> <<"http_version_minor", "none", "bad">>,
     http_version_minor |-> IF original.kind = "request"
                            THEN <<"http_version_minor", CR, "expecting_newline_1">>
                            ELSE <<"http_version_minor", "SP", "status_code_1">>,
     status_code_1 |-> <<"status_code_2", "none", "bad">>,
     status_code_2 |-> <<"status_code_3", "none", "bad">>,
     status_code_3 |-> <<"status_code_space", "none", "bad">>]

\* the last header, which a continuation line extends
Back == Len(req.headers)

\* basic_authorization: the value after the word, without the blanks around it
Trimmed(value) ==
    LET words == {k \in 2 .. Len(value) : value[k] # "SP"} IN
    IF words = {} THEN <<>>
    ELSE SubSeq(value, CHOOSE a \in words : \A b \in words : a <= b,
                       CHOOSE a \in words : \A b \in words : a >= b)

\* what the response parser knows; the request parser knows all four
ResponseNames == {<<"content-length">>, <<"connection">>}
Understood(r, name) == r.kind = "request" \/ name \in ResponseNames

\* process_ready_header: the set holds the message afterwards, and is empty
\* when the header is refused
process_ready_header(r, name, value) ==
    CASE ~Understood(r, name) -> {r}
      [] name = <<"content-length">> ->
            {[r EXCEPT !.length = n, !.headers = Front(@)] : n \in {lexical_cast(value)} \ {-1}}
      [] name = <<"host">> /\ Understood(r, name) ->
            {[r EXCEPT !.host = value, !.headers = Front(@)]}
      [] name = <<"connection">> ->
            {[r EXCEPT !.keep_alive = (value = <<"keep-alive">>), !.headers = Front(@)] :
                v \in {value} \cap {<<"keep-alive">>, <<"close">>}}
      [] name = <<"authorization">> /\ Understood(r, name) /\ value # <<>> /\ value[1] = "basic" ->
            {[r EXCEPT !.auth = Trimmed(value), !.headers = Front(@)]}
      [] OTHER -> {r}

\* `lowcase' starts anew: a continuation line has no name of its own
\* (A faulty variant keeps it.)
lowcase_kept == lowcase
lowcase_reset == NewHeader

Goto(s) == state_' = s /\ UNCHANGED <<req, lowcase>>
Bad == Goto("bad")

push_value(c) ==
    /\ req' = [req EXCEPT !.headers[Back][2] = Append(@, c)]
    /\ lowcase' = [lowcase EXCEPT !.value = Append(@, c)]
    /\ state_' = "header_value"

\* the lines of the head
consume_header(c) ==
    \/ /\ state_ = "header_line_start"
       /\ IF c = CR THEN Goto("expecting_newline_3")
          ELSE IF req.headers # <<>> /\ c \in {"SP", "HT"} THEN Goto("header_lws")
          ELSE IF ~IsToken(c) THEN Bad
          ELSE /\ req' = [req EXCEPT !.headers = Append(@, <<<<c>>, <<>>>>)]
               /\ lowcase' = [lowcase EXCEPT !.name = Append(@, c)]
               /\ state_' = "header_name"
    \/ /\ state_ = "header_lws"
       /\ IF c = CR THEN Goto("expecting_newline_2")
          ELSE IF c \in {"SP", "HT"} THEN Goto("header_lws")
          ELSE IF is_ctl(c) THEN Bad
          ELSE push_value(c)
    \/ /\ state_ = "header_name"
       /\ IF c = ":" THEN Goto("space_before_header_value")
          ELSE IF ~IsToken(c) THEN Bad
          ELSE /\ req' = [req EXCEPT !.headers[Back][1] = Append(@, c)]
               /\ lowcase' = [lowcase EXCEPT !.name = Append(@, c)]
               /\ UNCHANGED state_
    \/ /\ state_ = "header_value"
       /\ IF c = CR
          THEN LET ready == process_ready_header(req, lowcase.name, lowcase.value) IN
               IF ready = {} THEN Bad
               ELSE /\ req' \in ready
                    /\ lowcase' = lowcase_reset
                    /\ state_' = "expecting_newline_2"
          ELSE IF is_ctl(c) THEN Bad ELSE push_value(c)

\* The number that a digit extends
AddDigit(r, s, c) ==
    CASE s \in {"http_version_major_start", "http_version_major"} ->
            [r EXCEPT !.major = @ * 10 + DigitValue(c)]
      [] s \in {"http_version_minor_start", "http_version_minor"} ->
            [r EXCEPT !.minor = @ * 10 + DigitValue(c)]
      [] OTHER -> [r EXCEPT !.status = Append(@, c)]

\* HTTP/1.1 keeps the connection unless a header says otherwise
Ended(r, s) ==
    IF s = "http_version_minor" THEN [r EXCEPT !.keep_alive = (r.major = 1 /\ r.minor = 1)] ELSE r

\* the version in the first line, and every other place with one character to come
consume_version(c) ==
    \/ /\ state_ \in DOMAIN Expects
       /\ IF c = Expects[state_][1] THEN Goto(Expects[state_][2]) ELSE Bad
    \/ /\ state_ \in DOMAIN Collects
       /\ UNCHANGED lowcase
       /\ LET to == Collects[state_] IN
          IF is_digit(c) THEN state_' = to[1] /\ req' = AddDigit(req, state_, c)
          ELSE IF c = to[2] THEN state_' = to[3] /\ req' = Ended(req, state_)
          ELSE state_' = "bad" /\ UNCHANGED req

\* before it, in a request
consume_method(c) ==
    \/ /\ state_ \in {"method_start", "method"}
       /\ IF c = "SP" /\ state_ = "method" THEN Goto("uri")
          ELSE IF ~IsToken(c) THEN Bad
          ELSE /\ req' = [req EXCEPT !.method = Append(@, c)]
               /\ state_' = "method"
               /\ UNCHANGED lowcase
    \/ /\ state_ = "uri"
       /\ IF c = "SP" THEN Goto("http_version_h")
          ELSE IF is_ctl(c) THEN Bad
          ELSE req' = [req EXCEPT !.uri = Append(@, c)] /\ UNCHANGED <<state_, lowcase>>

\* after it, in a response
consume_status(c) ==
    /\ state_ = "status_text"
    /\ IF c = CR THEN Goto("expecting_newline_1")
       ELSE IF is_ctl(c) THEN Bad
       ELSE req' = [req EXCEPT !.status_text = Append(@, c)] /\ UNCHANGED <<state_, lowcase>>

\* the two parsers share the text of the rest
request_consume(c) == consume_method(c) \/ consume_version(c) \/ consume_header(c)
response_consume(c) == consume_version(c) \/ consume_status(c) \/ consume_header(c)

(***************************************************************************)
(* Parsing a printed message, or its first line and then any text          *)
(***************************************************************************)
Printed(m) == IF m.kind = "request" THEN request_to_string(m) ELSE response_to_string(m)

Init ==
    /\ original \in Originals
    /\ raw = 0
    /\ text = Printed(original)
    /\ read = <<>>
    /\ state_ = IF original.kind = "request" THEN "method_start" ELSE "http_version_h"
    /\ req = Fresh
    /\ lowcase = NewHeader

\* parse(): one round of its loop
parse ==
    /\ text # <<>>
    /\ state_ \notin {"good", "bad"}
    /\ IF original.kind = "request" THEN request_consume(Head(text)) ELSE response_consume(Head(text))
    /\ read' = Append(read, Head(text))
    /\ text' = Tail(text)
    /\ UNCHANGED <<original, raw>>

\* any other lines are put in place of the printed ones
Other(p) ==
    /\ original \in Free
    /\ raw < MaxPieces
    /\ raw' = raw + 1
    /\ raw = 0 \/ text = <<>>
    /\ state_ \notin {"good", "bad"}
    /\ text' = p
    /\ UNCHANGED <<original, read, state_, req, lowcase>>

Next == parse \/ \E p \in Pieces : Other(p)

(***************************************************************************)
(* Properties                                                              *)
(***************************************************************************)
\* A message that is printed is parsed to the same message: the headers the
\* parser understands and the ones it hands on, and the length of the body.
\* HTTP/1.1 with close is printed as keep-alive, as the code never says close.
RoundTrip ==
    raw = 0 =>
        /\ state_ # "bad"
        /\ text = <<>> => state_ = "good"
        /\ state_ = "good" =>
            /\ text = <<>>
            /\ <<req.headers, req.host, req.auth, req.length, req.major, req.minor, req.uri>> =
               <<original.headers, original.host, original.auth, original.length,
                 original.major, original.minor, original.uri>>
            /\ req.keep_alive = (original.keep_alive \/ (original.major = 1 /\ original.minor = 1))
            /\ original.kind = "response" =>
                req.status = original.status
                /\ req.status_text \in {original.status_text, <<"Unknown">>}

\* The head ends at its first blank line, whatever the lines are: the parser
\* neither stops before it nor takes a character of the body.
EndsAtBlankLine ==
    LET End(k) == SubSeq(read, k - 3, k) = <<CR, LF, CR, LF>> IN
    state_ # "bad" =>
        \A k \in 4 .. Len(read) : End(k) <=> (state_ = "good" /\ k = Len(read))

\* The length of the body, on which the next message's place depends, is what
\* the last Content-Length line says: neither a continuation line nor another
\* header changes it.
LineStarts == {k \in 3 .. Len(read) : read[k - 2] = CR /\ read[k - 1] = LF}
LengthLines == {k \in LineStarts : k + 2 <= Len(read) /\ SubSeq(read, k, k + 1) = <<"content-length", ":">>}
ValueAt(k) == LET e == CHOOSE e \in k .. Len(read) : read[e] = CR /\ \A i \in k .. e - 1 : read[i] # CR
              IN SubSeq(read, k + 3, e - 1)
FramingFromHeaders ==
    state_ = "good" =>
        req.length = IF LengthLines = {} THEN NoLength
                     ELSE lexical_cast(ValueAt(CHOOSE k \in LengthLines : \A j \in LengthLines : j <= k))
=============================================================================
