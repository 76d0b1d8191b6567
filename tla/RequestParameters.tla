------------------------- MODULE RequestParameters -------------------------
(***************************************************************************)
(* The query of a request, from names and values that the server may have  *)
(* chosen (a cursor, internal_ext).  Characters are their codes.           *)
(***************************************************************************)
EXTENDS Integers, Sequences

Percent == 37
Ampersand == 38
Equals == 61

Unreserved == 48..57 \cup 65..90 \cup 97..122 \cup {45, 46, 95, 126}

hex(n) == IF n < 10 THEN 48 + n ELSE 55 + n

EncodedChar_KeepsPercent(c) ==
    IF c \in Unreserved \cup {Percent} THEN <<c>>
    ELSE <<Percent, hex(c \div 16), hex(c % 16)>>

EncodedChar(c) ==
    IF c \in Unreserved THEN <<c>> ELSE <<Percent, hex(c \div 16), hex(c % 16)>>

\* What append_encoded() appends.
Encoded(s) ==
    LET text[i \in 0..Len(s)] == IF i = 0 THEN <<>> ELSE text[i - 1] \o EncodedChar(s[i])
    IN  text[Len(s)]

append_encoded(out, s) == out \o Encoded(s)

AppendParam(out, param) ==
    append_encoded(
        Append(append_encoded(IF out = <<>> THEN out ELSE Append(out, Ampersand), param.name),
               Equals),
        param.value)

encode_query(params) ==
    LET query[i \in 0..Len(params)] ==
            IF i = 0 THEN <<>> ELSE AppendParam(query[i - 1], params[i])
    IN  query[Len(params)]
=============================================================================
