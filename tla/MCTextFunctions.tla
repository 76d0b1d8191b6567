-------------------------- MODULE MCTextFunctions --------------------------
(***************************************************************************)
(* Inputs for the modules of pure functions, grown one element at a time,  *)
(* and what these have to make of them; beside them, scripts that use the  *)
(* shim's window and the request of sign().                                *)
(***************************************************************************)
EXTENDS Scraping, ShimCodecs, FakeWindow, SignedUrl, RequestParameters, EventParser

CONSTANT MaxLength \* bound: elements of an input, by kind

VARIABLES kind, input

inputVars == <<kind, input>>

\* A JSON serialiser may write a piece of text in more than one way; text is what
\* has to be read.
Piece(text, json) == [text |-> text, json |-> json]

PlainSymbols == {"x", "u", "{", "}", "]", Colon, "e-acute"}
Plain == {Piece(<<c>>, <<c>>) : c \in PlainSymbols}
Escaped ==
    {Piece(<<Quote>>, <<Backslash, Quote>>), Piece(<<Quote>>, <<Backslash, "u", "0022">>),
     Piece(<<Backslash>>, <<Backslash, Backslash>>), Piece(<<Newline>>, <<Backslash, "n">>),
     Piece(<<"/">>, <<Backslash, "/">>)}
\* Text that looks like a field.
LikeField(key) ==
    Piece(<<Quote, key, Quote, Colon>>, <<Backslash, Quote, key, Backslash, Quote, Colon>>)

Pieces == Plain \cup Escaped \cup {LikeField("id"), LikeField("flv_pull_url")}

\* A character above 0x7f, as it is and as \uXXXX.
NonAscii ==
    {Piece(<<"x">>, <<"x">>), Piece(<<"e-acute">>, <<"e-acute">>),
     Piece(<<"e-acute">>, <<Backslash, "u", "00e9">>)}

\* A room id in a page: quoted or not, with no digits, zero, good, too large.
IdDigits == {<<>>, <<"0">>, <<"0", "1">>, <<"9", "9">>, <<"1", "0", "0">>}
IdFields == [quoted : BOOLEAN, digits : IdDigits]

\* The boundaries of UTF-8, a surrogate pair, and one without its pair.
Characters ==
    {<<0>>, <<127>>, <<128>>, <<2047>>, <<2048>>, <<55295>>, <<57344>>, <<65535>>,
     <<55296, 56320>>, <<56319, 57343>>}

\* Names and values with what delimits them, with what looks encoded, and with a byte
\* above 0x7f.
Params ==
    [name : {<<97>>, <<Ampersand, 97>>},
     value : {<<>>, <<97, 32>>, <<Percent, 50, 54>>, <<Ampersand>>, <<Equals, 97>>, <<43, 255>>}]

Pictures(url) == {<<>>, <<url>>, <<url, "second">>}

\* A message, whether it decodes, and what is in it.
MessagesOf(method) ==
    [method : {method}, decodes : BOOLEAN, user : {"u"}, value : {"v"}, action : {1, 3, 4},
     share_type : {0, 1}, repeat_end : {0, 1}, has_gift : BOOLEAN,
     avatar_thumb : Pictures("thumb"), avatar_medium : {<<>>, <<"medium">>},
     image : Pictures("image"), icon : {<<>>, <<"icon">>}]

Elements == [params |-> Params, event |-> UNION {MessagesOf(m) : m \in Methods \cup {"Other"}},
             text |-> Pieces, unicode |-> NonAscii, ids |-> IdFields,
             names |-> {kAppUrl, AtSign, "x", LivePath, Space},
             bytes |-> {0, 1, 63, 64, 255}, characters |-> Characters]

MCHexValue == [h \in {"0022", "00e9"} |-> IF h = "0022" THEN <<Quote>> ELSE <<>>]
MCHexGroups == DOMAIN MCHexValue
MCDigitValue == [d \in {"0", "1", "9"} |-> IF d = "0" THEN 0 ELSE IF d = "1" THEN 1 ELSE 9]
MCMaxLength == [params |-> 3, event |-> 1, script |-> 3, request |-> 4, text |-> 3, unicode |-> 2, ids |-> 3, names |-> 6, bytes |-> 5, characters |-> 3]

\* What the pieces' hex digits stand for.
ASSUME HexGroupsAssumption ==
    /\ {"0022", "00e9"} \subseteq HexGroups
    /\ HexValue["0022"] = <<Quote>> /\ HexValue["00e9"] = <<>>

\* What the pages' room ids are made of.
ASSUME IdDigitsAssumption == {"0", "1", "9"} \subseteq Digits

MCScriptNames == {"Promise", "document", "fetch", "name", "prototype", "call", acrawler}
MCScriptValues == {Value(what, "sdk") : what \in {"object", "nullish", "falsy"}}

Init ==
    /\ kind \in DOMAIN Elements \cup {"script", "request"} /\ input = <<>>
    /\ WindowInit /\ RequestInit

Grow ==
    /\ kind \in DOMAIN Elements /\ Len(input) < MaxLength[kind]
    /\ \E e \in Elements[kind] : input' = Append(input, e)
    /\ UNCHANGED <<kind, windowVars, requestVars>>

ScriptGoes ==
    /\ kind = "script" /\ Len(script) < MaxLength[kind]
    /\ ScriptStep
    /\ UNCHANGED <<inputVars, requestVars>>

RequestGoes ==
    /\ kind = "request" /\ Len(requested) < MaxLength[kind]
    /\ RequestStep
    /\ UNCHANGED <<inputVars, windowVars>>

textVars == <<inputVars, windowVars, requestVars>>

Full == MaxLength[kind] \in {Len(input), Len(script), Len(requested)} /\ UNCHANGED textVars

Next == Grow \/ ScriptGoes \/ RequestGoes \/ Full

Spec == Init /\ [][Next]_textVars

-----------------------------------------------------------------------------
(* Documents                                                               *)

Json(pieces) == FlattenSeq([i \in DOMAIN pieces |-> pieces[i].json])

Text(pieces) == FlattenSeq([i \in DOMAIN pieces |-> pieces[i].text])

Quoted(json) == <<Quote>> \o json \o <<Quote>>

Object(fields) ==
    <<"{">> \o FlattenSeq([i \in DOMAIN fields |->
                   (IF i = 1 THEN <<>> ELSE <<Comma>>) \o Needle(fields[i][1], fields[i][2])])
    \o <<"}">>

Icon == Object(<< <<"url_list", <<"[">> \o Quoted(<<"x">>) \o <<"]">> >> >>)

Gift(id, name, count) ==
    Object(<< <<"icon", Icon>>, <<"name", Quoted(name)>>, <<"id", id>>,
              <<"diamond_count", count>> >>)

GiftResponse(name) ==
    <<"{">> \o Needle("gifts", <<"[">>)
    \o Gift(<<"1">>, name, <<"9">>) \o <<Comma>> \o Gift(<<"0">>, name, <<"1">>) \o <<Comma>>
    \o Gift(<<"9">>, <<"x">>, <<"1", "0">>)
    \o <<"]", Comma>> \o Needle("pages", <<"[">>) \o Gift(<<"1">>, name, <<"1">>) \o <<"]", "}">>

GiftRead(id, name, count) ==
    [id |-> id, name |-> name, diamond_count |-> count, icon_url |-> <<"x">>]

\* A stream in the qualities whose URLs are given.
RoomInfoResponse(urls) ==
    LET keys == <<"hd", "sd">>
        PerQuality(values) ==
            Object([i \in DOMAIN values |-> <<keys[i], Quoted(values[i])>>])
    IN  Object(<< <<"title", Quoted(urls[1])>>,
                  <<"stream_url",
                    Object(<< <<"resolution_name", PerQuality(urls)>>,
                              <<"default_resolution", Quoted(<<"x">>)>>,
                              <<"flv_pull_url", PerQuality(urls)>>,
                              <<"hls_pull_url", Quoted(<<"x">>)>> >>)>> >>)

QualityRead(key, url, hls) ==
    [quality |-> <<key>>, flv_url |-> url, label |-> url, hls_url |-> hls]

RoomField(f) ==
    Needle("roomId", IF f.quoted THEN Quoted(f.digits) ELSE f.digits) \o <<Comma>>

Page(fields) == FlattenSeq([i \in DOMAIN fields |-> RoomField(fields[i])])

-----------------------------------------------------------------------------

\* But for those without an id; a count one beyond int32_t wraps.
GiftListRead ==
    kind = "text" =>
        fetch_gift_list_impl(GiftResponse(Json(input)))
            = <<GiftRead(1, Text(input), kMaxInt32), GiftRead(9, <<"x">>, -kMaxInt32 - 1)>>

\* The HLS URL goes with a quality that is the only one.
StreamInfoRead ==
    kind = "text" =>
        /\ fetch_room_info(RoomInfoResponse(<<Json(input), <<"x">> >>)).qualities
               = <<QualityRead("hd", Text(input), <<>>), QualityRead("sd", <<"x">>, <<>>)>>
        /\ fetch_room_info(RoomInfoResponse(<<Json(input)>>)).qualities
               = <<QualityRead("hd", Text(input), <<"x">>)>>

\* The gifts of a response are read with their fields, the qualities of a stream
\* with their URLs and labels, whatever quotes, backslashes, braces or text that
\* looks like a field their names and URLs hold, in whatever way that is written but
\* for \uXXXX above 0x7f.
ResponsesRead == GiftListRead /\ StreamInfoRead

\* Two fields of any text are both read, unless it is written with \uXXXX above 0x7f,
\* and text that looks like a field is not.
FieldsRead ==
    kind = "text" =>
        \A n \in 0..Len(input) :
            LET title == SubSeq(input, 1, n)
                name == SubSeq(input, n + 1, Len(input))
                doc == Object(<< <<"title", Quoted(Json(title))>>,
                                 <<"name", Quoted(Json(name))>> >>)
            IN  /\ json_string_field(doc, "title") = Text(title)
                /\ json_string_field(doc, "name") = Text(name)
                /\ json_string_field(doc, "id") = <<>>

\* A character above 0x7f that comes as \uXXXX is kept: it is read, or its escape
\* stays.  json_unescape() drops both.
EscapedCharacterKept ==
    kind = "unicode" =>
        json_string_field(Object(<< <<"name", Quoted(Json(input))>> >>), "name")
            \in {Text(input), Json(input)}

\* The room id is the first that is positive, in whatever form; one too large
\* for int64_t, before that, is an exception instead.
RoomIdRead ==
    kind = "ids" =>
        LET value == [i \in DOMAIN input |-> Number(input[i].digits)]
            positive == {i \in DOMAIN input : value[i] > 0}
        IN  scan_room_id(Page(input)) =
                IF positive = {} THEN 0
                ELSE IF value[Min(positive)] > kMaxInt64 THEN Throws ELSE value[Min(positive)]

\* A name of the LIVE in one of its forms: spaces, the site, "@", the name, "/live",
\* spaces; what is not there is empty.
Spaces(n) == [i \in 1..n |-> Space]
OneOrNone(c) == {<<>>, <<c>>}
NameSymbols == {"x"}
Form(before, site, at, name, live, after) ==
    before \o site \o at \o name \o live \o after

\* However the application names the LIVE, as a page of the site or as @name, with
\* spaces around it, the name is what remains; only the @ stays behind a space,
\* since spaces are trimmed last.
UniqueIdCleaned ==
    kind = "names" =>
        \A b, a \in 0..Len(input), site \in OneOrNone(kAppUrl), at \in OneOrNone(AtSign),
           live \in OneOrNone(LivePath) :
            LET name == SubSeq(input, b + Len(site) + Len(at) + 1, Len(input) - a - Len(live))
            IN  /\ name # <<>> /\ \A i \in DOMAIN name : name[i] \in NameSymbols
                /\ input = Form(Spaces(b), site, at, name, live, Spaces(a))
                => clean_unique_id(input) = (IF b > 0 THEN at ELSE <<>>) \o name

\* The site, the @ and the suffix are stripped however the application names the LIVE.
\* The @ is not if it stands behind a space.
UniqueIdStripped ==
    kind = "names" =>
        \A b, a \in 0..Len(input), site \in OneOrNone(kAppUrl), at \in OneOrNone(AtSign),
           live \in OneOrNone(LivePath) :
            LET name == SubSeq(input, b + Len(site) + Len(at) + 1, Len(input) - a - Len(live))
            IN  /\ name # <<>> /\ \A i \in DOMAIN name : name[i] \in NameSymbols
                /\ input = Form(Spaces(b), site, at, name, live, Spaces(a))
                => clean_unique_id(input) = name

\* atob() gives back what btoa() was given, except for a last group of one or
\* two characters: that is lost to three of code 255.
Base64RoundTrip ==
    kind = "bytes" =>
        LET whole == Len(input) - (Len(input) % 3)
        IN  atob(btoa(input)) = SubSeq(input, 1, whole)
                \o (IF whole = Len(input) THEN <<>> ELSE <<255, 255, 255>>)

Utf8RoundTrip ==
    kind = "characters" => decode(encode(FlattenSeq(input))) = FlattenSeq(input)

\* What the shim encodes it decodes to the same: text as UTF-8 at each of its
\* boundaries and outside the basic plane, bytes as base64, of which a last group
\* of one or two is lost.
CodecsRoundTrip == Base64RoundTrip /\ Utf8RoundTrip

\* A server that reads a query: the parameters behind it, the sides of the one it is
\* in, the text of the side it is in, and what it has seen of an encoded character.
Reading(params, sides, text, escape) ==
    [params |-> params, sides |-> sides, text |-> text, escape |-> escape]

FromHex(c) == IF c < 58 THEN c - 48 ELSE c - 55

\* "+" is a space.
ReadChar(r, c) ==
    CASE Len(r.escape) = 1 -> Reading(r.params, r.sides, r.text, Append(r.escape, c))
      [] Len(r.escape) > 1 ->
             Reading(r.params, r.sides,
                     Append(r.text, FromHex(r.escape[2]) * 16 + FromHex(c)), <<>>)
      [] Len(r.escape) = 0 /\ c = Percent -> Reading(r.params, r.sides, r.text, <<c>>)
      [] Len(r.escape) = 0 /\ c = Ampersand ->
             Reading(Append(r.params, Append(r.sides, r.text)), <<>>, <<>>, <<>>)
      [] Len(r.escape) = 0 /\ c = Equals ->
             Reading(r.params, Append(r.sides, r.text), <<>>, <<>>)
      [] OTHER ->
             Reading(r.params, r.sides, Append(r.text, IF c = 43 THEN 32 ELSE c), <<>>)

ReadUpTo(s) ==
    LET r[i \in 0..Len(s)] ==
            IF i = 0 THEN Reading(<<>>, <<>>, <<>>, <<>>) ELSE ReadChar(r[i - 1], s[i])
    IN  r[Len(s)]

\* Each parameter as its sides.
ReadQuery(s) ==
    LET r == ReadUpTo(s) IN Append(r.params, Append(r.sides, r.text))

\* The server reads the parameters that the client gave, in their order, whatever
\* the server itself put into a cursor or internal_ext that comes back to it.
QueryReadBack ==
    kind = "params" /\ input # <<>> =>
        ReadQuery(encode_query(input))
            = [i \in DOMAIN input |-> <<input[i].name, input[i].value>>]

\* The fields that events.hpp groups under a type of event.
RelevantFields(type) ==
    CASE type = "Comment" -> {"user", "comment"}
      [] type = "Gift" -> {"user", "gift", "gift_streaking", "gift_icon_url"}
      [] type = "Like" -> {"user", "like_count"}
      [] type \in {"Join", "Follow", "Share"} -> {"user", "member_count"}
      [] type = "Subscribe" -> {"user"}
      [] type = "RoomUserSeq" -> {"viewer_count"}
      [] type \in {"Control", "LiveEnd"} -> {"control_action"}
      [] type = "Unknown" -> {}

\* What holds of the event of a message.
HoldsItsFields(m) ==
    LET ev == parse_event(m.method, m)
    IN  /\ \A f \in DOMAIN ev \ {"type"} : ev[f] # Blank => f \in RelevantFields(ev.type)
        /\ ev.type = "Unknown" <=> ~m.decodes \/ m.method \notin Methods
        /\ ev.type = "LiveEnd" => m.method = "WebcastControlMessage" /\ m.action # 1
        /\ \A user \in Range(ev.user) :
               user.avatar_url = Blank => m.avatar_thumb \o m.avatar_medium = <<>>
        /\ ev.gift # Blank /\ ev.gift_icon_url = Blank
               => ~m.has_gift \/ m.image \o m.icon = <<>>

\* An event carries the fields of its type and nothing of a payload that did not
\* decode, so that a damaged message neither ends the LIVE nor shows what it might
\* have held; and a user or gift has a picture if its message brought one.
EventsHoldTheirFields == kind = "event" /\ input # <<>> => HoldsItsFields(input[1])
=============================================================================
