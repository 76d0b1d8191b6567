------------------------------ MODULE Scraping ------------------------------
(***************************************************************************)
(* How client.cpp reads JSON and HTML without a parser: it looks for the   *)
(* first "key": there is, at any depth, and scans on from there.           *)
(*                                                                         *)
(* A document is a sequence of symbols: a character that matters to a      *)
(* scan, or a whole key, word or group of hex digits that no scan looks    *)
(* into.  Positions count from 1, and 0 is npos.                           *)
(***************************************************************************)
EXTENDS Integers, Sequences, FiniteSetsExt, SequencesExt

CONSTANTS
    HexGroups, \* groups of four hex digits, each with what it stands for:
    HexValue,  \* <<character>> below 0x80, <<>> for a character above
    DigitValue,\* of the symbols that are digits
    kMaxInt32, \* the largest number of an int32_t,
    kMaxInt64  \* and the largest std::stoll() converts

Quote == "\""
Backslash == "\\"
Newline == "\n"
Space == " "
Colon == ":"
Comma == ","
Digits == DOMAIN DigitValue

ASSUME ScrapingAssumption ==
    /\ HexGroups = DOMAIN HexValue
    /\ \A h \in HexGroups : HexValue[h] = <<>> \/ HexValue[h] = <<HexValue[h][1]>>
    /\ HexGroups \cap {Quote, Backslash} = {}
    /\ \A d \in Digits : DigitValue[d] \in 0..9
    /\ Digits \cap {Quote, Space, Comma, "roomId"} = {}
    /\ kMaxInt32 \in Nat /\ kMaxInt64 \in Nat

Throws == "throws"

First(positions) == IF positions = {} THEN 0 ELSE Min(positions)

Occurrences(doc, needle, from) ==
    {i \in from..(Len(doc) - Len(needle) + 1) :
        \A k \in DOMAIN needle : doc[i + k - 1] = needle[k]}

\* std::string::find(needle, from)
Find(doc, needle, from) == First(Occurrences(doc, needle, from))

\* What stands between two positions.
Between(doc, p, q) == SubSeq(doc, p + 1, q - 1)

\* The key of a field with what follows it: a value, or the beginning of one.
Needle(key, value) == <<Quote, key, Quote, Colon>> \o value

-----------------------------------------------------------------------------
(* The name of the LIVE, as the application gives it.                      *)

kAppUrl == "https://www.tiktok.com/"
AtSign == "@"
LivePath == "/live"

EraseAt(id, p) == IF p = 0 THEN id ELSE RemoveAt(id, p)
Erase(id, needle) == EraseAt(id, Find(id, <<needle>>, 1))

Hull(id, kept) == IF kept = {} THEN <<>> ELSE SubSeq(id, Min(kept), Max(kept))
Trim(id) == Hull(id, {i \in DOMAIN id : id[i] # Space})

WithoutAt(id) == IF id # <<>> /\ id[1] = AtSign THEN Tail(id) ELSE id

clean_unique_id_AtFirst(id) == Trim(Erase(Erase(WithoutAt(id), kAppUrl), LivePath))

clean_unique_id(id) == Trim(WithoutAt(Erase(Erase(id, kAppUrl), LivePath)))

-----------------------------------------------------------------------------
(* Strings                                                                 *)

Unescaped(c) ==
    CASE c = "n" -> Newline [] c = "t" -> "\t" [] c = "r" -> "\r" [] OTHER -> c

\* A character above 0x7f is dropped when it comes as \uXXXX.
json_unescape(s) ==
    LET out[i \in 1..(Len(s) + 3)] ==
            IF i > Len(s) THEN <<>>
            ELSE IF s[i] # Backslash \/ i = Len(s) THEN <<s[i]>> \o out[i + 1]
            ELSE IF s[i + 1] = "u" /\ i + 1 < Len(s) THEN HexValue[s[i + 2]] \o out[i + 3]
            ELSE <<Unescaped(s[i + 1])>> \o out[i + 2]
    IN  out[1]

\* Which symbols of the string that begins at from a backslash hides.
Hidden(doc, from) ==
    LET hidden[i \in from..Len(doc)] ==
            i > from /\ doc[i - 1] = Backslash /\ ~hidden[i - 1]
    IN  hidden

StringEnd_AnyBackslash(doc, from) ==
    Min({i \in from..Len(doc) : doc[i] = Quote /\ doc[i - 1] # Backslash}
        \cup {Len(doc) + 1})

\* Where it ends: at the first quote that none hides, or with the document.
StringEnd(doc, from) ==
    LET hidden == Hidden(doc, from)
    IN  Min({i \in from..Len(doc) : doc[i] = Quote /\ ~hidden[i]} \cup {Len(doc) + 1})

\* Of the quote at p; of no quote, the empty string.
StringAt(doc, p) ==
    IF p = 0 THEN <<>> ELSE json_unescape(Between(doc, p, StringEnd(doc, p + 1)))

FieldString(json, p) == IF p = 0 THEN <<>> ELSE StringAt(json, p + 4)
json_string_field(json, key) == FieldString(json, Find(json, Needle(key, <<Quote>>), 1))

-----------------------------------------------------------------------------
(* Numbers                                                                 *)

\* The digits from a position on, and the number they make.
DigitsAt(doc, i) ==
    SubSeq(doc, i, Min({j \in i..Len(doc) : doc[j] \notin Digits} \cup {Len(doc) + 1}) - 1)

Number(digits) == FoldLeft(LAMBDA v, d : 10 * v + DigitValue[d], 0, digits)

\* Past quotes and spaces.
SkipTo(doc, i) ==
    Min({j \in i..Len(doc) : doc[j] \notin {Quote, Space}} \cup {Len(doc) + 1})

NumberAt(doc, i) ==
    IF i <= Len(doc) /\ doc[i] = "-" THEN -Number(DigitsAt(doc, i + 1))
    ELSE Number(DigitsAt(doc, i))

\* 0 when there is no such field or it holds no number; nobody checks that the
\* number fits.
FieldNumber(json, p) == IF p = 0 THEN 0 ELSE NumberAt(json, SkipTo(json, p + 4))
json_int_field(json, key) == FieldNumber(json, Find(json, Needle(key, <<>>), 1))

RoomIdAt(body, p) == Number(DigitsAt(body, SkipTo(body, p + 4)))
RoomIds(body) == Occurrences(body, Needle("roomId", <<>>), 1)

\* Of what is at p, if anything is; std::stoll() throws for what is out of range.
RoomIdFrom(body, p) ==
    IF p = 0 THEN 0
    ELSE IF RoomIdAt(body, p) > kMaxInt64 THEN Throws ELSE RoomIdAt(body, p)

scan_room_id_FirstOnly(body) == RoomIdFrom(body, First(RoomIds(body)))

\* The first that is positive, even if a good one follows one out of range.
scan_room_id(body) == RoomIdFrom(body, First({p \in RoomIds(body) : RoomIdAt(body, p) > 0}))

-----------------------------------------------------------------------------
(* Objects                                                                 *)

InStrings_Nothing(doc, from) == {}

\* The positions that are in strings, quotes included: braces do not count there.
InStrings(doc, from) ==
    LET inside[i \in from..(Len(doc) + 2)] ==
            LET quote == Find(doc, <<Quote>>, i)
                end == StringEnd(doc, quote + 1)
            IN  IF quote = 0 THEN {} ELSE (quote..end) \cup inside[end + 1]
    IN  inside[from]

\* Of positions that count, those where as many braces are closed as opened.
Balanced(doc, counted) ==
    LET UpTo(i, brace) == Cardinality({j \in counted : j <= i /\ doc[j] = brace})
    IN  {i \in counted : doc[i] = "}" /\ UpTo(i, "{") = UpTo(i, "}")}

\* Where the object that begins at start ends; 0 if it does not.
ObjectEnd(doc, start) == First(Balanced(doc, (start..Len(doc)) \ InStrings(doc, start)))

ObjectUpTo(doc, start, end) == IF end = 0 THEN <<>> ELSE SubSeq(doc, start, end)
FieldObject(json, p) ==
    IF p = 0 THEN <<>> ELSE ObjectUpTo(json, p + 4, ObjectEnd(json, p + 4))
json_object_field(json, key) == FieldObject(json, Find(json, Needle(key, <<"{">>), 1))

\* The objects of the array that goes on at from, up to its "]"; what else there
\* is between them is passed over, and one cut short is taken as it is.
ArrayObjects(doc, from) ==
    LET End(end) == IF end = 0 THEN Len(doc) ELSE end
        objects[i \in from..(Len(doc) + 1)] ==
            LET start == First({j \in i..Len(doc) : doc[j] \in {"{", "]"}})
                end == End(ObjectEnd(doc, start))
            IN  IF start = 0 \/ doc[start] = "]" THEN <<>>
                ELSE <<SubSeq(doc, start, end)>> \o objects[end + 1]
    IN  objects[from]

-----------------------------------------------------------------------------
(* The two responses that are read in full.                                *)

\* Between the next two quotes, also when a backslash hides the second.
UrlAt(icon, q0, q1) == IF q1 = 0 THEN <<>> ELSE json_unescape(Between(icon, q0, q1))
UrlFrom(icon, q0) == IF q0 = 0 THEN <<>> ELSE UrlAt(icon, q0, Find(icon, <<Quote>>, q0 + 1))
FirstUrl(icon, list) == IF list = 0 THEN <<>> ELSE UrlFrom(icon, Find(icon, <<Quote>>, list + 4))
IconUrl(icon) == FirstUrl(icon, Find(icon, Needle("url_list", <<"[">>), 1))

\* static_cast<int32_t>
Int32(n) == ((n + kMaxInt32 + 1) % (2 * (kMaxInt32 + 1))) - (kMaxInt32 + 1)

\* describe and type are read as name and diamond_count are.
GiftInfo(obj) ==
    [id |-> json_int_field(obj, "id"), name |-> json_string_field(obj, "name"),
     diamond_count |-> Int32(json_int_field(obj, "diamond_count")),
     icon_url |-> IconUrl(json_object_field(obj, "icon"))]

Gifts(objects) ==
    SelectSeq([i \in DOMAIN objects |-> GiftInfo(objects[i])], LAMBDA g : g.id # 0)

GiftsFrom(body, arr) == IF arr = 0 THEN <<>> ELSE Gifts(ArrayObjects(body, arr + 5))
fetch_gift_list_impl(body) == GiftsFrom(body, Find(body, Needle("gifts", <<"[">>), 1))

\* Past the string that begins at v0.
NextPair(obj, v0) == StringEnd(obj, v0 + 1) + 1

\* Keys are taken as they are, values unescaped.
parse_pairs(obj) ==
    LET pairs[i \in 1..(Len(obj) + 2)] ==
            LET k0 == Find(obj, <<Quote>>, i)
                k1 == Find(obj, <<Quote>>, k0 + 1)
                colon == Find(obj, <<Colon>>, k1)
                v0 == Find(obj, <<Quote>>, colon)
            IN  IF k0 = 0 \/ k1 = 0 \/ colon = 0 \/ v0 = 0 THEN <<>>
                ELSE <<[key |-> Between(obj, k0, k1), value |-> StringAt(obj, v0)]>>
                     \o pairs[NextPair(obj, v0)]
    IN  pairs[1]

\* A quality's key is one symbol; the RTMP URL is read as the HLS one is.
Qualities(flv, names, hls) ==
    [i \in DOMAIN flv |->
        [quality |-> flv[i].key, flv_url |-> flv[i].value,
         label |-> json_string_field(names, flv[i].key[1]),
         hls_url |-> IF Len(flv) = 1 THEN hls ELSE <<>>]]

StreamInfo(scope) ==
    [default_quality |-> json_string_field(scope, "default_resolution"),
     qualities |-> Qualities(parse_pairs(json_object_field(scope, "flv_pull_url")),
                             json_object_field(scope, "resolution_name"),
                             json_string_field(scope, "hls_pull_url"))]

Scope(body, stream_url) == IF stream_url = <<>> THEN body ELSE stream_url
fetch_room_info(body) == StreamInfo(Scope(body, json_object_field(body, "stream_url")))
=============================================================================
