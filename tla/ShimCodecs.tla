----------------------------- MODULE ShimCodecs -----------------------------
(***************************************************************************)
(* The shim's codecs.  Characters and bytes are numbers; a base64 text is  *)
(* the sequence of its digits' places in the alphabet, where "=" is 64.    *)
(***************************************************************************)
EXTENDS Integers, Sequences

Pad_OffByOne == 63

Pad == 64

\* Element i, or otherwise where the sequence has none.
At(s, i, otherwise) == IF i <= Len(s) THEN s[i] ELSE otherwise

Bits(a, b, c, d) == ((a * 64 + b) * 64 + c) * 64 + d

\* The digits of the up to three characters, of codes up to 255, from i on.
Sextets(s, i) ==
    LET bits == (s[i] * 256 + At(s, i + 1, 0)) * 256 + At(s, i + 2, 0)
    IN  <<bits \div 262144, (bits \div 4096) % 64,
          IF i + 1 <= Len(s) THEN (bits \div 64) % 64 ELSE Pad,
          IF i + 2 <= Len(s) THEN bits % 64 ELSE Pad>>

btoa(s) ==
    LET n == (Len(s) + 2) \div 3
        output[g \in 0..n] == IF g = 0 THEN <<>> ELSE output[g - 1] \o Sextets(s, 3 * g - 2)
    IN  output[n]

\* Without the padding.
Stripped(s) ==
    SubSeq(s, 1, CHOOSE n \in 0..Len(s) :
                     /\ \A i \in (n + 1)..Len(s) : s[i] = Pad
                     /\ n = 0 \/ s[n] # Pad)

\* The characters of the up to four digits from i on.  Where the padding was,
\* indexOf() finds -1, not the 64 of "=", and makes ones of all the bits of its group.
Octets(digits, i) ==
    IF i + 3 > Len(digits) THEN <<255, 255, 255>>
    ELSE LET bits == Bits(digits[i], digits[i + 1], digits[i + 2], digits[i + 3])
         IN  <<bits \div 65536>>
             \o (IF digits[i + 2] = Pad THEN <<>> ELSE <<(bits \div 256) % 256>>)
             \o (IF digits[i + 3] = Pad THEN <<>> ELSE <<bits % 256>>)

atob(s) ==
    LET digits == Stripped(s)
        n == (Len(digits) + 3) \div 4
        output[g \in 0..n] == IF g = 0 THEN <<>> ELSE output[g - 1] \o Octets(digits, 4 * g - 3)
    IN  output[n]

-----------------------------------------------------------------------------

\* The low six bits of a number, as a byte that continues one.
Continue(c) == 128 + (c % 64)

\* A surrogate takes the next character, whatever it is, for its pair.
CodePoint(high, low) == 65536 + (high % 1024) * 1024 + (low % 1024)

IsSurrogate(c) == c >= 55296 /\ c < 57344

Utf8(cp) ==
    CASE cp < 128 -> <<cp>>
      [] cp >= 128 /\ cp < 2048 -> <<192 + cp \div 64, Continue(cp)>>
      [] cp >= 2048 /\ cp < 65536 -> <<224 + cp \div 4096, Continue(cp \div 64), Continue(cp)>>
      [] OTHER -> <<240 + cp \div 262144, Continue(cp \div 4096), Continue(cp \div 64), Continue(cp)>>

\* What has been encoded, and the surrogate whose pair is still to come, or 0.
Encoding(bytes, high) == [bytes |-> bytes, high |-> high]

EncodeUnit(e, c) ==
    IF e.high # 0 THEN Encoding(e.bytes \o Utf8(CodePoint(e.high, c)), 0)
    ELSE IF IsSurrogate(c) THEN Encoding(e.bytes, c)
    ELSE Encoding(e.bytes \o Utf8(c), 0)

EncodeUpTo(s) ==
    LET e[i \in 0..Len(s)] == IF i = 0 THEN Encoding(<<>>, 0) ELSE EncodeUnit(e[i - 1], s[i])
    IN  e[Len(s)]

\* TextEncoder.encode(), of UTF-16 code units; past their end is a 0.
encode(s) ==
    LET e == EncodeUpTo(s)
    IN  IF e.high = 0 THEN e.bytes ELSE e.bytes \o Utf8(CodePoint(e.high, 0))

\* Bytes of a character, by its first.
Width(b) == CASE b < 128 -> 1 [] b >= 128 /\ b < 224 -> 2 [] b >= 224 /\ b < 240 -> 3 [] OTHER -> 4

Low(seen, i) == At(seen, i, 0) % 64

SurrogatePair(n) == <<55296 + n \div 1024, 56320 + (n % 1024)>>

\* The code units of a character, of whose bytes some may be missing.
Units(seen) ==
    LET b == seen[1]
    IN  CASE Width(b) = 1 -> <<b>>
          [] Width(b) = 2 -> <<Bits(0, 0, b % 32, Low(seen, 2))>>
          [] Width(b) = 3 -> <<Bits(0, b % 16, Low(seen, 2), Low(seen, 3))>>
          [] Width(b) = 4 ->
                 SurrogatePair(Bits(b % 8, Low(seen, 2), Low(seen, 3), Low(seen, 4)) - 65536)

\* What has been decoded, and the bytes seen of the next character.
Decoding(units, seen) == [units |-> units, seen |-> seen]

DecodeByte(d, b) ==
    LET seen == Append(d.seen, b)
    IN  IF Len(seen) < Width(seen[1]) THEN Decoding(d.units, seen)
        ELSE Decoding(d.units \o Units(seen), <<>>)

DecodeUpTo(bytes) ==
    LET d[i \in 0..Len(bytes)] ==
            IF i = 0 THEN Decoding(<<>>, <<>>) ELSE DecodeByte(d[i - 1], bytes[i])
    IN  d[Len(bytes)]

\* TextDecoder.decode(), of a whole buffer also when it is given part of one; what is missing
\* at its end counts as 0.
decode(bytes) ==
    LET d == DecodeUpTo(bytes)
    IN  IF d.seen = <<>> THEN d.units ELSE d.units \o Units(d.seen)
=============================================================================
