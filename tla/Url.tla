--------------------------------- MODULE Url ---------------------------------
(***************************************************************************)
(* URLs of trackers.  URLEncoder turns bytes into characters, URLDecoder   *)
(* back; UrlParser splits a URL with four regular expressions.  A          *)
(* character is the number of its byte.                                    *)
(***************************************************************************)
EXTENDS Integers, SequencesExt

R == INSTANCE Regexp
B == INSTANCE RegexpBuilder

Percent == 37
PlusSign == 43
Space == 32
Digits == 48..57
is_digi_alpha(c) == c \in Digits \cup 65..90 \cup 97..122

HexDigit(n) == IF n < 10 THEN 48 + n ELSE 55 + n
url_encode_char(c) == <<Percent, HexDigit(c \div 16), HexDigit(c % 16)>>
Encoder(bytes) ==
    FlattenSeq([i \in DOMAIN bytes |->
                   IF is_digi_alpha(bytes[i]) THEN <<bytes[i]>> ELSE url_encode_char(bytes[i])])

\* The value of a digit of either case; of the letter g too, and zero of
\* what is no digit.
Lower(c) == IF c \in 65..90 THEN c + 32 ELSE c
ValueOf(c) ==
    IF c \in Digits THEN c - 48 ELSE IF Lower(c) \in 97..103 THEN Lower(c) - 87 ELSE 0
convert_to_dec(hex) == (16 * ValueOf(hex[1]) + ValueOf(hex[2])) % 256

\* Of a text that Encoder could have written.  The byte zero ends the string
\* that is appended, and is lost.
Decode(str) ==
    LET From[i \in 1..Len(str) + 1] ==
            CASE i > Len(str) -> <<>>
              [] i <= Len(str) /\ str[i] = PlusSign -> <<Space>> \o From[i + 1]
              [] i <= Len(str) /\ str[i] = Percent ->
                    LET byte == convert_to_dec(<<str[i + 1], str[i + 2]>>)
                    IN  (IF byte = 0 THEN <<>> ELSE <<byte>>) \o From[i + 3]
              [] OTHER -> <<str[i]>> \o From[i + 1]
    IN  From[1]

-----------------------------------------------------------------------------
(* UrlParser::Parse *)

Compiled(pattern) == B!Build(B!Codes(pattern), {}, 1)
TYPE_FMT == Compiled("\\b[Hh][Tt]{2}[Pp]://|\\b[Uu][Dd][Pp]://")
HOST_FMT == Compiled("[\\w,:,/,\\.]+/")
PORT_FMT == Compiled(":[0-9]{1,5}")
INFO_FMT == Compiled("[^/]/[^/][\\w,\\./]+\\b")

IsMatched(re, text) == R!Search(re, R!PrepareMatch(re, text, -1)).ok
GetStart(re, text) == R!Search(re, R!PrepareMatch(re, text, -1)).groups[0][1]
GetEnd(re, text) == R!Search(re, R!PrepareMatch(re, text, -1)).groups[0][2]

\* std::string::substr: from a position, and from the start.
Behind(text, pos) == SubSeq(text, pos + 1, Len(text))
Before(text, pos) == SubSeq(text, 1, pos)

atoi(text) ==
    LET From[i \in 0..Len(text)] ==
            IF i = 0 THEN 0 ELSE 10 * From[i - 1] + text[i] - 48
        digits == CHOOSE n \in 0..Len(text) :
                     /\ \A i \in 1..n : text[i] \in Digits
                     /\ n < Len(text) => text[n + 1] \notin Digits
    IN  From[digits]

\* The host is what HOST_FMT takes without its last slash, or all of the rest.
HostAndPort(rest) ==
    IF IsMatched(HOST_FMT, rest) THEN Before(rest, GetEnd(HOST_FMT, rest) - 1) ELSE rest
Port(host) ==
    IF IsMatched(PORT_FMT, host)
    THEN atoi(Behind(host, GetStart(PORT_FMT, host) + 1)) % 2^16 ELSE 80
Host(host) ==
    IF IsMatched(PORT_FMT, host) THEN Before(host, GetStart(PORT_FMT, host)) ELSE host
Path(url) ==
    IF IsMatched(INFO_FMT, url) THEN Behind(url, GetStart(INFO_FMT, url) + 1) ELSE <<47>>

Type(url) ==
    LET scheme == IF IsMatched(TYPE_FMT, url) THEN Before(url, GetEnd(TYPE_FMT, url) - 3) ELSE <<>>
        lower == [i \in DOMAIN scheme |-> Lower(scheme[i])]
    IN  CASE lower = B!Codes("http") -> "HTTP"
          [] lower = B!Codes("udp") -> "UDP"
          [] OTHER -> "none"
Parse(url) ==
    LET host == HostAndPort(Behind(url, GetEnd(TYPE_FMT, url))) IN
    IF Type(url) = "none" THEN [parsed |-> FALSE]
    ELSE [parsed |-> TRUE, type |-> Type(url), host |-> Host(host), port |-> Port(host),
          path |-> Path(url)]
=============================================================================
