----------------------------- MODULE MCTracker ------------------------------
(***************************************************************************)
(* The trackers of Tracker, and on small inputs what is sent to them and   *)
(* what HttpTracker makes of what it receives (TrackerMessages), the URL a *)
(* request is sent to (Url) and the regular expressions it is split by.    *)
(***************************************************************************)
EXTENDS Tracker

LOCAL INSTANCE TLC

M == INSTANCE TrackerMessages WITH
         MaxUrl <- 60, MaxVersion <- 2, MaxStatus <- 1, MaxReason <- 8, MaxName <- 2, MaxValue <- 3
U == INSTANCE Url
Regex == INSTANCE Regexp
Builder == INSTANCE RegexpBuilder

-----------------------------------------------------------------------------
(* Announcements with values of a few kinds, in URLs of at most 60 tokens, and*)
(* packets with a hash and a peer id of two bytes.                         *)

Requests ==
    [info_hash : {"h"}, peer_id : {"p"}, port : {"6881"}, uploaded : {"0", "9"}, downloaded : {"0", "9"},
     left : {"7"}, key : {"5"}, compact : {"0", "1"}, numwant : {"200"}, event : 0..3]

\* The tracker reads in the URL what it is told, but never the event: there is
\* no & before it, so it is read as part of numwant (HttpTracker.cpp 23-24,
\* 60-75).
ASSUME EventIsNotRead ==
    \A req \in Requests :
        LET read == M!ReadParameters(M!build_request_url(<<"a">>, req))
            Value(name) == {p[2] : p \in {q \in read : q[1] = name}}
        IN  /\ \A name \in DOMAIN req \ {"event", "numwant"} : Value(name) = {<<req[name]>>}
            /\ Value("event") = {}
            /\ Value("numwant") = {<<req.numwant, "event", "=", M!EventStr(req.event)>>}

\* A URL that does not fit is not cut but empty (60-76).
ASSUME LongUrlIsEmpty ==
    \A n \in 0..30 : \A req \in {r \in Requests : r.uploaded = "9" /\ r.event = 2} :
        LET Asked(len) == M!build_request_url([i \in 1..len |-> "a"], req)
        IN  IF Len(Asked(0)) + n <= 60
            THEN SubSeq(Asked(n), 3 + n, Len(Asked(n))) = Tail(Tail(Asked(0)))
            ELSE Asked(n) = <<>>

Wide(n) == {[i \in 1..n |-> IF i = n THEN last ELSE first] : first \in {0, 3}, last \in {0, 1}}

\* A UDP tracker reads every field as it was told, but for the event and what
\* was uploaded, whose bytes are not turned round (UDPTracker.cpp 149-153): it
\* reads them right only when they are the same from both ends, as zero is.
ASSUME PacketIsRead ==
    \A up, down, left \in Wide(8) : \A event \in 0..3 : \A key \in Wide(4) :
        LET req == [info_hash |-> <<1, 2>>, peer_id |-> <<3, 4>>, downloaded |-> down, left |-> left,
                    uploaded |-> up, event |-> <<0, 0, 0, event>>, key |-> key, numwant |-> <<0, 0, 0, 200>>,
                    listen_port |-> <<26, 225>>]
            id == <<9, 8, 7, 6, 5, 4, 3, 2>>
            read == M!ReadPacket(M!Packed(req, id, <<0, 0, 1, 2>>), 2)
        IN  /\ \A field \in DOMAIN req \ {"uploaded", "event"} : read[field] = req[field]
            /\ read.connection_id = id /\ read.transaction_id = <<0, 0, 1, 2>>
            /\ read.event = <<event, 0, 0, 0>>
            /\ read.uploaded = up <=> up = Reverse(up)

-----------------------------------------------------------------------------
(* The response.                                                            *)

CRLF == <<"CR", "LF">>
Names == {<<"a">>, <<"a", "b">>}
Headers ==
    {<<>>} \cup {<<f>> : f \in Names \X {<<"x">>, <<"x", ":", "y">>}} \cup
    {<<<<n, v>>, <<m, <<"y">>>>>> : n, m \in Names, v \in {<<"x">>, <<":", "SP">>}}
Bodies == {<<>>, <<"d", "e">>, <<"LF", "a", ":", "CR">>}

Lines(headers, newline) ==
    M!FlattenSeq([i \in DOMAIN headers |->
                     headers[i][1] \o <<":", "SP">> \o headers[i][2] \o newline])
Response(reason, headers, newline, body) ==
    <<"H", "SP", "2", "SP">> \o reason \o newline \o Lines(headers, newline) \o newline \o body

\* The field a name has in the end: that of its last line.
Fields(headers) ==
    {headers[i] : i \in {j \in DOMAIN headers :
        \A k \in DOMAIN headers : k > j => headers[k][1] # headers[j][1]}}

\* A response with a reason is read as it was written, by hosts that end lines
\* with CR LF or with LF, and the body is what follows the empty line.
ASSUME ResponseRead ==
    \A reason \in {<<"o">>, <<"o", "k">>}, headers \in Headers,
       newline \in {CRLF, <<"LF">>}, body \in Bodies :
        M!Parse(Response(reason, headers, newline, body)) =
            [parsed |-> TRUE, version |-> <<"H">>, status |-> <<"2">>, reason |-> reason,
             fields |-> Fields(headers), body |-> body]

\* Without a reason the blanks behind the status are skipped with the end of
\* the line (HttpResponse.cpp 128): the first line of the header is taken for
\* the reason, and the location of a redirection may be lost with it.
ASSUME FieldLostWithoutReason ==
    \A headers \in Headers \ {<<>>} :
        LET parsed == M!Parse(Response(<<>>, headers, CRLF, <<"d", "e">>)) IN
        /\ parsed.reason = Lines(SubSeq(headers, 1, 1), <<>>)
        /\ parsed.fields = Fields(Tail(headers))

\* However it is cut, what is read of a response is a beginning of the whole:
\* nothing is made up and no body is read before the header ends; but a value
\* that was cut is taken (55, 77: EOF ends a line).
ASSUME CutResponse ==
    \A headers \in Headers, body \in Bodies :
        LET text == Response(<<"o", "k">>, headers, CRLF, body)
            whole == M!Parse(text)
        IN  \A n \in 0..Len(text) - 1 :
                LET cut == M!Parse(SubSeq(text, 1, n)) IN
                cut.parsed =>
                    /\ cut.status = whole.status
                    /\ M!IsPrefix(cut.body, whole.body)
                    /\ cut.body # <<>> => cut.fields = whole.fields
                    /\ \A f \in cut.fields : \E i \in DOMAIN headers :
                          f[1] = headers[i][1] /\ M!IsPrefix(f[2], headers[i][2])

-----------------------------------------------------------------------------
(* The page.                                                                *)

Page(peers) ==
    M!GenContent(<< <<M!INTERVAL, M!Integer(30)>>, <<M!COMPLETE, M!Integer(2)>>,
                    <<M!PEERS, peers>>, <<M!INCOMPLETE, M!Integer(1)>> >>)
Answered(peers) ==
    [answered |-> TRUE, interval |-> 30, completed |-> 2, incompleted |-> 1, peers |-> peers]

Addr(k) == [i \in 1..4 |-> M!Digit[2 * k + (i % 2)]]
Port(k) == [i \in 1..2 |-> M!Digit[2 * k + (i % 2)]]

\* HttpTracker::Run reads the page until EOF, and takes that for a byte too.
EOF == <<"EOF">>

\* A page that lists peers in dictionaries is read as it is, without the
\* entries that lack something.
ASSUME ListedPeersRead ==
    \A n \in 0..3 : \A whole \in [1..n -> BOOLEAN] :
        LET ip(k) == <<M!IP, M!String(Addr(k))>>
            peer(k) == M!Dict(IF whole[k] THEN <<ip(k), <<M!PORT, M!Integer(k)>>>> ELSE <<ip(k)>>)
            read == M!SetToSortSeq({k \in 1..n : whole[k]}, <)
        IN  M!ParseResponse(Page(M!List([k \in 1..n |-> peer(k)])) \o EOF) =
                IF read = <<>> THEN M!NoReply
                ELSE Answered([k \in DOMAIN read |-> [addr |-> Addr(read[k]), port |-> read[k]]])

\* In the compact form an entry has six bytes and is left after four
\* (HttpTracker.cpp 376-383): of n peers the odd ones are read, among about
\* n / 2 entries of which half are none of the tracker's.
ASSUME CompactPeersMisread ==
    \A n \in 1..4 :
        LET peer(k) == [addr |-> Addr(k), port |-> Port(k)]
            bytes == M!FlattenSeq([k \in 1..n |-> Addr(k) \o Port(k)])
            reply == M!ParseResponse(Page(M!String(bytes)) \o EOF)
        IN  /\ reply = Answered(reply.peers)
            /\ Len(reply.peers) = (6 * n - 2) \div 4
            /\ \A k \in 1..n : peer(k) \in M!ToSet(reply.peers) <=> k % 2 = 1

-----------------------------------------------------------------------------
(* Regular expressions: trees of repetitions, lists and alternatives against*)
(* the set of the places where a match may end, and the rest of the syntax by*)
(* example.                                                                *)

\* The patterns, as trees and as what is written.
Quantifier == {"?", "*", "+", "{1,2}", "{2}", "??", "*?", "+?"}
Low == [q \in Quantifier |->
    CASE q \in {"+", "{1,2}", "+?"} -> 1 [] q = "{2}" -> 2 [] OTHER -> 0]
High == [q \in Quantifier |->
    CASE q \in {"?", "??"} -> 1 [] q \in {"{2}", "{1,2}"} -> 2 [] OTHER -> 4]
Reluctant == {"??", "*?", "+?"}

Atom == {[op |-> "chars", text |-> t] : t \in {"a", "ab"}} \cup {[op |-> "any", text |-> "."]}
Repeats(es) == [op : {"repeat"}, elem : es, q : Quantifier]
Pairs(es) == [op : {"list", "alternative"}, elems : es \X es]
Level1 == Atom \cup Repeats(Atom)
Patterns == Level1 \cup Pairs(Level1) \cup Repeats(Level1) \cup Repeats(Pairs(Atom))

RECURSIVE Written(_)
Written(e) ==
    CASE e.op \in {"chars", "any"} -> e.text
      [] e.op = "repeat" -> "(" \o Written(e.elem) \o ")" \o e.q
      [] e.op = "list" -> "(" \o Written(e.elems[1]) \o ")(?:" \o Written(e.elems[2]) \o ")"
      [] e.op = "alternative" -> Written(e.elems[1]) \o "|" \o Written(e.elems[2])

\* Where a match of e that begins at i may end.
RECURSIVE Ends(_, _, _), Times(_, _, _, _)
Ends(e, t, i) ==
    CASE e.op = "chars" ->
            LET s == Builder!Codes(e.text) IN
            {n \in {i + Len(s)} \cap 0..Len(t) : SubSeq(t, i + 1, n) = s}
      [] e.op = "any" -> {i + 1} \cap 0..Len(t)
      [] e.op = "list" -> UNION {Ends(e.elems[2], t, k) : k \in Ends(e.elems[1], t, i)}
      [] e.op = "alternative" -> Ends(e.elems[1], t, i) \cup Ends(e.elems[2], t, i)
      [] e.op = "repeat" -> UNION {Times(e.elem, n, t, i) : n \in Low[e.q]..High[e.q]}
Times(e, n, t, i) == IF n = 0 THEN {i} ELSE UNION {Ends(e, t, k) : k \in Times(e, n - 1, t, i)}

Texts == UNION {[1..n -> {97, 98}] : n \in 0..3}
Whole(e) == {t \in Texts : Len(t) \in Ends(e, t, 0)}
Compiled(pattern) == Builder!Build(Builder!Codes(pattern), {}, 1)
Exactly(pattern) == LET re == Compiled(pattern) IN {t \in Texts : Regex!MatchExact(re, t).ok}
Recognised(pattern, text) == Regex!MatchExact(Compiled(pattern), Builder!Codes(text)).ok

----------------------------------------------------------------------------
\* A greedy repetition exchanges its last copy for another match of it and
\* then tries no further one (GreedyNextVart).
MayMiss(e) ==
    e.op = "repeat" /\ High[e.q] > 1 /\ e.q \notin Reluctant /\ e.elem.op = "alternative"

\* MatchExact gives up when it finds the empty match twice in succession.
MayBeEmpty(e) == e.op = "repeat" /\ Low[e.q] = 0
MayGiveUp(e) ==
    /\ e.op = "alternative" /\ MayBeEmpty(e.elems[1]) /\ MayBeEmpty(e.elems[2])
    /\ e.elems[1].q \notin Reluctant /\ e.elems[2].q \in Reluctant

\* A text that is matched exactly (deelx.h 3108-3140) is one the pattern says,
\* and all of those are, but for the two kinds of patterns above.
ASSUME MatchesAreReal ==
    \A e \in Patterns : \A t \in Exactly(Written(e)) : Len(t) \in Ends(e, t, 0)
ASSUME MatchesAreFound ==
    \A e \in Patterns : Exactly(Written(e)) = Whole(e) \/ MayMiss(e) \/ MayGiveUp(e)

\* Where they are not: an ordinary list of words is not recognised as one
\* (3778-3793), and an optional part hides the alternative behind it (3123).
ASSUME GreedyMisses == ~Recognised("(a|ab)*", "aba") /\ Recognised("(ab|a)*", "aba")
ASSUME ExactGivesUp == ~Recognised("(a)?|(ab)??", "ab") /\ Recognised("(a)?|ab", "ab")

----------------------------------------------------------------------------
\* The first match, its groups; <<-1, -1>> for one that took no part.
Groups(pattern, text) ==
    LET re == Compiled(pattern)
        r == Regex!Search(re, Regex!PrepareMatch(re, Builder!Codes(text), -1))
    IN  IF r.ok THEN [n \in 1..re.max + 1 |-> r.groups[n - 1]] ELSE <<>>
Absent == <<-1, -1>>

\* The rest of the syntax (1493-3017), one example each: named groups and
\* references, flags, looking behind, conditions, classes, calls, possessive
\* repetitions, boundaries, numbers of characters, comments.
Examples == {
    <<"(?<n>a+)(?'m'b)\\k<n>\\k<m>", "xaabaab", <<<<1, 7>>, <<1, 3>>, <<3, 4>>>>>>,
    <<"(?i)AB(?-i:c)", "abCabc", <<<<3, 6>>>>>>,
    <<"(?<=x)a", "axa", <<<<2, 3>>>>>>,
    <<"a(?!b)(.)", "abac", <<<<2, 4>>, <<3, 4>>>>>>,
    <<"(a)?(?(1)b|c)", "c", <<<<0, 1>>, Absent>>>>,
    <<"(a)?(?(1)b|c)", "ab", <<<<0, 2>>, <<0, 1>>>>>>,
    <<"[[:^digit:]x-z\\d]+", "12ab[]", <<<<0, 6>>>>>>,
    <<"(\\((?:[^()]|(?1))*\\))", "x(a(b)c)", <<<<1, 8>>, <<1, 8>>>>>>,
    <<"a{2,3}+b", "aaaab", <<<<1, 5>>>>>>,
    <<"a{2,3}+a", "aaa", <<>>>>,
    <<"\\bb\\x63$", "abc bc", <<<<4, 6>>>>>>,
    <<"a(?#b)c", "ac", <<<<0, 2>>>>>> }
ASSUME SyntaxRead == \A e \in Examples : Groups(e[1], e[2]) = e[3]

\* What is read otherwise than written: a bracket inside of a set makes all
\* behind it plain characters (1943-1950), a comment that is not closed repeats
\* what stands before it, and a group of an independent part that was given up
\* stays set.
ASSUME SyntaxMisread ==
    /\ Groups("[[]x(y)", "[x(y)") = <<<<0, 5>>>>
    /\ Groups("ab(?#x", "abb") = <<<<0, 3>>>>
    /\ Groups("(?>(a))b|ac", "ac")[2] # Absent

----------------------------------------------------------------------------
\* Replacing (3284-3573).
Sides == {{}, {"RIGHTTOLEFT"}}
Replacement(pattern, flags, text, to, ntimes) ==
    Regex!Replace(Builder!Build(Builder!Codes(pattern), flags, 1), text, Builder!Codes(to), -1, ntimes)
AllReplaced(pattern, text, to) == Replacement(pattern, {}, Builder!Codes(text), to, -1).text
Short == Level1 \cup Pairs(Atom)

\* What is replaced by itself stays, from either side, however the match is
\* named and wherever it is empty.
ASSUME ReplacedByItself ==
    \A e \in Short, t \in Texts, flags \in Sides :
        /\ Replacement(Written(e), flags, t, "$0", -1).text = t
        /\ Replacement("(?<n>" \o Written(e) \o ")", flags, t, "${N}", -1).text = t

\* The first matches are replaced, from the side the matches are found from,
\* and are counted; the place of the last is right only from the left: from
\* the right it is counted behind the text (3563-3564).
ASSUME ReplacesTheFirst ==
    \A t \in Texts, flags \in Sides, ntimes \in 0..3 :
        LET r == Replacement("a", flags, t, "<$$>", ntimes)
            at(i) == IF flags = {} THEN {k \in 1..i : t[k] = 97} ELSE {k \in i..Len(t) : t[k] = 97}
            put(i) == t[i] = 97 /\ Cardinality(at(i)) <= ntimes
            times == Cardinality({i \in DOMAIN t : put(i)})
        IN  /\ r.text = FlattenSeq([i \in DOMAIN t |->
                             IF put(i) THEN Builder!Codes("<$>") ELSE <<t[i]>>])
            /\ r.ntime = times
            /\ times > 0 => IF flags = {} THEN SubSeq(r.text, r.place[1] + 1, r.place[2]) = Builder!Codes("<$>")
                            ELSE r.place[2] >= Len(r.text) /\ r.place[1] > Len(r.text)

\* A number is as long as there is a group for it; a sign is replaced and is
\* kept as well, because its case goes on with the next (3326-3334).
ASSUME ReferencesRead ==
    /\ AllReplaced("(a)(b)?", "ab-a", "[$2$1$12$3]") = Builder!Codes("[baa2$3]-[aa2$3]")
    /\ AllReplaced("(?<n>a)|b", "ab", "${n}${m}") = Builder!Codes("a${m}${m}")
    /\ AllReplaced("a", "xay", "[$_]") = Builder!Codes("x[xay$_]y")
    /\ AllReplaced("a", "xay", "$'") = Builder!Codes("xy$'y")
    /\ AllReplaced("(a)(b)?", "a", "$+") = Builder!Codes("a$+")

-----------------------------------------------------------------------------
(* URLs.                                                                   *)

\* Any byte of a hash can stand in a request: what Encoder writes is decoded to
\* the bytes it was made from, and has no characters with a meaning in a URL.
\* Only the byte zero would be lost by URLDecoder, which nothing calls.
ASSUME EncodedIsDecoded ==
    \A a, b \in {0, 1, 9, 32, 37, 43, 47, 48, 57, 64, 65, 90, 97, 122, 127, 128, 160, 255} :
        LET bytes == <<65, a, b, 48>>
            text == U!Encoder(bytes)
        IN  /\ U!Decode(text) = M!SelectSeq(bytes, LAMBDA c : c # 0)
            /\ \A i \in DOMAIN text : U!is_digi_alpha(text[i]) \/ text[i] = U!Percent

Slashed(parts) == U!FlattenSeq([i \in DOMAIN parts |-> U!B!Codes("/") \o parts[i]])
Text(url) ==
    U!B!Codes(url.scheme \o "://" \o url.name \o url.port) \o Slashed(url.path)

UrlParts == {U!B!Codes("a"), U!B!Codes("ab")}
UrlPaths ==
    {<<>>, <<<<>>>>} \cup [1..1 -> UrlParts] \cup [1..2 -> UrlParts] \cup [1..3 -> UrlParts]
    \cup {<<part, <<>>>> : part \in UrlParts}
Urls == [scheme : {"http", "uDP", "ftp"}, name : {"ho", "h.o"}, port : {"", ":80", ":6969"},
         path : UrlPaths]
PortOf(url) == IF url.port = ":6969" THEN 6969 ELSE 80

\* A URL is split into its name, port and path; but without a port the name
\* keeps all of the path up to its last slash (URL.cpp 168, 203-205), so that
\* the host is not found, and a path of one character becomes a slash (170).
ASSUME UrlSplit ==
    \A url \in Urls :
        LET parsed == U!Parse(Text(url)) IN
        /\ parsed.parsed <=> url.scheme # "ftp"
        /\ parsed.parsed =>
              /\ parsed.host = U!B!Codes(url.name) <=> url.port # "" \/ Len(url.path) < 2
              /\ parsed.port = PortOf(url)
              /\ parsed.path = Slashed(url.path) <=>
                    url.path # <<>> /\ (Len(url.path[1]) # 1 \/ Len(Slashed(url.path)) > 3)
=============================================================================
