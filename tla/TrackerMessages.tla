-------------------------- MODULE TrackerMessages ---------------------------
(***************************************************************************)
(* What a tracker is asked, as it goes over the network, and how its       *)
(* answer is read: the URL of HttpTracker::build_request_url and the       *)
(* packet of UDPTracker::announcing_udp_tracker, HttpResponse::Parse, and  *)
(* HttpTracker::parse_response, which reads the page.                      *)
(***************************************************************************)
EXTENDS Bencoding

CONSTANTS
    MaxUrl,      \* 10240, the size of the buffer
    MaxVersion, MaxStatus, MaxReason, MaxName, MaxValue    \* MAX_VERSION_LENGTH...

-----------------------------------------------------------------------------
(* The request of an HTTP tracker.  A URL is a sequence of tokens, names and*)
(* values, with the characters that separate them.                         *)

TS_NONE == 0
TS_COMPLETED == 1
TS_START == 2
TS_STOP == 3
EventStr(event) ==
    CASE event = TS_START -> "Started" [] event = TS_COMPLETED -> "Completed"
      [] event = TS_STOP -> "Stopped" [] OTHER -> "None"

\* REQ_URL_FMT: the names in their order, and what stands behind each value.
Names == <<"info_hash", "peer_id", "port", "uploaded", "downloaded", "left", "key", "compact",
           "numwant", "event", "no_peer_id">>
Behind(name) ==
    CASE name = "numwant" -> <<>> [] name = "no_peer_id" -> <<" HTTP/1.0">> [] OTHER -> <<"&">>

\* _snprintf returns -1 when the buffer is too small; the first character is
\* then overwritten by the end of the string.
build_request_url(path, req) ==
    LET value == [name \in ToSet(Names) |->
                     CASE name = "event" -> EventStr(req.event) [] name = "no_peer_id" -> "1" [] OTHER -> req[name]]
        text == <<"GET ">> \o path \o <<"?">>
                \o FlattenSeq([i \in DOMAIN Names |-> <<Names[i], "=", value[Names[i]]>> \o Behind(Names[i])])
    IN  IF Len(text) > MaxUrl THEN <<>> ELSE text

\* The tracker: parameters are separated by &, a value is all behind the first =.
Query(text) ==
    LET from == SelectInSeq(text, LAMBDA t : t = "?")
    IN  SubSeq(text, from + 1, Len(text) - 1)
ReadParameters(text) ==
    LET query == Query(text)
        ends == {0, Len(query) + 1} \cup {i \in DOMAIN query : query[i] = "&"}
        Next(i) == Min({j \in ends : j > i})
    IN  {<<query[i + 1], SubSeq(query, i + 3, Next(i) - 1)>> : i \in ends \ {Len(query) + 1}}

-----------------------------------------------------------------------------
(* The packet.  A number of n bytes is the sequence of its bytes, the highest*)
(* first; the machine keeps the lowest first.                              *)

FromNativeOrderToNetOrder(number) == Reverse(number)
\* A number as it lies in memory, and the bytes of it that are sent.
InMemory(number) == Reverse(number)
Packed(req, connection_id, transaction_id) ==
    InMemory(FromNativeOrderToNetOrder(connection_id))
    \o InMemory(FromNativeOrderToNetOrder(<<0, 0, 0, 1>>))
    \o InMemory(FromNativeOrderToNetOrder(transaction_id))
    \o req.info_hash \o req.peer_id
    \o InMemory(FromNativeOrderToNetOrder(req.downloaded))
    \o InMemory(FromNativeOrderToNetOrder(req.left))
    \o InMemory(req.uploaded) \o InMemory(req.event) \o <<0, 0, 0, 0>>
    \o InMemory(FromNativeOrderToNetOrder(req.key))
    \o InMemory(FromNativeOrderToNetOrder(req.numwant))
    \o InMemory(FromNativeOrderToNetOrder(req.listen_port)) \o <<0, 0>>

\* The tracker: the fields at their places, with the lengths of a hash and a
\* peer id as given.
ReadPacket(packet, n) ==
    LET At(pos, len) == SubSeq(packet, pos + 2 * n + 1, pos + 2 * n + len)
    IN  [connection_id |-> SubSeq(packet, 1, 8), transaction_id |-> SubSeq(packet, 13, 16),
         info_hash |-> SubSeq(packet, 17, 16 + n), peer_id |-> SubSeq(packet, 17 + n, 16 + 2 * n),
         downloaded |-> At(16, 8), left |-> At(24, 8), uploaded |-> At(32, 8), event |-> At(40, 4),
         key |-> At(48, 4), numwant |-> At(52, 4), listen_port |-> At(56, 2)]

-----------------------------------------------------------------------------
(* The response: a position goes through the text, whose characters are SP,*)
(* TAB, CR, LF, the colon and others; behind the last one it finds EOF.  The*)
(* result has no fields when the text is refused.                          *)

Blank == {"SP", "TAB"}
EndOfLine == {"CR", "LF"}
Space == Blank \cup EndOfLine

At(text, i) == IF i \in DOMAIN text THEN text[i] ELSE "EOF"

Between(text, from, to) == SubSeq(text, from, to - 1)

\* The first position from i on that is not a space.
Skip(text, i) == Min({j \in i..Len(text) + 1 : At(text, j) \notin Space})

\* The first position from i on with one of stops or EOF, or max behind i.
Until(text, i, stops, max) ==
    Min({j \in i..Len(text) + 1 : At(text, j) \in stops \cup {"EOF"}} \cup {i + max})

Refused == [parsed |-> FALSE]

\* Behind the end of a line at i, or behind the text; 0 for another character.
NextLine(text, i) ==
    LET end == IF At(text, i) = "CR" THEN i + 1 ELSE i
    IN  CASE At(text, end) = "LF" -> end + 1
          [] At(text, end) = "EOF" -> end
          [] OTHER -> 0

\* A value from i on, with the lines folded into it, which begin with a blank;
\* all of them are no longer than MaxValue together.
RECURSIVE ReadValue(_, _, _)
ReadValue(text, i, value) ==
    LET end == Until(text, i, EndOfLine, MaxValue - Len(value))
        longer == value \o Between(text, i, end)
        next == NextLine(text, end)
    IN  IF next # 0 /\ At(text, next) \in Blank THEN ReadValue(text, next, longer)
        ELSE [value |-> longer, next |-> next]

\* parse_header_content: the fields, the last one of a name, and where it ends.
NoHeader == [next |-> 0, fields |-> {}]
RECURSIVE ParseHeader(_, _, _)
ParseHeader(text, i, fields) ==
    IF At(text, i) \in EndOfLine \cup {"EOF"} THEN [next |-> i, fields |-> fields]
    ELSE LET colon == Until(text, i, {":"}, MaxName)
             name == Between(text, i, colon)
             value == ReadValue(text, Skip(text, colon + 1), <<>>)
         IN  IF At(text, colon) # ":" \/ value.next = 0 THEN NoHeader
             ELSE ParseHeader(text, value.next,
                              {f \in fields : f[1] # name} \cup {<<name, value.value>>})

\* Parse.  The body begins behind the next LF.
Parse(text) ==
    LET version == Skip(text, 1)
        version_end == Until(text, version, Space, MaxVersion)
        status == Skip(text, version_end)
        status_end == Until(text, status, Space, MaxStatus)
        reason == Skip(text, status_end)
        reason_end == Until(text, reason, EndOfLine, MaxReason)
        line_end == IF At(text, reason_end) = "CR" THEN reason_end + 1 ELSE reason_end
        header == ParseHeader(text, line_end + 1, {})
        body == Until(text, header.next, {"LF"}, Len(text) + 1) + 1
    IN  IF \/ At(text, version) = "EOF" \/ At(text, version_end) \notin Space
           \/ At(text, status_end) \notin Space \/ At(text, reason_end) \notin Space
           \/ header.next = 0
        THEN Refused
        ELSE [parsed |-> TRUE,
              version |-> Between(text, version, version_end),
              status |-> Between(text, status, status_end),
              reason |-> Between(text, reason, reason_end),
              fields |-> header.fields,
              body |-> SubSeq(text, body, Len(text))]

-----------------------------------------------------------------------------
(* The page.  A key is one character, a byte of an address or a port one as*)
(* well; values that the code casts without looking have the type they should.*)

FAILURE_REASON == <<"F">>
INTERVAL == <<"T">>
COMPLETE == <<"C">>
INCOMPLETE == <<"D">>
PEERS == <<"P">>
PORT == <<"O">>
IP == <<"I">>

NumberAt(dict, key) == IF HasKey(dict, key) THEN GetValue(dict, key).int ELSE 0

\* The compact form: while there are six bytes, an address is read and erased,
\* a port is read, but not erased.
CompactPeers(bytes) ==
    [k \in 1..(Len(bytes) - 2) \div 4 |->
        [addr |-> SubSeq(bytes, 4 * k - 3, 4 * k), port |-> SubSeq(bytes, 4 * k + 1, 4 * k + 2)]]

\* The other form: the entries that have a port and an address.
ListedPeers(list) ==
    LET known == SelectSeq(list, LAMBDA p : HasKey(p.dict, PORT) /\ HasKey(p.dict, IP))
    IN  [k \in DOMAIN known |-> [addr |-> GetValue(known[k].dict, IP).str,
                                 port |-> GetValue(known[k].dict, PORT).int]]

NoReply == [answered |-> FALSE]

ParseResponse(content) ==
    LET read == ReadDict(SetContent(content), 1)
        dict == read.value.dict
        value == GetValue(dict, PEERS)
        peers == IF IsA(value, "list") THEN ListedPeers(value.list)
                 ELSE IF IsA(value, "str") /\ Len(value.str) >= 6 THEN CompactPeers(value.str)
                 ELSE <<>>
    IN  IF read.read = 0 \/ HasKey(dict, FAILURE_REASON) \/ ~HasKey(dict, PEERS) THEN NoReply
        ELSE IF peers = <<>> THEN NoReply
        ELSE [answered |-> TRUE,
              interval |-> NumberAt(dict, INTERVAL), completed |-> NumberAt(dict, COMPLETE),
              incompleted |-> NumberAt(dict, INCOMPLETE), peers |-> peers]
=============================================================================
