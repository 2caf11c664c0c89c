---------------------------- MODULE PeerMessages ----------------------------
(***************************************************************************)
(* What two peers send each other: how PeerIO cuts what a socket has into  *)
(* messages, and the messages of PeerLink as bytes, which the send_        *)
(* functions write, OnNetPackage takes apart for its handlers and both     *)
(* ends count.                                                             *)
(***************************************************************************)
EXTENDS SimpleBuffer, Integers, SequencesExt

CONSTANTS
    Base,            \* bytes are 0..Base - 1
    HeaderLength,    \* sizeof(t_uint32)
    MaxMessage,      \* MAX_PROTOCOL_MSG_LEN
    NBits,           \* pieces of the task
    MaxRequest       \* 128 * KB

-----------------------------------------------------------------------------
(* PeerIO::OnInput: what a socket has is appended to m_recv_buf and cut into*)
(* messages, each a header with its length and that many bytes.  A message may*)
(* come in any number of reads, and many messages in one.                  *)

NewPeerIO == [m_recv_buf |-> NewBuffer, m_state |-> "RECV_PROTOCOL_LEN",
              m_remain_len |-> 0, aborted |-> FALSE,
              events |-> <<>>]     \* history: the NetIOEvents sent to the task

\* The number a header in network order stands for.
FromNetOrder(header) == FoldLeft(LAMBDA value, byte : value * Base + byte, 0, header)

AtLength(io) == io.m_state = "RECV_PROTOCOL_LEN" /\ Size(io.m_recv_buf) >= HeaderLength

ReadLength(io) ==
    LET remain == FromNetOrder(SubSeq(Data(io.m_recv_buf), 1, HeaderLength))
        rest == [io EXCEPT !.m_recv_buf = Erase(@, HeaderLength), !.m_remain_len = remain]
    IN  IF remain > MaxMessage THEN [rest EXCEPT !.aborted = TRUE]
        ELSE [rest EXCEPT !.m_state = "RECV_PROTOCOL_MSG"]

AtMessage(io) ==
    /\ ~io.aborted /\ io.m_state = "RECV_PROTOCOL_MSG"
    /\ Size(io.m_recv_buf) >= io.m_remain_len

ReadMessage(io) ==
    [io EXCEPT !.events = Append(@, SubSeq(Data(io.m_recv_buf), 1, io.m_remain_len)),
               !.m_recv_buf = Erase(@, io.m_remain_len),
               !.m_state = "RECV_PROTOCOL_LEN", !.m_remain_len = 0]

\* One turn of the loop, which is left with an abort or without a length to read.
Turn(io) ==
    LET length == IF AtLength(io) THEN ReadLength(io) ELSE io
    IN  IF AtMessage(length) THEN ReadMessage(length) ELSE length

\* Every turn but the first reads a length: there are no more of them than bytes.
OnInput(io, bytes) ==
    LET recv == [io EXCEPT !.m_recv_buf = Insert(@, bytes)]
    IN  FoldLeft(LAMBDA now, byte : IF ~now.aborted /\ AtLength(now) THEN Turn(now) ELSE now,
                 Turn(recv), Data(recv.m_recv_buf))

\* A link to which reads came, one after the other, until it was removed.
Received(reads) ==
    FoldLeft(LAMBDA io, bytes : IF io.aborted THEN io ELSE OnInput(io, bytes),
             NewPeerIO, reads)

----------------------------------------------------------------------------
(* What the link should do: the stream is the messages it reports, each     *)
(* behind its length, and a rest in which there is no whole message.        *)

ToNetOrder(n) == [i \in 1..HeaderLength |-> (n \div Base^(HeaderLength - i)) % Base]

Framed(events) ==
    FoldLeft(LAMBDA stream, event : stream \o ToNetOrder(Len(event)) \o event, <<>>, events)

IsFramingOf(io, stream) ==
    LET framed == Framed(io.events)
        rest == SubSeq(stream, Len(framed) + 1, Len(stream))
        length == FromNetOrder(SubSeq(rest, 1, HeaderLength))
    IN  /\ IsPrefix(framed, stream)
        /\ io.aborted <=> Len(rest) >= HeaderLength /\ length > MaxMessage
        /\ Len(rest) >= HeaderLength /\ ~io.aborted =>
               Len(rest) < HeaderLength + length

-----------------------------------------------------------------------------
(* The messages.  A message is the name of its handler and its arguments.  *)

NBytes == (NBits + 7) \div 8

\* htonl and ntohl.
htonl(n) == [k \in 1..4 |-> (n \div 256^(4 - k)) % 256]
ntohl(bytes, pos) ==
    FoldLeft(LAMBDA n, byte : 256 * n + byte, 0, SubSeq(bytes, pos, pos + 3))

Written(bytes, payload, protocol) ==
    [bytes |-> bytes, payload |-> payload, protocol |-> protocol]

send_choke(choke) == Written(htonl(1) \o <<IF choke THEN 0 ELSE 1>>, 0, 5)
send_interested(interested) ==
    Written(htonl(1) \o <<IF interested THEN 2 ELSE 3>>, 0, 5)
send_have(piece) == Written(htonl(5) \o <<4>> \o htonl(piece), 0, 9)
send_bitfield(content) ==           \* nothing while no piece is owned
    IF \A k \in DOMAIN content : content[k] = 0 THEN Written(<<>>, 0, 0)
    ELSE Written(htonl(1 + NBytes) \o <<5>> \o content, 0, 5 + NBytes)
send_request(piece, offset, len) ==
    Written(htonl(13) \o <<6>> \o htonl(piece) \o htonl(offset) \o htonl(len), 0, 17)
send_cancel(piece, offset, len) ==
    Written(htonl(13) \o <<8>> \o htonl(piece) \o htonl(offset) \o htonl(len), 0, 17)
send_piece_data(piece, offset, data) ==
    Written(htonl(9 + Len(data)) \o <<7>> \o htonl(piece) \o htonl(offset) \o data,
            Len(data), 13)
send_keep_alive == Written(htonl(0), 0, 4)

Handled(name, args, payload, protocol) ==
    [ok |-> TRUE, name |-> name, args |-> args, payload |-> payload, protocol |-> protocol]
Ignored == Handled("none", <<>>, 0, 0)
Refused == [Ignored EXCEPT !.ok = FALSE]

on_have(data) ==
    IF Len(data) = 4 /\ ntohl(data, 1) < NBits
    THEN Handled("have", <<ntohl(data, 1)>>, 0, 9) ELSE Refused
on_bitfield(data, link) ==
    IF Len(data) = NBytes /\ ~link.received_bitfield
    THEN Handled("bitfield", data, 0, Len(data) + 5) ELSE Refused
on_request(data, link) ==
    LET args == <<ntohl(data, 1), ntohl(data, 5), ntohl(data, 9)>>
    IN  CASE Len(data) # 12 -> Refused
          [] Len(data) = 12 /\ link.choking -> Ignored
          [] OTHER -> IF args[1] \in link.owned /\ args[3] \in 1..MaxRequest
                      THEN Handled("request", args, 0, 17) ELSE Refused
on_cancel(data) ==
    IF Len(data) = 12
    THEN Handled("cancel", <<ntohl(data, 1), ntohl(data, 5), ntohl(data, 9)>>, 0, 17)
    ELSE Refused
on_piece(data) ==                   \* before the request it answers is looked up
    IF Len(data) > 8
    THEN Handled("piece", <<ntohl(data, 1), ntohl(data, 5), SubSeq(data, 9, Len(data))>>,
                 Len(data) - 8, 13)
    ELSE Refused

\* A package without its length.  Of link: received_bitfield, choking (the
\* other end is choked), and the owned pieces.
OnNetPackage(package, link) ==
    LET cmd == package[1]
        data == Tail(package)
    IN  CASE package = <<>> -> Ignored
          [] package # <<>> /\ cmd \in 0..3 ->
                Handled(<<"choke", "unchoke", "interested", "not_interested">>[cmd + 1], <<>>, 0, 5)
          [] package # <<>> /\ cmd = 4 -> on_have(data)
          [] package # <<>> /\ cmd = 5 -> on_bitfield(data, link)
          [] package # <<>> /\ cmd = 6 -> on_request(data, link)
          [] package # <<>> /\ cmd = 7 -> on_piece(data)
          [] package # <<>> /\ cmd = 8 -> on_cancel(data)
          [] OTHER -> Ignored

-----------------------------------------------------------------------------
(* The handshake, which goes before all messages (ConnValidator.cpp).      *)

PROTOCOL_STRING == <<66, 105, 116, 84, 111, 114, 114, 101, 110, 116, 32,
                     112, 114, 111, 116, 111, 99, 111, 108>>
PROTOCOL_LENGTH == Len(PROTOCOL_STRING)
RESERVED_8BYTES == [i \in 1..8 |-> 0]

\* The hash and the peer id have 20 bytes each.
build_hand_shake(info_hash, peer_id) ==
    <<PROTOCOL_LENGTH>> \o PROTOCOL_STRING \o RESERVED_8BYTES \o info_hash \o peer_id

parse_handshake_info(bytes) ==
    IF bytes[1] = PROTOCOL_LENGTH /\ SubSeq(bytes, 2, PROTOCOL_LENGTH + 1) = PROTOCOL_STRING
    THEN [ok |-> TRUE, ext_info |-> SubSeq(bytes, 21, 28),
          info_hash |-> SubSeq(bytes, 29, 48), peer_id |-> SubSeq(bytes, 49, 68)]
    ELSE [ok |-> FALSE]
=============================================================================
