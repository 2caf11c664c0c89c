------------------------------ MODULE MCUpload ------------------------------
(***************************************************************************)
(* Two peers and one slot: the first asks for two slices, so that requests *)
(* wait in its list while it is choked, served and cancelled; the second   *)
(* competes for the slot.  And on small inputs, what a message is as bytes *)
(* (PeerMessages) and how the bytes are counted (Statistics).              *)
(***************************************************************************)
EXTENDS Upload, SequencesExt

MCWants == <<{"s1", "s2"}, {}>>

-----------------------------------------------------------------------------
(* Messages: a task of 12 pieces.                                           *)

M == INSTANCE PeerMessages WITH NBits <- 12, MaxRequest <- 128 * 1024,
         Junk <- 0, Base <- 256, HeaderLength <- 4, MaxMessage <- 1024

Pieces == {0, 7, 11}
Offsets == {0, 255, 256, 65536, 16777216 + 258}
Lengths == {1, 16384, 128 * 1024}
Blocks == {<<9>>, <<0, 255, 7>>}

\* What is written, and the handler it is for with its arguments.
Messages ==
    {<<M!send_choke(TRUE), "choke", <<>>>>, <<M!send_choke(FALSE), "unchoke", <<>>>>,
     <<M!send_interested(TRUE), "interested", <<>>>>,
     <<M!send_interested(FALSE), "not_interested", <<>>>>,
     <<M!send_bitfield(<<128, 16>>), "bitfield", <<128, 16>>>>}
    \cup {<<M!send_have(p), "have", <<p>>>> : p \in Pieces}
    \cup {<<M!send_request(p, o, n), "request", <<p, o, n>>>> :
              p \in Pieces, o \in Offsets, n \in Lengths}
    \cup {<<M!send_cancel(p, o, n), "cancel", <<p, o, n>>>> :
              p \in Pieces, o \in Offsets, n \in Lengths}
    \cup {<<M!send_piece_data(p, o, block), "piece", <<p, o, block>>>> :
              p \in Pieces, o \in Offsets, block \in Blocks}

Fresh == [received_bitfield |-> FALSE, choking |-> FALSE, owned |-> Pieces]
Package(bytes) == SubSeq(bytes, 5, Len(bytes))

\* Two ends of this program understand each other: the length in front is that
\* of the package, its handler gets the arguments it was written with, and
\* both ends count the same bytes, payload apart, and all of them (PeerLink.cpp
\* 71-217, 383-605).
ASSUME MessagesUnderstood ==
    \A <<written, name, args>> \in Messages :
        LET read == M!OnNetPackage(Package(written.bytes), Fresh)
        IN  /\ M!ntohl(written.bytes, 1) = Len(written.bytes) - 4
            /\ read.ok /\ read.name = name /\ read.args = args
            /\ read.payload = written.payload /\ read.protocol = written.protocol
            /\ Len(written.bytes) = written.payload + written.protocol

\* Both ends understand the handshake; one of another protocol is refused, and
\* the reserved bytes may be what they like (ConnValidator.cpp 80-116).
ASSUME HandshakeUnderstood ==
    \A hash, id \in {[i \in 1..20 |-> i], [i \in 1..20 |-> 255 - i]}, changed \in 0..28 :
        LET sent == M!build_hand_shake(hash, id)
            came == [i \in DOMAIN sent |-> IF i = changed THEN 77 ELSE sent[i]]
            read == M!parse_handshake_info(came)
        IN  /\ Len(sent) = 68
            /\ read.ok <=> changed \notin 1..20
            /\ read.ok => read.info_hash = hash /\ read.peer_id = id

\* What only its sender counts: a message to keep the connection alive (788),
\* and a request to an end that chokes (506), which is also the one message
\* that is dropped though it is well formed.
ASSUME CountedByOne ==
    /\ M!OnNetPackage(Package(M!send_keep_alive.bytes), Fresh) = M!Ignored
    /\ \A <<written, name, args>> \in Messages :
          M!OnNetPackage(Package(written.bytes), [Fresh EXCEPT !.choking = TRUE]) = M!Ignored
             <=> name = "request"

\* A message that is cut, or has a byte too many, closes the connection, but
\* for the four that are read without a look at their length (797-808) and
\* for data, whose length is compared with the request (628).
ASSUME WrongLengthRefused ==
    \A <<written, name, args>> \in Messages :
        LET package == Package(written.bytes)
            Read(p) == M!OnNetPackage(p, Fresh)
        IN  CASE name \in {"choke", "unchoke", "interested", "not_interested"} ->
                    Read(Append(package, 1)) = Read(package)
              [] name = "piece" ->
                    Len(args[3]) > 1 <=> Read(Front(package)).ok
              [] OTHER -> ~Read(Append(package, 1)).ok /\ ~Read(Front(package)).ok

-----------------------------------------------------------------------------
(* Statistics: two connections over three seconds, means over two.          *)

S == INSTANCE Statistics WITH history <- 2

\* What a connection does in a second: data and messages in, data out.
Traffic == [data : {0, 3}, messages : {5}, out : {0, 2}]
Days == [1..3 -> [{"a", "b"} -> Traffic]]

Second(link, t) == S!SentBytes(S!ReceivedBytes(link, t.data, t.messages), t.out, 0)
Run(day, n) ==
    FoldLeft(LAMBDA s, i :
                 S!TaskTick(s.task, [l \in DOMAIN s.links |-> Second(s.links[l], day[i][l])]),
             [task |-> S!New, links |-> [l \in {"a", "b"} |-> S!New]], [i \in 1..n |-> i])

\* After a tick the task has counted every byte of its connections once: its
\* totals are the sum of theirs, its means those of the last seconds.  What a
\* connection moved since the last tick is in its own totals and not yet in
\* those of the task, and never gets there when it is closed before the next
\* (PeerManager.cpp 446-452).
ASSUME TotalsAddUp ==
    \A day \in Days :
        LET s == Run(day, 3)
            Sum(Of(_)) == Of(s.links["a"]) + Of(s.links["b"])
            later == Second(s.links["a"], [data |-> 3, messages |-> 0, out |-> 0])
        IN  /\ \A w \in S!Ways, k \in S!Kinds :
                  s.task.total[w][k] = Sum(LAMBDA l : l.total[w][k])
            /\ \A w \in S!Ways :
                  /\ s.task.sum[w] = Sum(LAMBDA l : l.sum[w])
                  /\ s.task.payload_sum[w] = Sum(LAMBDA l : l.payload_sum[w])
            /\ s.task.payload_sum["down"] =
                  day[2]["a"].data + day[2]["b"].data + day[3]["a"].data + day[3]["b"].data
            /\ S!TaskTick(s.task, "b" :> s.links["b"]).task.total = s.task.total
            /\ later.total["down"]["payload"] = s.links["a"].total["down"]["payload"] + 3

\* Two connected peers, the second of which may be a seed.
Peers(more) ==
    LET link(own) == [stat |-> Second(S!New, [data |-> 3, messages |-> 0, out |-> 2]),
                      own |-> own, mode |-> "LOCAL"]
    IN  ("p" :> link(<<TRUE, FALSE>>)) @@ ("q" :> link(<<TRUE, more>>))

\* Of n connections the status has 2 n entries, and the first n say nothing
\* (PeerManager.cpp 884-895); every peer is in it once, and counted once as a
\* peer or as a seed (817-838).
ASSUME HalfOfStatusIsEmpty ==
    \A more \in BOOLEAN :
        LET list == S!GetPeersStatus(Peers(more))
        IN  /\ Len(list) = 4 /\ \A i \in 1..2 : list[i] = S!NoStatus
            /\ {list[3].peer_entry, list[4].peer_entry} = {"p", "q"}
            /\ \A i \in 3..4 : list[i].total_down = 3 /\ list[i].own_pieces \in {1, 2}
            /\ S!GetPeerCount(Peers(more)) + S!GetSeedCount(Peers(more)) = 2
            /\ (S!GetSeedCount(Peers(more)) = 1) = more
=============================================================================
