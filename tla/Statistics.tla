----------------------------- MODULE Statistics -----------------------------
(***************************************************************************)
(* Statistics of a connection, and of a task, which is the sum of its      *)
(* connections: bytes of this second, payload and protocol apart, bytes    *)
(* since the start, and the mean rates of the last seconds, kept here as   *)
(* the sums they are divided from.                                         *)
(***************************************************************************)
EXTENDS Integers, SequencesExt, FiniteSetsExt

CONSTANT history                    \* seconds a mean is taken over

Ways == {"down", "up"}
Kinds == {"payload", "protocol"}

New ==
    [second |-> [w \in Ways |-> [k \in Kinds |-> 0]],
     total |-> [w \in Ways |-> [k \in Kinds |-> 0]],
     rate |-> [w \in Ways |-> [i \in 1..history |-> 0]],
     payload_rate |-> [w \in Ways |-> [i \in 1..history |-> 0]],
     sum |-> [w \in Ways |-> 0], payload_sum |-> [w \in Ways |-> 0]]

Counted(stat, way, bytes) ==
    LET More(n) == [n EXCEPT ![way] = [k \in Kinds |-> @[k] + bytes[k]]]
    IN  [stat EXCEPT !.second = More(@), !.total = More(@)]

Bytes(payload, protocol) == [payload |-> payload, protocol |-> protocol]
ReceivedBytes(stat, payload, protocol) == Counted(stat, "down", Bytes(payload, protocol))
SentBytes(stat, payload, protocol) == Counted(stat, "up", Bytes(payload, protocol))

\* operator +=: only the bytes of this second are added, also to the totals.
Plus(stat, s) ==
    Counted(Counted(stat, "down", s.second["down"]), "up", s.second["up"])

\* operator =: a copy has the bytes of this second as its totals, and keeps
\* the means it had.
Assign(stat, other) ==
    [other EXCEPT !.total = other.second, !.sum = stat.sum, !.payload_sum = stat.payload_sum]

Reset(stat) == Assign(stat, New)

SecondTick(stat) ==
    LET Moved(rates, newest) == <<newest>> \o SubSeq(rates, 1, history - 1)
        rate == [w \in Ways |-> Moved(stat.rate[w], stat.second[w]["payload"]
                                                      + stat.second[w]["protocol"])]
        payload_rate == [w \in Ways |-> Moved(stat.payload_rate[w], stat.second[w]["payload"])]
        Summed(rates) == [w \in Ways |-> FoldLeft(+, 0, rates[w])]
    IN  [stat EXCEPT !.second = New.second, !.rate = rate, !.payload_rate = payload_rate,
                     !.sum = Summed(rate), !.payload_sum = Summed(payload_rate)]

\* peer_link_second_tick: the bytes of every connection are added before its
\* next second begins, and those of the task after them all.
TaskTick(task, links) ==
    [task |-> SecondTick(FoldSet(LAMBDA l, stat : Plus(stat, links[l]), task, DOMAIN links)),
     links |-> [l \in DOMAIN links |-> SecondTick(links[l])]]

-----------------------------------------------------------------------------
(* What the user is shown of the connections, a map from peers to links    *)
(* [stat, own, mode]; own says of each piece whether the peer has it.      *)

IsSeed(link) == \A i \in DOMAIN link.own : link.own[i]
GetPeerCount(peers) == Cardinality({pe \in DOMAIN peers : ~IsSeed(peers[pe])})
GetSeedCount(peers) == Cardinality(DOMAIN peers) - GetPeerCount(peers)

NoStatus == [peer_entry |-> "none"]
GetPeerStatus(pe, link) ==
    [peer_entry |-> pe, mode |-> link.mode,
     down |-> link.stat.sum["down"], up |-> link.stat.sum["up"],
     total_down |-> link.stat.total["down"]["payload"],
     total_up |-> link.stat.total["up"]["payload"],
     own_pieces |-> Cardinality({i \in DOMAIN link.own : link.own[i]})]

\* The list is made with a place for each of them, and they are put behind.
GetPeersStatus(peers) ==
    [i \in 1..Cardinality(DOMAIN peers) |-> NoStatus]
        \o SetToSeq({GetPeerStatus(pe, peers[pe]) : pe \in DOMAIN peers})
=============================================================================
