------------------------------- MODULE Upload -------------------------------
(***************************************************************************)
(* The upload half of a running task: the choke decisions of PeerManager,  *)
(* the request list each PeerLink keeps for its peer, and the peers that   *)
(* wait for data.                                                          *)
(*                                                                         *)
(* The worker thread handles one message or timer tick per step.  What it  *)
(* sends goes through the send buffer of PeerIO and the network: toPeer    *)
(* holds it in order.  toLocal is what a peer sent and the worker has not  *)
(* handled, in the order it was sent; the worker takes any of it, for its  *)
(* queue is a heap of messages of one priority (TSDataPriorityQueue.cpp    *)
(* 21-61, AuxFunc.h 25).  The peers are the environment and keep to the    *)
(* protocol: they ask when unchoked for pieces we announced, cancel what   *)
(* they no longer want, and forget what they asked for when choked.        *)
(***************************************************************************)
EXTENDS Integers, SequencesExt

CONSTANTS
    Link,      \* the peers that may connect, by PeerEntry
    Wants,     \* the slices each of them may ask for
    MaxUpload, \* GlobalSetting::GetMaxUploadFromLocalPeerCount
    Rate,      \* download rates of links, up to their order
    MaxWire,   \* bound: messages of a peer not yet handled
    MaxSent    \* bound: messages under way to a peer when the timer ticks

ASSUME UploadAssumption ==
    /\ Link \subseteq Int /\ IsFiniteSet(Link)
    /\ DOMAIN Wants = Link /\ \A l \in Link : IsFiniteSet(Wants[l])
    /\ MaxUpload \in Nat \ {0}
    /\ Rate \subseteq Int /\ Rate # {}
    /\ MaxWire \in Nat /\ MaxSent \in Nat

VARIABLES
    links,                     \* the keys of m_connected_peers
    local_choking_remote,      \* m_local_choking_remote
    remote_interested_local,   \* m_remote_interested_local
    remote_choking_local,      \* m_remote_choking_local
    remote_req,                \* m_remote_req_list
    toPeer,                    \* messages under way to the peer
    toLocal,                   \* messages of the peer not yet handled
    (* the peers *)
    asked,                     \* the slices the peer waits for
    choked,                    \* does the peer believe that it is choked?
    (* history *)
    overtook                   \* slices whose last request was handled before
                               \*   a CANCEL of them that was sent earlier

chokeVars == <<local_choking_remote, remote_interested_local, remote_choking_local>>
peerVars == <<asked, choked>>
vars == <<links, chokeVars, remote_req, toPeer, toLocal, peerVars, overtook>>

Slice == UNION {Wants[l] : l \in Link}

Piece(s) == [msg |-> "piece", slice |-> s]
Request(s) == [msg |-> "request", slice |-> s]
Cancel(s) == [msg |-> "cancel", slice |-> s]
CHOKE == [msg |-> "choke"]
UNCHOKE == [msg |-> "unchoke"]

Init ==
    /\ links = {}
    /\ local_choking_remote = [l \in Link |-> TRUE]
    /\ remote_interested_local = [l \in Link |-> FALSE]
    /\ remote_choking_local = [l \in Link |-> TRUE]
    /\ remote_req = [l \in Link |-> <<>>]
    /\ toPeer = [l \in Link |-> <<>>]
    /\ toLocal = [l \in Link |-> <<>>]
    /\ asked = [l \in Link |-> {}]
    /\ choked = [l \in Link |-> TRUE]
    /\ overtook = [l \in Link |-> {}]

----------------------------------------------------------------------------
(* Connections.                                                             *)

Established(l) ==
    /\ l \notin links
    /\ links' = links \cup {l}
    /\ UNCHANGED <<chokeVars, remote_req, toPeer, toLocal, peerVars, overtook>>

\* The PeerLink is deleted, and its socket closed.
Closed(l) ==
    /\ l \in links
    /\ links' = links \ {l}
    /\ local_choking_remote' = [local_choking_remote EXCEPT ![l] = TRUE]
    /\ remote_interested_local' = [remote_interested_local EXCEPT ![l] = FALSE]
    /\ remote_choking_local' = [remote_choking_local EXCEPT ![l] = TRUE]
    /\ remote_req' = [remote_req EXCEPT ![l] = <<>>]
    /\ toPeer' = [toPeer EXCEPT ![l] = <<>>]
    /\ toLocal' = [toLocal EXCEPT ![l] = <<>>]
    /\ asked' = [asked EXCEPT ![l] = {}]
    /\ choked' = [choked EXCEPT ![l] = TRUE]
    /\ overtook' = [overtook EXCEPT ![l] = {}]

----------------------------------------------------------------------------
(* The timer tick.                                                          *)

\* The state of the choke decisions while check_peers_choke runs: whom it
\* chokes, what the lists hold and what was sent.
Decided == [choking |-> local_choking_remote, list |-> remote_req, wire |-> toPeer]

\* ChokePeer, of each link of a set.  Faulty variant: the flag stays as it is.
ChokePeerForgets(c, S, choke) ==
    [choking |-> [l \in Link |-> IF l \in S /\ ~choke THEN FALSE ELSE c.choking[l]],
     list    |-> [l \in Link |-> IF l \in S /\ choke THEN <<>> ELSE c.list[l]],
     wire    |-> [l \in Link |-> IF l \notin S THEN c.wire[l]
                                 ELSE Append(c.wire[l], IF choke THEN CHOKE ELSE UNCHOKE)]]

ChokePeer(c, S, choke) ==
    [choking |-> [l \in Link |-> IF l \in S THEN choke ELSE c.choking[l]],
     list    |-> [l \in Link |-> IF l \in S /\ choke THEN <<>> ELSE c.list[l]],
     wire    |-> [l \in Link |-> IF l \notin S THEN c.wire[l]
                                 ELSE Append(c.wire[l], IF choke THEN CHOKE ELSE UNCHOKE)]]

\* The search for the link with the greatest rate takes the first of equals in
\* the order of m_connected_peers; so does that for the least.
Faster(k, l, rate) == rate[k] > rate[l] \/ (rate[k] = rate[l] /\ k < l)
Slower(k, l, rate) == rate[k] < rate[l] \/ (rate[k] = rate[l] /\ k < l)

\* What n searches find, each without those found before.
Fastest(S, n, rate) == {l \in S : Cardinality({k \in S : Faster(k, l, rate)}) < n}
Slowest(S, n, rate) == {l \in S : Cardinality({k \in S : Slower(k, l, rate)}) < n}

Uploading(c) == {l \in links : ~c.choking[l]}

\* count_download_from_local_peers chokes who is no longer interested.
ChokeUninterested(c) ==
    ChokePeer(c, {l \in Uploading(c) : ~remote_interested_local[l]}, TRUE)

Waiting(c) == {l \in links : c.choking[l] /\ remote_interested_local[l]}

\* All free slots are given away, one after the other.  Faulty variant: those
\* that ChokeUninterested freed are not.
FillSlotsStale(c, rate) ==
    LET free == MaxUpload - Cardinality(Uploading(Decided)) IN
    ChokePeer(c, Fastest(Waiting(c), free, rate), FALSE)

FillSlots(c, rate) ==
    LET free == MaxUpload - Cardinality(Uploading(c)) IN
    ChokePeer(c, Fastest(Waiting(c), free, rate), FALSE)

\* With all slots used, the slowest interested link that has one gives it to
\* the fastest choked link, if that is faster and chokes us.
Rotate(c, rate) ==
    LET worst == Slowest({l \in Uploading(c) : remote_interested_local[l]}, 1, rate)
        best  == Fastest({l \in links : c.choking[l] /\ remote_choking_local[l]}, 1, rate)
    IN  IF /\ Cardinality(Uploading(c)) >= MaxUpload
           /\ \E k \in worst, l \in best : rate[k] < rate[l]
        THEN ChokePeer(ChokePeer(c, worst, TRUE), best, FALSE)
        ELSE c

CheckPeersChoke(c, rate) == Rotate(FillSlots(ChokeUninterested(c), rate), rate)

\* do_pieces_send: one request of each unchoked peer is answered when its send
\* buffer is empty; it is not while some of what was sent is still in it.
\* at[l] is the position of the request that is taken.  Faulty variant: the
\* newest request is answered first.
Sent(full, at) ==
    LET served == {l \in links \ full : ~local_choking_remote[l] /\ remote_req[l] # <<>>} IN
    [Decided EXCEPT
        !.list = [l \in Link |-> IF l \in served THEN RemoveAt(@[l], at[l]) ELSE @[l]],
        !.wire = [l \in Link |-> IF l \in served THEN Append(@[l], Piece(remote_req[l][at[l]]))
                                 ELSE @[l]]]

DoPiecesSendNewest(full) == Sent(full, [l \in Link |-> Len(remote_req[l])])

DoPiecesSend(full) == Sent(full, [l \in Link |-> 1])

\* PeerManager::SecondTick; the choke decisions are due in some of them.
Tick(due) ==
    /\ \A l \in links : Len(toPeer[l]) <= MaxSent
    /\ \E full \in SUBSET {l \in links : toPeer[l] # <<>>} :
       LET sent == DoPiecesSend(full) IN
       \E c \in IF due THEN {CheckPeersChoke(sent, rate) : rate \in [links -> Rate]}
                 ELSE {sent} :
           /\ local_choking_remote' = c.choking
           /\ remote_req' = c.list
           /\ toPeer' = c.wire
    /\ UNCHANGED <<links, remote_interested_local, remote_choking_local, toLocal, peerVars,
                   overtook>>

SecondTick == \E due \in BOOLEAN : Tick(due)

----------------------------------------------------------------------------
(* The messages of a peer.  Those about interest and about its own chokes   *)
(* are independent of the others, and handled when they are sent.           *)

OnInterested(l, interested) ==
    /\ l \in links
    /\ remote_interested_local' = [remote_interested_local EXCEPT ![l] = interested]
    /\ UNCHANGED <<links, local_choking_remote, remote_choking_local, remote_req,
                   toPeer, toLocal, peerVars, overtook>>

OnChoke(l, choke) ==
    /\ l \in links
    /\ remote_choking_local' = [remote_choking_local EXCEPT ![l] = choke]
    /\ UNCHANGED <<links, local_choking_remote, remote_interested_local, remote_req,
                   toPeer, toLocal, peerVars, overtook>>

\* Where in toLocal the worker may find a message.
Arrived(l, m) == {i \in DOMAIN toLocal[l] : toLocal[l][i] = m}

\* Message i of toLocal, a request of s, is handled.
Overtakes(l, s, i) ==
    overtook' = [overtook EXCEPT ![l] =
        IF \E j \in Arrived(l, Cancel(s)) : j < i THEN @ \cup {s} ELSE @]

\* on_request: of a choked peer it is dropped.  Faulty variant: a request is
\* dropped while any other of the peer waits.
OnRequestOne(l, s) ==
    /\ \E i \in Arrived(l, Request(s)) :
          /\ toLocal' = [toLocal EXCEPT ![l] = RemoveAt(@, i)]
          /\ Overtakes(l, s, i)
    /\ remote_req' = IF local_choking_remote[l] \/ remote_req[l] # <<>> THEN remote_req
                     ELSE [remote_req EXCEPT ![l] = <<s>>]
    /\ UNCHANGED <<links, chokeVars, toPeer, peerVars>>

OnRequest(l, s) ==
    /\ \E i \in Arrived(l, Request(s)) :
          /\ toLocal' = [toLocal EXCEPT ![l] = RemoveAt(@, i)]
          /\ Overtakes(l, s, i)
    /\ remote_req' = IF local_choking_remote[l] \/ Contains(remote_req[l], s) THEN remote_req
                     ELSE [remote_req EXCEPT ![l] = Append(@, s)]
    /\ UNCHANGED <<links, chokeVars, toPeer, peerVars>>

\* on_cancel takes the slice from the list, whichever request put it there.
OnCancel(l, s) ==
    /\ \E i \in Arrived(l, Cancel(s)) : toLocal' = [toLocal EXCEPT ![l] = RemoveAt(@, i)]
    /\ remote_req' = [remote_req EXCEPT ![l] = RemoveFirst(@, s)]
    /\ UNCHANGED <<links, chokeVars, toPeer, peerVars, overtook>>

----------------------------------------------------------------------------
(* The peers.                                                               *)

Asks(l, s) ==
    /\ l \in links /\ ~choked[l] /\ s \notin asked[l]
    /\ Len(toLocal[l]) < MaxWire
    /\ asked' = [asked EXCEPT ![l] = @ \cup {s}]
    /\ toLocal' = [toLocal EXCEPT ![l] = Append(@, Request(s))]
    /\ overtook' = [overtook EXCEPT ![l] = @ \ {s}]
    /\ UNCHANGED <<links, chokeVars, remote_req, toPeer, choked>>

Cancels(l, s) ==
    /\ l \in links /\ s \in asked[l]
    /\ Len(toLocal[l]) < MaxWire
    /\ asked' = [asked EXCEPT ![l] = @ \ {s}]
    /\ toLocal' = [toLocal EXCEPT ![l] = Append(@, Cancel(s))]
    /\ UNCHANGED <<links, chokeVars, remote_req, toPeer, choked, overtook>>

Receives(l) ==
    /\ toPeer[l] # <<>>
    /\ LET m == Head(toPeer[l]) IN
       /\ asked' = [asked EXCEPT ![l] = IF m = CHOKE THEN {}
                                        ELSE IF m.msg = "piece" THEN @ \ {m.slice} ELSE @]
       /\ choked' = [choked EXCEPT ![l] = IF m.msg = "piece" THEN @ ELSE m = CHOKE]
    /\ toPeer' = [toPeer EXCEPT ![l] = Tail(@)]
    /\ UNCHANGED <<links, chokeVars, remote_req, toLocal, overtook>>

Message(l) ==
    \/ \E s \in Wants[l] : OnRequest(l, s) \/ OnCancel(l, s)
    \/ \E b \in BOOLEAN : OnInterested(l, b) \/ OnChoke(l, b)

Next ==
    \/ SecondTick
    \/ \E l \in Link :
        \/ Established(l) \/ Closed(l)
        \/ Message(l)
        \/ Receives(l)
        \/ \E s \in Wants[l] : Asks(l, s) \/ Cancels(l, s)

Spec == Init /\ [][Next]_vars

\* The timer ticks every second, most ticks without choke decisions; the worker
\* empties its queue, so that it handles every message that arrives, whatever it
\* takes before, and the network delivers what is sent, as long as the connection
\* lasts.
FairSpec ==
    /\ Spec
    /\ WF_vars(Tick(FALSE))
    /\ \A l \in Link : WF_vars(Receives(l))
    /\ \A l \in Link : \A s \in Wants[l] :
          WF_vars(OnRequest(l, s)) /\ WF_vars(OnCancel(l, s))

----------------------------------------------------------------------------
(* Properties.                                                              *)

\* Types; a request is listed once, and none of a peer that is choked.
TypeOK ==
    /\ links \subseteq Link
    /\ local_choking_remote \in [Link -> BOOLEAN]
    /\ remote_interested_local \in [Link -> BOOLEAN]
    /\ remote_choking_local \in [Link -> BOOLEAN]
    /\ remote_req \in [Link -> Seq(Slice)]
    /\ \A l \in Link : \A i, j \in DOMAIN remote_req[l] :
           ~local_choking_remote[l] /\ (remote_req[l][i] = remote_req[l][j] => i = j)
    /\ toPeer \in [Link -> Seq({CHOKE, UNCHOKE} \cup {Piece(s) : s \in Slice})]
    /\ toLocal \in [Link -> Seq({Request(s) : s \in Slice} \cup {Cancel(s) : s \in Slice})]
    /\ asked \in [Link -> SUBSET Slice]
    /\ choked \in [Link -> BOOLEAN]
    /\ overtook \in [Link -> SUBSET Slice]

\* Data go to fewer peers at a time than the setting allows, through every
\* order of interest, rotation, connection and disconnection.
SlotBound == Cardinality({l \in links : ~local_choking_remote[l]}) <= MaxUpload

\* A slot is never left empty while an interested peer waits for one: check_peers_choke
\* gives them all away, the slots of those who lost interest included.
SlotsUsed ==
    [][Tick(TRUE) =>
         \/ Cardinality({l \in links : ~local_choking_remote'[l]}) = MaxUpload
         \/ \A l \in links : remote_interested_local[l] => ~local_choking_remote'[l]]_vars

\* A peer gets data only while it believes that it is not choked, although
\* requests, chokes and data are under way at the same time.
DataFindUnchoked ==
    \A l \in links : toPeer[l] # <<>> /\ Head(toPeer[l]).msg = "piece" => ~choked[l]

\* The choking of the upload is sound at both ends of every connection.
ChokingSound == TypeOK /\ SlotBound /\ DataFindUnchoked

\* No request is lost: what a peer waits for is on its way to us, listed, on its
\* way back, or about to be forgotten by it because a choke is on its way.  The
\* queue can lose one in a single way: a request handled before an earlier CANCEL
\* of its slice is erased by that (PeerLink.cpp 552-575).
NoLostRequest ==
    \A l \in links : \A s \in asked[l] \ overtook[l] :
        \/ Contains(toLocal[l], Request(s))
        \/ Contains(remote_req[l], s)
        \/ Contains(toPeer[l], Piece(s))
        \/ Contains(toPeer[l], CHOKE)

\* No peer waits for ever: it gets its slice, is choked or loses the connection -
\* unless its request overtook a CANCEL in the queue.
RequestsAnswered ==
    \A l \in Link : \A s \in Wants[l] :
        s \in asked[l] ~> s \notin asked[l] \/ s \in overtook[l]
=============================================================================
