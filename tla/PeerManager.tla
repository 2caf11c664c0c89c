---------------------------- MODULE PeerManager ----------------------------
(***************************************************************************)
(* The connections of a task: the three lists of PeerManager (unused,      *)
(* connecting and connected peers), the handlers that run in the selector  *)
(* threads (PeerConnector, OutConnValidator, InConnValidator, PeerIO), the *)
(* message queue by which they report to the worker thread of the task,    *)
(* the ban list, and the stop and restart of the task.                     *)
(*                                                                         *)
(* A handler is called under the mutex of its selector and RemoveHandler   *)
(* takes the same mutex, so a call of a handler is one step, and a handler *)
(* that was removed is never called again.  The worker handles one message *)
(* per step; the loop that closes the slowest peers is a step per peer.    *)
(*                                                                         *)
(* The events name a peer by its PeerEntry.  What happens inside a link is *)
(* the module PeerLink; here a link is the socket it owns.  The field      *)
(* `conn' of an event, which the code does not have, tells the sockets of  *)
(* one PeerEntry apart.                                                    *)
(***************************************************************************)
EXTENDS Integers, Sequences, FiniteSets

CONSTANTS
    Listen,        \* the addresses trackers and users give: peers listen there
    Ephemeral,     \* the addresses connections of peers come in from
    PeerId,        \* the ids peers answer a handshake with
    IdsOf,         \* the ids of the peers one may meet at an address
    Self,          \* the id of this task
    LocalAddr,     \* the address this program listens at
    Task,          \* thread ids a worker thread may be given
    ReuseId,       \* is an id given again while a dial of its task is under way?
    MaxError,      \* MAX_ERROR_TIMES
    MaxConnection, \* GlobalSetting::GetMaxConnectionPerTask
    PerCall,       \* connections started per call of check_peers (5)
    Reserve,       \* connections kept free by check_need_disconnect_peers (20)
    Conn,          \* bound: the sockets alive or named by an event at a time
    MaxIO          \* bound: NET_IO_EVENTs in the queue

Entry == Listen \cup Ephemeral

ASSUME PeerManagerAssumption ==
    /\ Entry \subseteq Int /\ IsFiniteSet(Entry)
    /\ LocalAddr \in Listen
    /\ IdsOf \in [Entry -> SUBSET PeerId] /\ "none" \notin PeerId
    /\ 0 \notin Task /\ ReuseId \in BOOLEAN
    /\ MaxError \in Nat \ {0}
    /\ MaxConnection \in Nat /\ Reserve \in Nat /\ Reserve <= MaxConnection
    /\ PerCall \in Nat
    /\ Conn \subseteq Nat /\ IsFiniteSet(Conn)
    /\ MaxIO \in Nat

VARIABLES
    m_task_id,          \* the id of the worker thread, 0 when it does not run
    m_unused_peers,     \* PeerEntry -> failed_count
    m_connecting_peers, \* PeerEntry -> failed_count
    m_connected_peers,  \* PeerEntry -> failed_count, mode, peer id and socket
    closing,            \* is the loop of check_need_disconnect_peers running?
    banned,             \* IPFilter::m_set
    sock,               \* the sockets alive, and the handler that has each
    queue,              \* the events in the message queue of the worker thread
    refused             \* history: entries whose own dial was refused

lists == <<m_unused_peers, m_connecting_peers, m_connected_peers>>
vars == <<m_task_id, lists, closing, banned, sock, queue, refused>>

Empty == [x \in {} |-> 0]
Put(f, x, v) == [y \in DOMAIN f \cup {x} |-> IF y = x THEN v ELSE f[y]]
Drop(f, S) == [y \in DOMAIN f \ S |-> f[y]]

\* The stages of a socket: it belongs to a handler of a selector, or, when
\* "posted", to a NetConnEstablished event.  A PeerIO whose link was deleted
\* without it is an "orphan".
Socket == [stage : {"connector", "out", "in", "replying", "posted", "io", "orphan"},
           entry : Entry, mode : {"LOCAL", "REMOTE"}, task : Task \cup {0},
           id : PeerId \cup {"none"}]

Event(type, c) ==
    [type |-> type, entry |-> sock[c].entry, mode |-> sock[c].mode, conn |-> c]

\* PostMessageEx: an event for a thread without a message queue is deleted.
Delivered(c) == m_task_id # 0 /\ sock[c].task = m_task_id
Post(type, c) == IF Delivered(c) THEN queue \cup {Event(type, c)} ELSE queue

\* The names of sockets are given again once nothing refers to them.
Free ==
    {c \in Conn : /\ c \notin DOMAIN sock
                  /\ \A k \in queue : k.conn # c
                  /\ \A e \in DOMAIN m_connected_peers : m_connected_peers[e].conn # c}
Rank(x, S) == Cardinality({y \in S : y < x})
FirstFree == CHOOSE c \in Free : Rank(c, Free) = 0

Init ==
    /\ m_task_id \in Task
    /\ m_unused_peers = Empty
    /\ m_connecting_peers = Empty
    /\ m_connected_peers = Empty
    /\ closing = FALSE
    /\ banned = {}
    /\ sock = Empty
    /\ queue = {}
    /\ refused = {}

----------------------------------------------------------------------------
(* The worker thread.                                                       *)

Idling == m_task_id # 0 /\ ~closing

AddUnusedPeer(e) ==
    /\ Idling
    /\ e \notin DOMAIN m_unused_peers \cup DOMAIN m_connecting_peers
                \cup DOMAIN m_connected_peers
    /\ m_unused_peers' = Put(m_unused_peers, e, 0)
    /\ UNCHANGED <<m_task_id, m_connecting_peers, m_connected_peers, closing,
                   banned, sock, queue, refused>>

\* The connections check_peers may still start.  Faulty variant: those under
\* way are not counted.
RoomConnected ==
    IF Cardinality(DOMAIN m_connected_peers) < MaxConnection
    THEN MaxConnection - Cardinality(DOMAIN m_connected_peers)
    ELSE 0

Room ==
    LET count == Cardinality(DOMAIN m_connected_peers)
                 + Cardinality(DOMAIN m_connecting_peers)
    IN  IF count < MaxConnection THEN MaxConnection - count ELSE 0

\* check_peers takes unused peers in the order of their addresses: banned ones
\* are dropped, those in `broken', for which no socket can be opened, are
\* banned, the others are dialled.  Then the links in `dead' are closed: they
\* were silent too long, or both sides have everything.
CheckPeers ==
    /\ Idling
    /\ \E broken \in SUBSET (DOMAIN m_unused_peers \ banned),
          dead \in SUBSET DOMAIN m_connected_peers :
       LET alive   == DOMAIN m_unused_peers \ (banned \cup broken)
           room    == IF Room < PerCall THEN Room ELSE PerCall
           dialled == {e \in alive : Rank(e, alive) < room}
           taken   == IF Cardinality(alive) < room THEN DOMAIN m_unused_peers
                      ELSE {e \in DOMAIN m_unused_peers :
                               \E d \in dialled : e <= d}
           names   == {c \in Free : Rank(c, Free) < Cardinality(dialled)}
           dialOf(c) == CHOOSE e \in dialled : Rank(e, dialled) = Rank(c, names)
           kept    == DOMAIN sock \ {m_connected_peers[e].conn : e \in dead}
       IN
       /\ broken \subseteq taken
       /\ Cardinality(dialled) <= Cardinality(Free)
       /\ m_unused_peers' = Drop(m_unused_peers, taken)
       /\ m_connecting_peers' = [e \in DOMAIN m_connecting_peers \cup dialled |->
              IF e \in dialled THEN m_unused_peers[e] ELSE m_connecting_peers[e]]
       /\ m_connected_peers' = Drop(m_connected_peers, dead)
       /\ banned' = banned \cup broken
       /\ sock' = [c \in kept \cup names |->
              IF c \in names
              THEN [stage |-> "connector", entry |-> dialOf(c), mode |-> "LOCAL",
                    task |-> m_task_id, id |-> "none"]
              ELSE sock[c]]
    /\ UNCHANGED <<m_task_id, closing, queue, refused>>

\* check_need_disconnect_peers, its loop a step per turn.
TooMany(peers) == Cardinality(DOMAIN peers) >= MaxConnection - Reserve

CheckNeedDisconnect ==
    /\ Idling
    /\ TooMany(m_connected_peers)
    /\ closing' = TRUE
    /\ UNCHANGED <<m_task_id, lists, banned, sock, queue, refused>>

\* disconnect_one_peer: the slowest link is closed.  Faulty variant: the
\* candidate stays in the list.
DisconnectNobody ==
    /\ closing
    /\ closing' = TooMany(m_connected_peers)
    /\ UNCHANGED <<m_task_id, lists, banned, sock, queue, refused>>

DisconnectOne ==
    /\ closing
    /\ \/ /\ DOMAIN m_connected_peers = {}
          /\ UNCHANGED <<lists, sock>>
       \/ \E e \in DOMAIN m_connected_peers :
             LET link == m_connected_peers[e] IN
             /\ m_connected_peers' = Drop(m_connected_peers, {e})
             /\ sock' = Drop(sock, {link.conn})
             /\ m_unused_peers' = IF link.mode = "LOCAL"
                                  THEN Put(m_unused_peers, e, link.failed)
                                  ELSE m_unused_peers
             /\ UNCHANGED m_connecting_peers
    /\ closing' = TooMany(m_connected_peers')
    /\ UNCHANGED <<m_task_id, banned, queue, refused>>

\* Where the address of a failed link or dial goes.  Faulty variant: banned
\* one failure too late.
PutBackLate(e, failed, retry) ==
    IF failed > MaxError + 1
    THEN banned' = banned \cup {e} /\ UNCHANGED m_unused_peers
    ELSE /\ m_unused_peers' = IF retry THEN Put(m_unused_peers, e, failed)
                              ELSE m_unused_peers
         /\ UNCHANGED banned

PutBack(e, failed, retry) ==
    IF failed > MaxError
    THEN banned' = banned \cup {e} /\ UNCHANGED m_unused_peers
    ELSE /\ m_unused_peers' = IF retry THEN Put(m_unused_peers, e, failed)
                              ELSE m_unused_peers
         /\ UNCHANGED banned

\* The worker takes event k, of this type.  All net events have one priority,
\* and among those the std::priority_queue of the messages keeps no order.
Received(k, type) == Idling /\ k.type = type /\ queue' = queue \ {k}

\* The refusals of on_conn_established; the infohash is the same for all
\* events of the one task.  Faulty variant: ids are not compared.
MayConnectAnyId(e, id, mode) ==
    /\ e \notin DOMAIN m_connected_peers
    /\ mode = "LOCAL" => e \in DOMAIN m_connecting_peers

MayConnect(e, id, mode) ==
    /\ e \notin DOMAIN m_connected_peers
    /\ id # Self
    /\ \A k \in DOMAIN m_connected_peers : m_connected_peers[k].id # id
    /\ mode = "LOCAL" => e \in DOMAIN m_connecting_peers

\* on_conn_established.  The event of a refused connection closes the socket.
OnConnEstablished(k) ==
    /\ Received(k, "established")
    /\ LET e == k.entry
           c == k.conn
           local == k.mode = "LOCAL"
       IN
       IF MayConnect(e, sock[c].id, k.mode)
       THEN /\ m_connected_peers' = Put(m_connected_peers, e,
                   [failed |-> IF local THEN m_connecting_peers[e] ELSE 0,
                    mode |-> k.mode, id |-> sock[c].id, conn |-> c])
            /\ m_connecting_peers' = IF local THEN Drop(m_connecting_peers, {e})
                                     ELSE m_connecting_peers
            /\ sock' = [sock EXCEPT ![c].stage = "io"]
            /\ refused' = IF local THEN refused \ {e} ELSE refused
       ELSE /\ sock' = Drop(sock, {c})
            /\ refused' = IF local /\ e \in DOMAIN m_connecting_peers
                          THEN refused \cup {e} ELSE refused
            /\ UNCHANGED <<m_connected_peers, m_connecting_peers>>
    /\ UNCHANGED <<m_task_id, m_unused_peers, closing, banned>>

\* on_net_io_event: OnNetPackage of the link accepts the message, or the link
\* is closed.
OnNetIO(k, accepted) ==
    /\ Received(k, "io")
    /\ LET e == k.entry IN
       IF e \in DOMAIN m_connected_peers /\ ~accepted
       THEN /\ m_connected_peers' = Drop(m_connected_peers, {e})
            /\ sock' = Drop(sock, {m_connected_peers[e].conn})
            /\ PutBack(e, m_connected_peers[e].failed + 1,
                       m_connected_peers[e].mode = "LOCAL")
       ELSE UNCHANGED <<m_connected_peers, sock, m_unused_peers, banned>>
    /\ UNCHANGED <<m_task_id, m_connecting_peers, closing, refused>>

\* on_connection_abort: the handler removed itself before it posted.  When the
\* abort is of an earlier connection and was overtaken by the events of the
\* next, the PeerIO of the link stays registered.
OnConnectionAbort(k) ==
    /\ Received(k, "abort")
    /\ LET e == k.entry IN
       IF e \in DOMAIN m_connected_peers
       THEN /\ m_connected_peers' = Drop(m_connected_peers, {e})
            /\ sock' = [c \in DOMAIN sock |->
                   IF c = m_connected_peers[e].conn
                   THEN [sock[c] EXCEPT !.stage = "orphan"] ELSE sock[c]]
            /\ PutBack(e, m_connected_peers[e].failed + 1,
                       m_connected_peers[e].mode = "LOCAL")
       ELSE UNCHANGED <<m_connected_peers, sock, m_unused_peers, banned>>
    /\ UNCHANGED <<m_task_id, m_connecting_peers, closing, refused>>

OnConnectFailed(k) ==
    /\ Received(k, "failed")
    /\ LET e == k.entry IN
       IF e \in DOMAIN m_connecting_peers
       THEN /\ m_connecting_peers' = Drop(m_connecting_peers, {e})
            /\ PutBack(e, m_connecting_peers[e] + 1, TRUE)
            /\ refused' = refused \ {e}
       ELSE UNCHANGED <<m_connecting_peers, m_unused_peers, banned, refused>>
    /\ UNCHANGED <<m_task_id, m_connected_peers, closing, sock>>

OnNetEvent(k) ==
    \/ OnConnEstablished(k)
    \/ \E accepted \in BOOLEAN : OnNetIO(k, accepted)
    \/ OnConnectionAbort(k)
    \/ OnConnectFailed(k)

\* The worker thread ends: its queue and what is in it go, and Clear removes
\* the handlers of all links.  Dials and handshakes under way are left alone.
Stop ==
    /\ Idling
    /\ m_task_id' = 0
    /\ m_unused_peers' = Empty
    /\ m_connecting_peers' = Empty
    /\ m_connected_peers' = Empty
    /\ sock' = Drop(sock, {c \in DOMAIN sock : sock[c].stage \in {"posted", "io"}})
    /\ queue' = {}
    /\ refused' = {}
    /\ UNCHANGED <<closing, banned>>

\* A new worker thread; the system may give it the id of an earlier one.
Start ==
    /\ m_task_id = 0
    /\ m_task_id' \in Task
    /\ ReuseId \/ \A c \in DOMAIN sock : sock[c].task # m_task_id'
    /\ UNCHANGED <<lists, closing, banned, sock, queue, refused>>

----------------------------------------------------------------------------
(* The handlers, in the selector threads.                                   *)

netUnchanged == UNCHANGED <<m_task_id, lists, closing, refused>>

\* The handler of c removes itself and reports.
Report(type, c) ==
    /\ queue' = Post(type, c)
    /\ sock' = Drop(sock, {c})

\* PeerConnector: connected, or failed or timed out.
OnConnected(c) ==
    /\ c \in DOMAIN sock /\ sock[c].stage = "connector"
    /\ sock' = [sock EXCEPT ![c].stage = "out"]
    /\ UNCHANGED <<banned, queue>> /\ netUnchanged

OnConnectError(c) ==
    /\ c \in DOMAIN sock /\ sock[c].stage = "connector"
    /\ Report("failed", c)
    /\ UNCHANGED banned /\ netUnchanged

\* The established socket, of a peer with this id, is handed to the worker in
\* the event.
HandOver(c, id) ==
    /\ queue' = Post("established", c)
    /\ sock' = IF Delivered(c)
               THEN [sock EXCEPT ![c].stage = "posted", ![c].id = id]
               ELSE Drop(sock, {c})

\* OutConnValidator: the peer answers the handshake, not with our own id; or it
\* answers wrongly, closes the connection or is silent too long.
OutValidated(c) ==
    /\ c \in DOMAIN sock /\ sock[c].stage = "out"
    /\ \E id \in IdsOf[sock[c].entry] \ {Self} : HandOver(c, id)
    /\ UNCHANGED banned /\ netUnchanged

\* Faulty variant: nothing is reported, as InConnValidator does.
OutFailedSilently(c) ==
    /\ c \in DOMAIN sock /\ sock[c].stage = "out"
    /\ sock' = Drop(sock, {c})
    /\ UNCHANGED <<banned, queue>> /\ netUnchanged

OutFailed(c) ==
    /\ c \in DOMAIN sock /\ sock[c].stage = "out"
    /\ Report("failed", c)
    /\ UNCHANGED banned /\ netUnchanged

\* AcceptorHandlerImpl::on_accepted.
OnAccepted(e) ==
    /\ e \notin banned
    /\ \A c \in DOMAIN sock : sock[c].mode = "REMOTE" => sock[c].entry # e
    /\ Free # {}
    /\ sock' = Put(sock, FirstFree, [stage |-> "in", entry |-> e,
                                     mode |-> "REMOTE", task |-> 0, id |-> "none"])
    /\ UNCHANGED <<banned, queue>> /\ netUnchanged

\* InConnValidator: the handshake came in, and DownloaderRecorder knows the task.
InHandshake(c) ==
    /\ c \in DOMAIN sock /\ sock[c].stage = "in"
    /\ m_task_id # 0
    /\ \E id \in IdsOf[sock[c].entry] :
          IF id = Self
          THEN banned' = banned \cup {LocalAddr} /\ sock' = Drop(sock, {c})
          ELSE /\ sock' = [sock EXCEPT ![c].stage = "replying", ![c].id = id,
                                       ![c].task = m_task_id]
               /\ UNCHANGED banned
    /\ UNCHANGED queue /\ netUnchanged

\* Its reply is sent.
InReplied(c) ==
    /\ c \in DOMAIN sock /\ sock[c].stage = "replying"
    /\ HandOver(c, sock[c].id)
    /\ UNCHANGED banned /\ netUnchanged

\* A wrong handshake, an unknown task, a closed connection or a silent peer.
InFailed(c) ==
    /\ c \in DOMAIN sock /\ sock[c].stage \in {"in", "replying"}
    /\ sock' = Drop(sock, {c})
    /\ UNCHANGED <<banned, queue>> /\ netUnchanged

\* PeerIO: a whole message was received.
OnInput(c) ==
    /\ c \in DOMAIN sock /\ sock[c].stage \in {"io", "orphan"}
    /\ Cardinality({k \in queue : k.type = "io"}) < MaxIO
    /\ queue' = Post("io", c)
    /\ UNCHANGED <<banned, sock>> /\ netUnchanged

\* send_conn_abort.  Faulty variant: the worker is not told.
SendConnAbortNobody(c) ==
    /\ c \in DOMAIN sock /\ sock[c].stage \in {"io", "orphan"}
    /\ sock' = Drop(sock, {c})
    /\ UNCHANGED <<banned, queue>> /\ netUnchanged

SendConnAbort(c) ==
    /\ c \in DOMAIN sock /\ sock[c].stage \in {"io", "orphan"}
    /\ Report("abort", c)
    /\ UNCHANGED banned /\ netUnchanged

Dialling(c) == OnConnected(c) \/ OnConnectError(c) \/ OutValidated(c) \/ OutFailed(c)
Accepting(c) == InHandshake(c) \/ InReplied(c) \/ InFailed(c)

Next ==
    \/ \E e \in Listen : AddUnusedPeer(e)
    \/ CheckPeers
    \/ CheckNeedDisconnect
    \/ DisconnectOne
    \/ \E k \in queue : OnNetEvent(k)
    \/ Stop
    \/ Start
    \/ \E e \in Ephemeral : OnAccepted(e)
    \/ \E c \in Conn : Dialling(c) \/ Accepting(c) \/ OnInput(c) \/ SendConnAbort(c)

Spec == Init /\ [][Next]_vars

\* The worker goes on with its loops, and no event is passed over for ever: the
\* worker is faster than its connections, so that its queue runs empty.  A dial
\* ends, because connectors and validators time out.
FairSpec ==
    /\ Spec
    /\ WF_vars(DisconnectOne)
    /\ \A c \in Conn :
          /\ SF_vars(\E k \in queue : k.conn = c /\ OnNetEvent(k))
          /\ WF_vars(Dialling(c))

----------------------------------------------------------------------------
(* Properties.                                                              *)

\* Types; no address is listed that failed more than MAX_ERROR_TIMES times.
TypeOK ==
    /\ m_task_id \in Task \cup {0}
    /\ DOMAIN m_unused_peers \subseteq Entry
    /\ \A e \in DOMAIN m_unused_peers : m_unused_peers[e] \in 0..MaxError
    /\ DOMAIN m_connecting_peers \subseteq Entry
    /\ \A e \in DOMAIN m_connecting_peers : m_connecting_peers[e] \in 0..MaxError
    /\ DOMAIN m_connected_peers \subseteq Entry
    /\ \A e \in DOMAIN m_connected_peers : m_connected_peers[e] \in
           [failed : 0..MaxError, mode : {"LOCAL", "REMOTE"}, id : PeerId, conn : Conn]
    /\ closing \in BOOLEAN
    /\ banned \subseteq Entry
    /\ DOMAIN sock \subseteq Conn
    /\ \A c \in DOMAIN sock : sock[c] \in Socket
    /\ queue \subseteq [type : {"established", "failed", "io", "abort"}, entry : Entry,
                        mode : {"LOCAL", "REMOTE"}, conn : Conn]
    /\ refused \subseteq Entry

\* A peer is connected once, and not to itself, though the handshakes of two
\* connections of it may run at the same time in two threads.
UniquePeers ==
    \A e \in DOMAIN m_connected_peers :
        /\ m_connected_peers[e].id # Self
        /\ \A k \in DOMAIN m_connected_peers \ {e} :
              m_connected_peers[k].id # m_connected_peers[e].id

\* An address is in one list at most, when peers listen elsewhere than where
\* their connections come in from (the comment in on_net_io_event, 781).
ListsDisjoint ==
    Listen \cap Ephemeral = {} =>
        /\ DOMAIN m_unused_peers \cap DOMAIN m_connecting_peers = {}
        /\ DOMAIN m_unused_peers \cap DOMAIN m_connected_peers = {}
        /\ DOMAIN m_connecting_peers \cap DOMAIN m_connected_peers = {}

\* The connections we made or are making never exceed the setting.
OutgoingBound ==
    Cardinality(DOMAIN m_connecting_peers)
    + Cardinality({e \in DOMAIN m_connected_peers : m_connected_peers[e].mode = "LOCAL"})
        <= MaxConnection

\* Handshakes finish in any order in several threads, and peers come and go
\* while they are dialled: no peer is met twice, no address is in two lists,
\* and no more connections are opened than the setting allows.
PeersMetOnce == UniquePeers /\ ListsDisjoint /\ OutgoingBound

\* A connected link has its PeerIO registered, or the report of its end is in
\* the queue, and every PeerIO registered belongs to the connected link of its
\* address, unless the link was deleted by the abort of an earlier connection.
LinkOwnsItsHandler ==
    /\ \A e \in DOMAIN m_connected_peers :
          LET c == m_connected_peers[e].conn IN
          \/ c \in DOMAIN sock /\ sock[c].stage = "io" /\ sock[c].entry = e
          \/ \E k \in queue : k.type = "abort" /\ k.conn = c
    /\ \A c \in DOMAIN sock : sock[c].stage = "io" =>
          /\ sock[c].entry \in DOMAIN m_connected_peers
          /\ m_connected_peers[sock[c].entry].conn = c

\* A peer is listed as connecting as long as its dial is under way or its
\* outcome is in the queue, or its established connection was refused.
SlotHasDial ==
    \A e \in DOMAIN m_connecting_peers :
        \/ \E c \in DOMAIN sock : /\ sock[c].entry = e /\ sock[c].mode = "LOCAL"
                                  /\ sock[c].stage \in {"connector", "out"}
                                  /\ sock[c].task = m_task_id
        \/ \E k \in queue : /\ k.type \in {"established", "failed"}
                            /\ k.entry = e /\ k.mode = "LOCAL"
        \/ e \in refused

\* Across the threads no connection is forgotten: no zombie link, no orphan
\* socket of a living link, and no slot taken by a dial that is over.
NoneForgotten == LinkOwnsItsHandler /\ SlotHasDial

\* The loop that closes the slowest peers ends, as long as the setting leaves
\* room for a connection (for a maximum of 20 its bound in 389 is 0).
DisconnectEnds == closing ~> ~closing

\* Every dial is settled: an entry leaves the connecting list, unless its
\* connection is established and refused.
DialSettles ==
    \A e \in Listen : e \in DOMAIN m_connecting_peers ~>
        (e \notin DOMAIN m_connecting_peers \/ e \in refused)
=============================================================================
