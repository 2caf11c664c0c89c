------------------------- MODULE PeerManagerProofs -------------------------
(***************************************************************************)
(* The connections of a task for any number of addresses, peers, sockets   *)
(* and threads: no connection is forgotten between the selector threads    *)
(* and the worker, no peer is met twice and no more connections are opened *)
(* than the setting allows.                                                *)
(***************************************************************************)
EXTENDS PeerManager, FiniteSetTheorems, TLAPS

(***************************************************************************)
(* Ranks: how check_peers takes addresses in their order.                  *)
(***************************************************************************)

\* The members of a finite set of integers have the ranks below its size, and
\* a smaller one has a smaller rank.
LEMMA RankType ==
    ASSUME NEW S \in SUBSET Int, IsFiniteSet(S)
    PROVE  /\ Cardinality(S) \in Nat
           /\ \A x \in S : Rank(x, S) \in 0 .. Cardinality(S) - 1
           /\ \A x, y \in S : x < y => Rank(x, S) < Rank(y, S)
<1>1. Cardinality(S) \in Nat
  BY FS_CardinalityType
<1>2. ASSUME NEW x \in S, NEW T \in SUBSET S, x \notin T
      PROVE  Cardinality(T) \in Nat /\ Cardinality(T) < Cardinality(S)
  <2>1. IsFiniteSet(T) /\ Cardinality(T) <= Cardinality(S) /\ (Cardinality(S) = Cardinality(T) => S = T)
    BY FS_Subset
  <2>2. Cardinality(T) \in Nat /\ S # T
    BY <1>2, <2>1, FS_CardinalityType
  <2>3. QED
    BY <1>1, <2>1, <2>2
<1>3. ASSUME NEW x \in S
      PROVE  Rank(x, S) \in 0 .. Cardinality(S) - 1
  <2>1. x \notin {y \in S : y < x}
    OBVIOUS
  <2>2. Rank(x, S) \in Nat /\ Rank(x, S) < Cardinality(S)
    BY <1>2, <2>1 DEF Rank
  <2>3. QED
    BY <1>1, <2>2
<1>4. ASSUME NEW x \in S, NEW y \in S, x < y
      PROVE  Rank(x, S) < Rank(y, S)
  <2> DEFINE A == {z \in S : z < x}
             B == {z \in S : z < y}
  <2>0. x \in Int /\ y \in Int /\ A \in SUBSET S /\ B \in SUBSET S
    OBVIOUS
  <2>1. A \in SUBSET B /\ x \in B /\ x \notin A
    <3>1. ASSUME NEW z \in A PROVE z \in B
      BY <1>4, <2>0, SMT
    <3>2. x \in B
      BY <1>4
    <3>3. ~(x < x)
      BY <2>0
    <3>4. QED
      BY <3>1, <3>2, <3>3
  <2>2. IsFiniteSet(B) /\ IsFiniteSet(A)
    BY FS_Subset
  <2>3. Cardinality(A) \in Nat /\ Cardinality(B) \in Nat
    BY <2>2, FS_CardinalityType
  <2>4. Cardinality(A) <= Cardinality(B) /\ (Cardinality(B) = Cardinality(A) => B = A)
    BY <2>1, <2>2, FS_Subset
  <2>5. Cardinality(A) < Cardinality(B)
    BY <2>1, <2>3, <2>4
  <2>6. QED
    BY <2>5 DEF Rank
<1>5. QED
  BY <1>1, <1>3, <1>4

\* No two members have one rank, and each rank is taken.
LEMMA RankBijective ==
    ASSUME NEW S \in SUBSET Int, IsFiniteSet(S)
    PROVE  /\ \A x, y \in S : Rank(x, S) = Rank(y, S) => x = y
           /\ \A n \in 0 .. Cardinality(S) - 1 : \E x \in S : Rank(x, S) = n
<1> DEFINE T == 0 .. Cardinality(S) - 1
           f == [x \in S |-> Rank(x, S)]
<1>1. Cardinality(S) \in Nat /\ f \in [S -> T]
  BY RankType
<1>2. ASSUME NEW x \in S, NEW y \in S, Rank(x, S) = Rank(y, S)
      PROVE  x = y
  <2>1. x \in Int /\ y \in Int /\ Rank(x, S) \in Int /\ Rank(y, S) \in Int
    BY RankType
  <2>2. ~(x < y) /\ ~(y < x)
    BY <1>2, <2>1, RankType
  <2>3. QED
    BY <2>1, <2>2
<1>3. f \in Injection(S, T)
  BY <1>1, <1>2 DEF Injection, IsInjective
<1>4. IsFiniteSet(T) /\ Cardinality(T) = Cardinality(S)
  <2> HIDE DEF f
  <2>1. 0 \in Int /\ Cardinality(S) - 1 \in Int
    BY <1>1
  <2>2. IsFiniteSet(T)
        /\ Cardinality(T) = IF 0 > Cardinality(S) - 1 THEN 0 ELSE Cardinality(S) - 1 - 0 + 1
    BY <2>1, FS_Interval
  <2>3. QED
    BY <1>1, <2>2
<1>5. f \in Surjection(S, T)
  BY <1>3, <1>4, FS_Injection
<1>6. QED
  BY <1>2, <1>5 DEF Surjection

\* The first n members.
LEMMA FirstRanks ==
    ASSUME NEW S \in SUBSET Int, IsFiniteSet(S), NEW n \in Nat
    PROVE  LET first == {x \in S : Rank(x, S) < n}
           IN  /\ IsFiniteSet(first)
               /\ Cardinality(first) \in Nat
               /\ Cardinality(first) <= n
               /\ n <= Cardinality(S) => Cardinality(first) = n
               /\ Cardinality(S) <= n => first = S
<1> DEFINE first == {x \in S : Rank(x, S) < n}
           T == 0 .. n - 1
           f == [x \in first |-> Rank(x, S)]
<1>1. IsFiniteSet(first) /\ Cardinality(first) \in Nat
  BY FS_Subset, FS_CardinalityType
<1>2. f \in [first -> T]
  <2>1. ASSUME NEW x \in first PROVE Rank(x, S) \in T
    <3>1. Rank(x, S) \in Nat
      BY RankType
    <3>2. QED
      BY <3>1
  <2>2. QED
    BY <2>1
<1>3. f \in Injection(first, T)
  BY <1>2, RankBijective DEF Injection, IsInjective
<1>4. IsFiniteSet(T) /\ Cardinality(T) = n
  BY FS_Interval, SMT
<1>5. Cardinality(first) <= n
  BY <1>3, <1>4, FS_Injection
<1>6. ASSUME n <= Cardinality(S) PROVE Cardinality(first) = n
  <2>1. \A k \in T : \E x \in S : Rank(x, S) = k
    BY <1>6, RankBijective, RankType, SMT
  <2>2. f \in Surjection(first, T)
    BY <1>2, <2>1 DEF Surjection
  <2>3. n <= Cardinality(first)
    BY <1>1, <1>4, <2>2, FS_Surjection
  <2>4. QED
    BY <1>1, <1>5, <2>3
<1>7. ASSUME Cardinality(S) <= n PROVE first = S
  <2>1. ASSUME NEW x \in S PROVE Rank(x, S) < n
    <3>1. Cardinality(S) \in Nat /\ Rank(x, S) \in 0 .. Cardinality(S) - 1
      BY RankType
    <3>2. QED
      BY <1>7, <3>1
  <2>2. QED
    BY <2>1
<1>8. QED
  BY <1>1, <1>5, <1>6, <1>7

\* The union of two finite sets is no larger than both together.
LEMMA UnionBound ==
    ASSUME NEW S, IsFiniteSet(S), NEW T, IsFiniteSet(T)
    PROVE  /\ IsFiniteSet(S \cup T) /\ Cardinality(S \cup T) \in Nat
           /\ Cardinality(S \cup T) <= Cardinality(S) + Cardinality(T)
<1>1. IsFiniteSet(S \cup T)
      /\ Cardinality(S \cup T) = Cardinality(S) + Cardinality(T) - Cardinality(S \cap T)
  BY FS_Union
<1>2. Cardinality(S \cap T) \in Nat
  BY FS_Intersection, FS_CardinalityType
<1>3. QED
  BY <1>1, <1>2, FS_CardinalityType

(***************************************************************************)
(* The inductive invariant.                                                *)
(***************************************************************************)

\* Without a worker nothing is connected or being connected.
Resting == m_task_id = 0 => DOMAIN m_connecting_peers = {} /\ DOMAIN m_connected_peers = {}

\* A socket handed to the worker is of the task that runs, has shown an id, and
\* like every socket comes from where its mode says.
SocketOf(c) ==
    /\ sock[c].stage \in {"posted", "io"} => sock[c].task = m_task_id /\ m_task_id # 0
    /\ sock[c].stage \in {"replying", "posted"} => sock[c].id \in PeerId
    /\ sock[c].entry \in (IF sock[c].mode = "LOCAL" THEN Listen ELSE Ephemeral)

Sockets == \A c \in DOMAIN sock : SocketOf(c)

\* The event of an established connection owns its socket; the one of an ended
\* connection comes from a socket that is gone, and from no link but its own.
EventOf(k) ==
    /\ k.type = "established" =>
          /\ k.conn \in DOMAIN sock /\ sock[k.conn].stage = "posted"
          /\ sock[k.conn].entry = k.entry /\ sock[k.conn].mode = k.mode
    /\ k.type = "abort" =>
          /\ k.conn \notin DOMAIN sock
          /\ \A e \in DOMAIN m_connected_peers :
                m_connected_peers[e].conn = k.conn => e = k.entry

Events == \A k \in queue : EventOf(k)

\* Only addresses where peers listen are dialled.
Origins ==
    /\ DOMAIN m_unused_peers \subseteq Listen
    /\ DOMAIN m_connecting_peers \subseteq Listen
    /\ \A e \in DOMAIN m_connected_peers :
          e \in (IF m_connected_peers[e].mode = "LOCAL" THEN Listen ELSE Ephemeral)

Connections == Resting /\ Sockets /\ Events /\ Origins /\ LinkOwnsItsHandler

Inv == TypeOK /\ Connections /\ SlotHasDial /\ PeersMetOnce

\* A socket that is not of stage "io" is of no link.
LEMMA NoLinkHas ==
    ASSUME Connections, NEW e \in DOMAIN m_connected_peers,
           m_connected_peers[e].conn \in DOMAIN sock
    PROVE  sock[m_connected_peers[e].conn].stage = "io"
BY DEF Connections, LinkOwnsItsHandler, Events, EventOf

\* Two links never have the same socket.
LEMMA OneLinkPerSocket ==
    ASSUME Connections, NEW e \in DOMAIN m_connected_peers, NEW f \in DOMAIN m_connected_peers,
           m_connected_peers[e].conn = m_connected_peers[f].conn
    PROVE  e = f
BY DEF Connections, LinkOwnsItsHandler, Events, EventOf

LEMMA EntryFinite == Entry \in SUBSET Int /\ IsFiniteSet(Entry) /\ Listen \subseteq Entry /\ Ephemeral \subseteq Entry
BY PeerManagerAssumption DEF Entry

\* What Put and Drop do.
LEMMA PutFacts ==
    ASSUME NEW f, NEW x, NEW v
    PROVE  /\ DOMAIN Put(f, x, v) = DOMAIN f \cup {x}
           /\ Put(f, x, v)[x] = v
           /\ \A y \in DOMAIN f : y # x => Put(f, x, v)[y] = f[y]
BY DEF Put

LEMMA DropFacts ==
    ASSUME NEW f, NEW S
    PROVE  /\ DOMAIN Drop(f, S) = DOMAIN f \ S
           /\ \A y \in DOMAIN f \ S : Drop(f, S)[y] = f[y]
BY DEF Drop

(***************************************************************************)
(* Types, part by part.                                                    *)
(***************************************************************************)

ListsTyped ==
    /\ DOMAIN m_unused_peers \subseteq Entry
    /\ \A e \in DOMAIN m_unused_peers : m_unused_peers[e] \in 0..MaxError
    /\ DOMAIN m_connecting_peers \subseteq Entry
    /\ \A e \in DOMAIN m_connecting_peers : m_connecting_peers[e] \in 0..MaxError
    /\ DOMAIN m_connected_peers \subseteq Entry
    /\ \A e \in DOMAIN m_connected_peers : m_connected_peers[e] \in
           [failed : 0..MaxError, mode : {"LOCAL", "REMOTE"}, id : PeerId, conn : Conn]

RestTyped ==
    /\ m_task_id \in Task \cup {0}
    /\ closing \in BOOLEAN
    /\ banned \subseteq Entry
    /\ refused \subseteq Entry

SockTyped == DOMAIN sock \subseteq Conn /\ \A c \in DOMAIN sock : sock[c] \in Socket

QueueTyped ==
    queue \subseteq [type : {"established", "failed", "io", "abort"}, entry : Entry,
                     mode : {"LOCAL", "REMOTE"}, conn : Conn]

LEMMA TypeParts == TypeOK <=> ListsTyped /\ RestTyped /\ SockTyped /\ QueueTyped
BY DEF TypeOK, ListsTyped, RestTyped, SockTyped, QueueTyped

LEMMA FreeFacts ==
    /\ Free \in SUBSET Int /\ IsFiniteSet(Free) /\ Free \subseteq Conn
    /\ \A c \in Free :
          /\ c \notin DOMAIN sock
          /\ \A k \in queue : k.conn # c
          /\ \A e \in DOMAIN m_connected_peers : m_connected_peers[e].conn # c
<1>1. Free \in SUBSET Conn
  BY DEF Free
<1>2. Conn \in SUBSET Int /\ IsFiniteSet(Conn)
  BY PeerManagerAssumption
<1>3. IsFiniteSet(Free)
  BY <1>1, <1>2, FS_Subset
<1>4. QED
  BY <1>1, <1>2, <1>3 DEF Free

\* An event that is posted names its socket, its address and its mode.
LEMMA PostFacts ==
    ASSUME NEW c \in DOMAIN sock, SockTyped, QueueTyped,
           NEW type \in {"established", "failed", "io", "abort"}
    PROVE  /\ Post(type, c) \subseteq [type : {"established", "failed", "io", "abort"},
                 entry : Entry, mode : {"LOCAL", "REMOTE"}, conn : Conn]
           /\ \A k \in Post(type, c) \ queue :
                 /\ k.type = type /\ k.conn = c
                 /\ k.entry = sock[c].entry /\ k.mode = sock[c].mode
           /\ queue \subseteq Post(type, c)
           /\ Delivered(c) => \E k \in Post(type, c) :
                 /\ k.type = type /\ k.conn = c
                 /\ k.entry = sock[c].entry /\ k.mode = sock[c].mode
<1>1. sock[c] \in Socket /\ c \in Conn
  BY DEF SockTyped
<1>2. Event(type, c) \in [type : {"established", "failed", "io", "abort"}, entry : Entry,
                          mode : {"LOCAL", "REMOTE"}, conn : Conn]
  BY <1>1 DEF Event, Socket
<1>3. /\ Event(type, c).type = type /\ Event(type, c).conn = c
      /\ Event(type, c).entry = sock[c].entry /\ Event(type, c).mode = sock[c].mode
  BY DEF Event
<1>4. QED
  BY <1>2, <1>3 DEF Post, QueueTyped

(***************************************************************************)
(* The handlers, in the selector threads.                                  *)
(***************************************************************************)

\* A step of a handler leaves the lists alone.
LEMMA HandlerStep ==
    ASSUME Inv, netUnchanged, SockTyped', QueueTyped', banned' \subseteq Entry,
           Sockets', Events', LinkOwnsItsHandler', SlotHasDial'
    PROVE  Inv'
<1>1. ListsTyped' /\ RestTyped'
  BY TypeParts DEF Inv, ListsTyped, RestTyped, netUnchanged, lists
<1>2. TypeOK'
  BY <1>1, TypeParts, PTL
<1>3. Resting' /\ Origins'
  BY DEF Inv, Connections, Resting, Origins, netUnchanged, lists
<1>4. PeersMetOnce'
  BY DEF Inv, PeersMetOnce, UniquePeers, ListsDisjoint, OutgoingBound, netUnchanged, lists
<1>5. QED
  BY <1>2, <1>3, <1>4 DEF Inv, Connections

\* A step of the handler of one socket: only that socket changes, and events are
\* added.
Dials(c) ==
    /\ c \in DOMAIN sock /\ sock[c].mode = "LOCAL"
    /\ sock[c].stage \in {"connector", "out"} /\ sock[c].task = m_task_id

LEMMA OneSocketStep ==
    ASSUME Inv, NEW c \in Conn, netUnchanged, SockTyped', QueueTyped', banned' \subseteq Entry,
           queue \subseteq queue',
           \A d : d # c => (d \in DOMAIN sock' <=> d \in DOMAIN sock),
           \A d \in DOMAIN sock : d # c => sock'[d] = sock[d],
           c \in DOMAIN sock' => SocketOf(c)',
           \A k \in queue' : (k \in queue /\ k.conn # c) \/ EventOf(k)',
           \A e \in DOMAIN m_connected_peers : m_connected_peers[e].conn = c =>
               \/ c \in DOMAIN sock' /\ sock'[c].stage = "io" /\ sock'[c].entry = e
               \/ \E k \in queue' : k.type = "abort" /\ k.conn = c,
           c \in DOMAIN sock' /\ sock'[c].stage = "io" => c \in DOMAIN sock /\ sock'[c] = sock[c],
           Dials(c) /\ sock[c].entry \in DOMAIN m_connecting_peers =>
               \/ Dials(c)' /\ sock'[c].entry = sock[c].entry
               \/ \E k \in queue' : /\ k.type \in {"established", "failed"}
                                    /\ k.entry = sock[c].entry /\ k.mode = "LOCAL"
    PROVE  Inv'
<1>1. m_task_id' = m_task_id /\ m_connecting_peers' = m_connecting_peers
      /\ m_connected_peers' = m_connected_peers /\ refused' = refused
  BY DEF netUnchanged, lists
<1>2. Sockets'
  <2> SUFFICES ASSUME NEW d \in DOMAIN sock' PROVE SocketOf(d)'
    BY DEF Sockets
  <2>1. CASE d # c
    BY <1>1, <2>1 DEF SocketOf, Inv, Connections, Sockets
  <2>2. QED
    BY <2>1
<1>3. Events'
  <2> SUFFICES ASSUME NEW k \in queue' PROVE EventOf(k)'
    BY DEF Events
  <2>1. CASE k \in queue /\ k.conn # c
    <3>1. EventOf(k)
      BY <2>1 DEF Inv, Connections, Events
    <3>2. QED
      BY <1>1, <2>1, <3>1 DEF EventOf
  <2>2. QED
    BY <2>1
<1>4. LinkOwnsItsHandler'
  <2>1. ASSUME NEW e \in DOMAIN m_connected_peers, NEW d, d = m_connected_peers[e].conn
        PROVE  \/ d \in DOMAIN sock' /\ sock'[d].stage = "io" /\ sock'[d].entry = e
               \/ \E k \in queue' : k.type = "abort" /\ k.conn = d
    <3>1. CASE d = c
      BY <2>1, <3>1
    <3>2. CASE d # c
      BY <2>1, <3>2 DEF Inv, Connections, LinkOwnsItsHandler
    <3>3. QED
      BY <3>1, <3>2
  <2>2. ASSUME NEW d \in DOMAIN sock', sock'[d].stage = "io"
        PROVE  /\ sock'[d].entry \in DOMAIN m_connected_peers
               /\ m_connected_peers[sock'[d].entry].conn = d
    <3>1. d \in DOMAIN sock /\ sock'[d] = sock[d]
      BY <2>2
    <3>2. QED
      BY <2>2, <3>1 DEF Inv, Connections, LinkOwnsItsHandler
  <2>3. QED
    BY <1>1, <2>1, <2>2 DEF LinkOwnsItsHandler
<1>5. SlotHasDial'
  <2> SUFFICES ASSUME NEW e \in DOMAIN m_connecting_peers'
               PROVE  \/ \E d \in DOMAIN sock' : Dials(d)' /\ sock'[d].entry = e
                      \/ \E k \in queue' : /\ k.type \in {"established", "failed"}
                                           /\ k.entry = e /\ k.mode = "LOCAL"
                      \/ e \in refused'
    BY DEF SlotHasDial, Dials
  <2>1. \/ \E d \in DOMAIN sock : Dials(d) /\ sock[d].entry = e
        \/ \E k \in queue' : /\ k.type \in {"established", "failed"}
                             /\ k.entry = e /\ k.mode = "LOCAL"
        \/ e \in refused'
    BY <1>1 DEF Inv, SlotHasDial, Dials
  <2>2. ASSUME NEW d \in DOMAIN sock, Dials(d), sock[d].entry = e, d # c
        PROVE  d \in DOMAIN sock' /\ Dials(d)' /\ sock'[d].entry = e
    BY <1>1, <2>2 DEF Dials
  <2>3. Dials(c)' => c \in DOMAIN sock'
    BY DEF Dials
  <2>4. CASE \E d \in DOMAIN sock : Dials(d) /\ sock[d].entry = e
    <3>1. PICK d \in DOMAIN sock : Dials(d) /\ sock[d].entry = e
      BY <2>4
    <3>2. CASE d = c
      BY <1>1, <2>3, <3>1, <3>2
    <3>3. CASE d # c
      BY <2>2, <3>1, <3>3
    <3>4. QED
      BY <3>2, <3>3
  <2>5. QED
    BY <2>1, <2>4
<1>6. QED
  BY <1>2, <1>3, <1>4, <1>5, HandlerStep

LEMMA OnConnectedStep ==
    ASSUME Inv, NEW c \in Conn, OnConnected(c)
    PROVE  Inv'
<1>1. /\ c \in DOMAIN sock /\ sock[c] \in Socket /\ sock[c].stage = "connector"
      /\ DOMAIN sock' = DOMAIN sock
      /\ \A d \in DOMAIN sock : d # c => sock'[d] = sock[d]
      /\ sock'[c] = [sock[c] EXCEPT !.stage = "out"]
  BY DEF Inv, TypeOK, OnConnected
<1>2. /\ sock'[c] \in Socket /\ sock'[c].stage = "out" /\ sock'[c].entry = sock[c].entry
      /\ sock'[c].mode = sock[c].mode /\ sock'[c].task = sock[c].task
  BY <1>1 DEF Socket
<1>3. queue' = queue /\ banned' = banned /\ netUnchanged
  BY DEF OnConnected
<1>4. SockTyped' /\ QueueTyped' /\ banned' \subseteq Entry
  BY <1>1, <1>2, <1>3 DEF Inv, TypeOK, SockTyped, QueueTyped
<1>5. SocketOf(c)'
  BY <1>1, <1>2 DEF Inv, Connections, Sockets, SocketOf
<1>6. \A k \in queue : EventOf(k) /\ (k.conn = c => k.type # "established" /\ k.type # "abort")
  BY <1>1 DEF Inv, Connections, Events, EventOf
<1>7. \A k \in queue' : (k \in queue /\ k.conn # c) \/ EventOf(k)'
  BY <1>3, <1>6 DEF EventOf
<1>8. \A e \in DOMAIN m_connected_peers : m_connected_peers[e].conn # c
  BY <1>1, NoLinkHas DEF Inv
<1>9. Dials(c) => Dials(c)' /\ sock'[c].entry = sock[c].entry
  BY <1>1, <1>2, <1>3 DEF Dials, netUnchanged
<1>10. QED
  BY <1>1, <1>2, <1>3, <1>4, <1>5, <1>7, <1>8, <1>9, OneSocketStep

\* What is known of a socket that exists and of the events that name it.
LEMMA SocketFacts ==
    ASSUME Inv, NEW c \in DOMAIN sock
    PROVE  /\ sock[c] \in Socket /\ c \in Conn /\ SocketOf(c)
           /\ SockTyped /\ QueueTyped
           /\ \A k \in queue : k.conn = c =>
                 /\ k.type # "abort"
                 /\ k.type = "established" => sock[c].stage = "posted"
           /\ sock[c].stage # "io" =>
                 \A e \in DOMAIN m_connected_peers : m_connected_peers[e].conn # c
<1>1. sock[c] \in Socket /\ c \in Conn /\ SockTyped /\ QueueTyped
  BY DEF Inv, TypeOK, SockTyped, QueueTyped
<1>2. SocketOf(c)
  BY DEF Inv, Connections, Sockets
<1>3. \A k \in queue : k.conn = c =>
                 /\ k.type # "abort"
                 /\ k.type = "established" => sock[c].stage = "posted"
  BY DEF Inv, Connections, Events, EventOf
<1>4. sock[c].stage # "io" =>
                 \A e \in DOMAIN m_connected_peers : m_connected_peers[e].conn # c
  BY NoLinkHas DEF Inv
<1>5. QED
  BY <1>1, <1>2, <1>3, <1>4

\* A dial that fails is reported to the worker that waits for it.
LEMMA FailedStep ==
    ASSUME Inv, NEW c \in Conn, c \in DOMAIN sock, sock[c].stage \in {"connector", "out"},
           Report("failed", c), banned' = banned, netUnchanged
    PROVE  Inv'
<1>1. /\ DOMAIN sock' = DOMAIN sock \ {c}
      /\ \A d \in DOMAIN sock : d # c => sock'[d] = sock[d]
  BY DEF Report, Drop
<1>2. queue' = Post("failed", c)
  BY DEF Report
<1>3. /\ queue \subseteq queue'
      /\ \A k \in queue' \ queue : k.type = "failed"
      /\ Delivered(c) => \E k \in queue' : /\ k.type = "failed" /\ k.entry = sock[c].entry
                                           /\ k.mode = sock[c].mode
      /\ QueueTyped'
  BY <1>2, SocketFacts, PostFacts DEF QueueTyped
<1>4. SockTyped' /\ banned' \subseteq Entry
  BY <1>1 DEF Inv, TypeOK, SockTyped
<1>5. \A k \in queue' : (k \in queue /\ k.conn # c) \/ EventOf(k)'
  BY <1>3, SocketFacts DEF EventOf
<1>6. Dials(c) /\ sock[c].entry \in DOMAIN m_connecting_peers =>
          \E k \in queue' : /\ k.type \in {"established", "failed"}
                           /\ k.entry = sock[c].entry /\ k.mode = "LOCAL"
  <2>1. ASSUME Dials(c), sock[c].entry \in DOMAIN m_connecting_peers PROVE Delivered(c)
    BY <2>1 DEF Dials, Delivered, Inv, Connections, Resting
  <2>2. QED
    BY <1>3, <2>1 DEF Dials
<1>7. QED
  BY <1>1, <1>3, <1>4, <1>5, <1>6, SocketFacts, OneSocketStep

LEMMA OnConnectErrorStep ==
    ASSUME Inv, NEW c \in Conn, OnConnectError(c)
    PROVE  Inv'
BY FailedStep DEF OnConnectError

LEMMA OutFailedStep ==
    ASSUME Inv, NEW c \in Conn, OutFailed(c)
    PROVE  Inv'
BY FailedStep DEF OutFailed

\* An established socket goes to the worker with its event, or is closed.
LEMMA HandOverStep ==
    ASSUME Inv, NEW c \in Conn, c \in DOMAIN sock, sock[c].stage \in {"out", "replying"},
           NEW id \in PeerId, HandOver(c, id), banned' = banned, netUnchanged
    PROVE  Inv'
<1>1. /\ DOMAIN sock' = IF Delivered(c) THEN DOMAIN sock ELSE DOMAIN sock \ {c}
      /\ \A d \in DOMAIN sock : d # c => sock'[d] = sock[d]
  BY DEF HandOver, Drop
<1>2. ASSUME Delivered(c)
      PROVE  /\ sock'[c] \in Socket /\ sock'[c].stage = "posted" /\ sock'[c].id = id
             /\ sock'[c].entry = sock[c].entry /\ sock'[c].mode = sock[c].mode
             /\ sock'[c].task = sock[c].task
  <2>1. sock'[c] = [sock[c] EXCEPT !.stage = "posted", !.id = id]
    BY <1>2 DEF HandOver
  <2>2. QED
    BY <2>1, SocketFacts DEF Socket
<1>3. queue' = Post("established", c)
  BY DEF HandOver
<1>4. /\ queue \subseteq queue'
      /\ QueueTyped'
      /\ \A k \in queue' \ queue : /\ k.type = "established" /\ k.conn = c
                                   /\ k.entry = sock[c].entry /\ k.mode = sock[c].mode
      /\ Delivered(c) => \E k \in queue' : /\ k.type = "established" /\ k.entry = sock[c].entry
                                           /\ k.mode = sock[c].mode
      /\ ~Delivered(c) => queue' = queue
  BY <1>3, SocketFacts, PostFacts DEF QueueTyped, Post
<1>5. SockTyped' /\ banned' \subseteq Entry
  BY <1>1, <1>2, SocketFacts DEF Inv, TypeOK, SockTyped
<1>6. c \in DOMAIN sock' => SocketOf(c)' /\ sock'[c].stage # "io"
  <2>1. ASSUME Delivered(c) PROVE SocketOf(c)'
    BY <1>2, <2>1, SocketFacts DEF SocketOf, Delivered, netUnchanged
  <2>2. QED
    BY <1>1, <1>2, <2>1
<1>7. \A k \in queue' : (k \in queue /\ k.conn # c) \/ EventOf(k)'
  <2>1. ASSUME NEW k \in queue, k.conn = c PROVE EventOf(k)'
    BY <2>1, SocketFacts DEF EventOf
  <2>2. ASSUME NEW k \in queue', k \notin queue PROVE EventOf(k)'
    BY <1>1, <1>2, <1>4, <2>2 DEF EventOf
  <2>3. QED
    BY <2>1, <2>2
<1>8. Dials(c) /\ sock[c].entry \in DOMAIN m_connecting_peers =>
          \E k \in queue' : /\ k.type \in {"established", "failed"}
                           /\ k.entry = sock[c].entry /\ k.mode = "LOCAL"
  <2>1. ASSUME Dials(c), sock[c].entry \in DOMAIN m_connecting_peers PROVE Delivered(c)
    BY <2>1 DEF Dials, Delivered, Inv, Connections, Resting
  <2>2. QED
    BY <1>4, <2>1 DEF Dials
<1>9. QED
  BY <1>1, <1>4, <1>5, <1>6, <1>7, <1>8, SocketFacts, OneSocketStep

LEMMA OutValidatedStep ==
    ASSUME Inv, NEW c \in Conn, OutValidated(c)
    PROVE  Inv'
<1>1. c \in DOMAIN sock /\ sock[c].stage = "out" /\ banned' = banned /\ netUnchanged
  BY DEF OutValidated
<1>2. PICK id \in IdsOf[sock[c].entry] \ {Self} : HandOver(c, id)
  BY DEF OutValidated
<1>3. id \in PeerId
  BY <1>1, SocketFacts, PeerManagerAssumption DEF Socket
<1>4. QED
  BY <1>1, <1>2, <1>3, HandOverStep

LEMMA InRepliedStep ==
    ASSUME Inv, NEW c \in Conn, InReplied(c)
    PROVE  Inv'
<1>1. c \in DOMAIN sock /\ sock[c].stage = "replying" /\ banned' = banned /\ netUnchanged
      /\ HandOver(c, sock[c].id)
  BY DEF InReplied
<1>2. sock[c].id \in PeerId
  BY <1>1, SocketFacts DEF SocketOf
<1>3. QED
  BY <1>1, <1>2, HandOverStep

\* A socket that nobody was told of is closed.
LEMMA DroppedStep ==
    ASSUME Inv, NEW c \in Conn, c \in DOMAIN sock, sock[c].stage \in {"in", "replying"},
           sock' = Drop(sock, {c}), queue' = queue, banned' \subseteq Entry, netUnchanged
    PROVE  Inv'
<1>1. /\ DOMAIN sock' = DOMAIN sock \ {c}
      /\ \A d \in DOMAIN sock : d # c => sock'[d] = sock[d]
  BY DEF Drop
<1>2. SockTyped' /\ QueueTyped'
  BY <1>1, SocketFacts DEF SockTyped, QueueTyped
<1>3. \A k \in queue' : (k \in queue /\ k.conn # c) \/ EventOf(k)'
  BY SocketFacts DEF EventOf
<1>4. ~Dials(c)
  BY DEF Dials
<1>5. QED
  BY <1>1, <1>2, <1>3, <1>4, SocketFacts, OneSocketStep

LEMMA InFailedStep ==
    ASSUME Inv, NEW c \in Conn, InFailed(c)
    PROVE  Inv'
BY DroppedStep DEF InFailed, Inv, TypeOK

LEMMA InHandshakeStep ==
    ASSUME Inv, NEW c \in Conn, InHandshake(c)
    PROVE  Inv'
<1>1. c \in DOMAIN sock /\ sock[c].stage = "in" /\ queue' = queue /\ netUnchanged
      /\ m_task_id # 0
  BY DEF InHandshake
<1>2. PICK id \in IdsOf[sock[c].entry] :
          IF id = Self
          THEN banned' = banned \cup {LocalAddr} /\ sock' = Drop(sock, {c})
          ELSE /\ sock' = [sock EXCEPT ![c].stage = "replying", ![c].id = id,
                                       ![c].task = m_task_id]
               /\ UNCHANGED banned
  BY DEF InHandshake
<1>3. id \in PeerId
  BY <1>1, SocketFacts, PeerManagerAssumption DEF Socket
<1>4. banned' \subseteq Entry
  BY <1>2, PeerManagerAssumption DEF Inv, TypeOK, Entry
<1>5. CASE id = Self
  BY <1>1, <1>2, <1>4, <1>5, DroppedStep
<1>6. CASE id # Self
  <2>1. /\ DOMAIN sock' = DOMAIN sock
        /\ \A d \in DOMAIN sock : d # c => sock'[d] = sock[d]
        /\ sock'[c] = [sock[c] EXCEPT !.stage = "replying", !.id = id, !.task = m_task_id]
    BY <1>1, <1>2, <1>6
  <2>2. /\ sock'[c] \in Socket /\ sock'[c].stage = "replying" /\ sock'[c].id = id
        /\ sock'[c].entry = sock[c].entry /\ sock'[c].mode = sock[c].mode
    BY <1>1, <1>3, <2>1, SocketFacts DEF Socket, Inv, TypeOK
  <2>3. SockTyped' /\ QueueTyped'
    BY <1>1, <2>1, <2>2, SocketFacts DEF SockTyped, QueueTyped
  <2>4. SocketOf(c)'
    BY <1>1, <1>3, <2>2, SocketFacts DEF SocketOf
  <2>5. \A k \in queue' : (k \in queue /\ k.conn # c) \/ EventOf(k)'
    BY <1>1, SocketFacts DEF EventOf
  <2>6. ~Dials(c)
    BY <1>1 DEF Dials
  <2>7. \A e \in DOMAIN m_connected_peers : m_connected_peers[e].conn # c
    BY <1>1, SocketFacts
  <2>8. sock'[c].stage # "io"
    BY <2>2
  <2>9. QED
    BY <1>1, <1>4, <2>1, <2>3, <2>4, <2>5, <2>6, <2>7, <2>8, OneSocketStep
<1>7. QED
  BY <1>5, <1>6

LEMMA OnAcceptedStep ==
    ASSUME Inv, NEW e \in Ephemeral, OnAccepted(e)
    PROVE  Inv'
<1> DEFINE new == [stage |-> "in", entry |-> e, mode |-> "REMOTE", task |-> 0, id |-> "none"]
<1>1. Free # {} /\ sock' = Put(sock, FirstFree, new) /\ queue' = queue /\ banned' = banned
      /\ netUnchanged
  BY DEF OnAccepted
<1>2. \E c \in Free : Rank(c, Free) = 0
  <2>1. Cardinality(Free) \in Nat /\ Cardinality(Free) # 0
    BY <1>1, FreeFacts, FS_CardinalityType, FS_EmptySet
  <2>2. 0 \in 0 .. Cardinality(Free) - 1
    BY <2>1
  <2>3. QED
    BY <2>2, FreeFacts, RankBijective
<1>3. FirstFree \in Free
  BY <1>2 DEF FirstFree
<1>4. PICK c \in Free : c = FirstFree
  BY <1>3
<1>5. /\ DOMAIN sock' = DOMAIN sock \cup {c} /\ sock'[c] = new
      /\ \A d \in DOMAIN sock : d # c => sock'[d] = sock[d]
  <2> HIDE DEF new
  <2>1. QED
    BY <1>1, <1>4 DEF Put
<1>6. /\ new \in Socket /\ new.stage = "in" /\ new.mode = "REMOTE" /\ new.entry = e
  BY PeerManagerAssumption, EntryFinite DEF Socket
<1>7. c \in Conn /\ c \notin DOMAIN sock /\ (\A k \in queue : k.conn # c)
      /\ \A f \in DOMAIN m_connected_peers : m_connected_peers[f].conn # c
  BY FreeFacts
<1> HIDE DEF new
<1>8. SockTyped' /\ QueueTyped' /\ banned' \subseteq Entry
  BY <1>1, <1>5, <1>6, <1>7 DEF SockTyped, QueueTyped, Inv, TypeOK
<1>9. SocketOf(c)'
  BY <1>5, <1>6 DEF SocketOf
<1>10. ~Dials(c)
  BY <1>7 DEF Dials
<1>11. QED
  BY <1>1, <1>5, <1>6, <1>7, <1>8, <1>9, <1>10, OneSocketStep

LEMMA OnInputStep ==
    ASSUME Inv, NEW c \in Conn, OnInput(c)
    PROVE  Inv'
<1>1. c \in DOMAIN sock /\ sock' = sock /\ queue' = Post("io", c) /\ banned' = banned
      /\ netUnchanged
  BY DEF OnInput
<1>2. /\ queue \subseteq queue' /\ QueueTyped'
      /\ \A k \in queue' \ queue : k.type = "io"
  BY <1>1, SocketFacts, PostFacts DEF QueueTyped
<1>3. SockTyped' /\ banned' \subseteq Entry
  BY <1>1, SocketFacts DEF Inv, TypeOK, SockTyped
<1>4. \A k \in queue' : (k \in queue /\ k.conn # c) \/ EventOf(k)'
  <2>1. ASSUME NEW k \in queue PROVE EventOf(k)'
    BY <1>1 DEF Inv, Connections, Events, EventOf, netUnchanged, lists
  <2>2. ASSUME NEW k \in queue', k \notin queue PROVE EventOf(k)'
    BY <1>2, <2>2 DEF EventOf
  <2>3. QED
    BY <2>1, <2>2
<1>5. SocketOf(c)'
  BY <1>1, SocketFacts DEF SocketOf, netUnchanged
<1>6. \A e \in DOMAIN m_connected_peers : m_connected_peers[e].conn = c =>
               \/ c \in DOMAIN sock' /\ sock'[c].stage = "io" /\ sock'[c].entry = e
               \/ \E k \in queue' : k.type = "abort" /\ k.conn = c
  BY <1>1, <1>2 DEF Inv, Connections, LinkOwnsItsHandler
<1>7. Dials(c) => Dials(c)' /\ sock'[c].entry = sock[c].entry
  BY <1>1 DEF Dials, netUnchanged
<1>8. QED
  BY <1>1, <1>2, <1>3, <1>4, <1>5, <1>6, <1>7, OneSocketStep

\* The end of a connection is reported to the task it was made for, so that the
\* link it belongs to hears of it; an orphan's belongs to none.
LEMMA SendConnAbortStep ==
    ASSUME Inv, NEW c \in Conn, SendConnAbort(c)
    PROVE  Inv'
<1>1. /\ c \in DOMAIN sock /\ sock[c].stage \in {"io", "orphan"}
      /\ queue' = Post("abort", c) /\ sock' = Drop(sock, {c})
      /\ banned' = banned /\ netUnchanged
  BY DEF SendConnAbort, Report
<1>2. /\ DOMAIN sock' = DOMAIN sock \ {c}
      /\ \A d \in DOMAIN sock : d # c => sock'[d] = sock[d]
  BY <1>1 DEF Drop
<1>3. /\ queue \subseteq queue' /\ QueueTyped'
      /\ \A k \in queue' \ queue : k.type = "abort" /\ k.conn = c /\ k.entry = sock[c].entry
      /\ Delivered(c) => \E k \in queue' : k.type = "abort" /\ k.conn = c
  BY <1>1, SocketFacts, PostFacts DEF QueueTyped
<1>4. SockTyped' /\ banned' \subseteq Entry
  BY <1>1, <1>2, SocketFacts DEF Inv, TypeOK, SockTyped
<1>5. \A e \in DOMAIN m_connected_peers : m_connected_peers[e].conn = c =>
          sock[c].stage = "io" /\ e = sock[c].entry
  BY <1>1, SocketFacts DEF Inv, Connections, LinkOwnsItsHandler
<1>6. \A k \in queue' : (k \in queue /\ k.conn # c) \/ EventOf(k)'
  <2>1. ASSUME NEW k \in queue, k.conn = c PROVE EventOf(k)'
    BY <1>1, <2>1, SocketFacts DEF EventOf
  <2>2. ASSUME NEW k \in queue', k \notin queue PROVE EventOf(k)'
    BY <1>1, <1>2, <1>3, <1>5, <2>2 DEF EventOf, netUnchanged, lists
  <2>3. QED
    BY <2>1, <2>2
<1>7. \A e \in DOMAIN m_connected_peers : m_connected_peers[e].conn = c =>
          \E k \in queue' : k.type = "abort" /\ k.conn = c
  <2>1. sock[c].stage = "io" => Delivered(c)
    BY <1>1, SocketFacts DEF SocketOf, Delivered
  <2>2. QED
    BY <1>3, <1>5, <2>1
<1>8. ~Dials(c)
  BY <1>1 DEF Dials
<1>9. QED
  BY <1>1, <1>2, <1>3, <1>4, <1>6, <1>7, <1>8, OneSocketStep

(***************************************************************************)
(* The worker: a link is closed.                                           *)
(***************************************************************************)

Outgoing == {e \in DOMAIN m_connected_peers : m_connected_peers[e].mode = "LOCAL"}

LEMMA OutgoingFacts ==
    ASSUME ListsTyped
    PROVE  /\ IsFiniteSet(DOMAIN m_unused_peers)
           /\ IsFiniteSet(DOMAIN m_connecting_peers) /\ IsFiniteSet(DOMAIN m_connected_peers)
           /\ IsFiniteSet(Outgoing)
           /\ Cardinality(DOMAIN m_connecting_peers) \in Nat
           /\ Cardinality(DOMAIN m_connected_peers) \in Nat
           /\ Cardinality(Outgoing) \in Nat
           /\ Cardinality(Outgoing) <= Cardinality(DOMAIN m_connected_peers)
<1>1. /\ DOMAIN m_unused_peers \in SUBSET Entry
      /\ DOMAIN m_connecting_peers \in SUBSET Entry /\ DOMAIN m_connected_peers \in SUBSET Entry
      /\ Outgoing \in SUBSET DOMAIN m_connected_peers
  BY DEF ListsTyped, Outgoing
<1>2. /\ IsFiniteSet(DOMAIN m_unused_peers)
      /\ IsFiniteSet(DOMAIN m_connecting_peers) /\ IsFiniteSet(DOMAIN m_connected_peers)
  BY <1>1, EntryFinite, FS_Subset
<1>3. IsFiniteSet(Outgoing) /\ Cardinality(Outgoing) <= Cardinality(DOMAIN m_connected_peers)
  BY <1>1, <1>2, FS_Subset
<1>4. QED
  BY <1>2, <1>3, FS_CardinalityType

LEMMA LinkClosed ==
    ASSUME Inv, NEW e \in DOMAIN m_connected_peers, NEW c, c = m_connected_peers[e].conn,
           DOMAIN m_connected_peers' = DOMAIN m_connected_peers \ {e},
           \A f \in DOMAIN m_connected_peers : f # e => m_connected_peers'[f] = m_connected_peers[f],
           m_task_id' = m_task_id, m_connecting_peers' = m_connecting_peers, refused' = refused,
           closing' \in BOOLEAN, banned' \subseteq Entry,
           \A f \in DOMAIN m_unused_peers' :
               /\ m_unused_peers'[f] \in 0..MaxError
               /\ f \in DOMAIN m_unused_peers \/ (f = e /\ m_connected_peers[e].mode = "LOCAL"),
           queue' \subseteq queue,
           \A k \in queue \ queue' : /\ k.type = "abort" => k.entry = e
                                     /\ k.type \notin {"established", "failed"},
           DOMAIN sock' \subseteq DOMAIN sock,
           \A d \in DOMAIN sock : d # c => d \in DOMAIN sock' /\ sock'[d] = sock[d],
           c \in DOMAIN sock' => sock'[c] = [sock[c] EXCEPT !.stage = "orphan"]
    PROVE  Inv'
<1>1. ListsTyped /\ RestTyped /\ SockTyped /\ QueueTyped
  BY TypeParts DEF Inv
<1>2. e \in (IF m_connected_peers[e].mode = "LOCAL" THEN Listen ELSE Ephemeral)
      /\ DOMAIN m_unused_peers \subseteq Listen
  BY DEF Inv, Connections, Origins
<1>3. c \in DOMAIN sock =>
          /\ sock[c].stage = "io" /\ sock[c] \in Socket /\ SocketOf(c)
          /\ c \in DOMAIN sock' => /\ sock'[c] \in Socket /\ sock'[c].stage = "orphan"
                                   /\ sock'[c].entry = sock[c].entry
                                   /\ sock'[c].mode = sock[c].mode
  <2>1. ASSUME c \in DOMAIN sock
        PROVE  sock[c].stage = "io" /\ sock[c] \in Socket /\ SocketOf(c)
    BY <2>1, NoLinkHas, SocketFacts DEF Inv
  <2>2. ASSUME c \in DOMAIN sock, c \in DOMAIN sock'
        PROVE  /\ sock'[c] \in Socket /\ sock'[c].stage = "orphan"
               /\ sock'[c].entry = sock[c].entry /\ sock'[c].mode = sock[c].mode
    BY <2>1, <2>2 DEF Socket
  <2>3. QED
    BY <2>1, <2>2
<1>4. TypeOK'
  <2>1. ListsTyped'
    <3>1. \A f \in DOMAIN m_unused_peers' : f \in Entry
      BY <1>2, EntryFinite
    <3>2. QED
      BY <1>1, <3>1 DEF ListsTyped
  <2>2. RestTyped' /\ QueueTyped'
    BY <1>1 DEF RestTyped, QueueTyped
  <2>3. SockTyped'
    BY <1>1, <1>3 DEF SockTyped
  <2>4. QED
    BY <2>1, <2>2, <2>3, TypeParts, PTL
<1>5. Resting' /\ Origins'
  <2>1. Resting'
    BY DEF Inv, Connections, Resting
  <2>2. DOMAIN m_unused_peers' \subseteq Listen
    BY <1>2
  <2>3. Origins'
    BY <2>2 DEF Inv, Connections, Origins
  <2>4. QED
    BY <2>1, <2>3
<1>6. Sockets'
  <2> SUFFICES ASSUME NEW d \in DOMAIN sock' PROVE SocketOf(d)'
    BY DEF Sockets
  <2>1. CASE d # c
    BY <2>1 DEF Inv, Connections, Sockets, SocketOf
  <2>2. CASE d = c
    BY <1>3, <2>2 DEF SocketOf
  <2>3. QED
    BY <2>1, <2>2
<1>7. Events'
  <2> SUFFICES ASSUME NEW k \in queue' PROVE EventOf(k)'
    BY DEF Events
  <2>1. EventOf(k)
    BY DEF Inv, Connections, Events
  <2>2. ASSUME k.type = "established"
        PROVE  /\ k.conn \in DOMAIN sock' /\ sock'[k.conn].stage = "posted"
               /\ sock'[k.conn].entry = k.entry /\ sock'[k.conn].mode = k.mode
    <3>1. k.conn \in DOMAIN sock /\ sock[k.conn].stage = "posted" /\ k.conn # c
      BY <1>3, <2>1, <2>2 DEF EventOf
    <3>2. QED
      BY <2>1, <2>2, <3>1 DEF EventOf
  <2>3. ASSUME k.type = "abort"
        PROVE  /\ k.conn \notin DOMAIN sock'
               /\ \A f \in DOMAIN m_connected_peers' :
                     m_connected_peers'[f].conn = k.conn => f = k.entry
    BY <2>1, <2>3 DEF EventOf
  <2>4. QED
    BY <2>2, <2>3 DEF EventOf
<1>8. LinkOwnsItsHandler'
  <2>1. ASSUME NEW f \in DOMAIN m_connected_peers', NEW d, d = m_connected_peers'[f].conn
        PROVE  \/ d \in DOMAIN sock' /\ sock'[d].stage = "io" /\ sock'[d].entry = f
               \/ \E k \in queue' : k.type = "abort" /\ k.conn = d
    <3>1. f \in DOMAIN m_connected_peers /\ f # e /\ d = m_connected_peers[f].conn
      BY <2>1
    <3>2. d # c
      BY <3>1, OneLinkPerSocket DEF Inv
    <3>3. CASE d \in DOMAIN sock /\ sock[d].stage = "io" /\ sock[d].entry = f
      BY <3>2, <3>3
    <3>4. ASSUME NEW k \in queue, k.type = "abort", k.conn = d
          PROVE  k \in queue'
      <4>1. k.entry = f
        BY <3>1, <3>4 DEF Inv, Connections, Events, EventOf
      <4>2. QED
        BY <3>1, <3>4, <4>1
    <3>5. QED
      BY <3>1, <3>3, <3>4 DEF Inv, Connections, LinkOwnsItsHandler
  <2>2. ASSUME NEW d \in DOMAIN sock', sock'[d].stage = "io"
        PROVE  /\ sock'[d].entry \in DOMAIN m_connected_peers'
               /\ m_connected_peers'[sock'[d].entry].conn = d
    <3>1. d \in DOMAIN sock /\ d # c /\ sock'[d] = sock[d]
      BY <1>3, <2>2
    <3>2. /\ sock[d].entry \in DOMAIN m_connected_peers
          /\ m_connected_peers[sock[d].entry].conn = d
      BY <2>2, <3>1 DEF Inv, Connections, LinkOwnsItsHandler
    <3>3. QED
      BY <3>1, <3>2
  <2>3. QED
    BY <2>1, <2>2 DEF LinkOwnsItsHandler
<1>9. SlotHasDial'
  <2> SUFFICES ASSUME NEW f \in DOMAIN m_connecting_peers'
               PROVE  \/ \E d \in DOMAIN sock' : Dials(d)' /\ sock'[d].entry = f
                      \/ \E k \in queue' : /\ k.type \in {"established", "failed"}
                                           /\ k.entry = f /\ k.mode = "LOCAL"
                      \/ f \in refused'
    BY DEF SlotHasDial, Dials
  <2>1. \/ \E d \in DOMAIN sock : Dials(d) /\ sock[d].entry = f
        \/ \E k \in queue' : /\ k.type \in {"established", "failed"}
                             /\ k.entry = f /\ k.mode = "LOCAL"
        \/ f \in refused'
    BY DEF Inv, SlotHasDial, Dials
  <2>2. CASE \E d \in DOMAIN sock : Dials(d) /\ sock[d].entry = f
    <3>1. PICK d \in DOMAIN sock : Dials(d) /\ sock[d].entry = f
      BY <2>2
    <3>2. d # c
      BY <1>3, <3>1 DEF Dials
    <3>3. QED
      BY <3>1, <3>2 DEF Dials
  <2>3. QED
    BY <2>1, <2>2
<1>10. PeersMetOnce'
  <2>1. UniquePeers'
    BY DEF Inv, PeersMetOnce, UniquePeers
  <2>2. ListsDisjoint'
    BY <1>2 DEF Inv, PeersMetOnce, ListsDisjoint, Connections, Origins
  <2>3. OutgoingBound'
    <3>1. Outgoing' \in SUBSET Outgoing
      BY DEF Outgoing
    <3>2. Cardinality(Outgoing') <= Cardinality(Outgoing) /\ Cardinality(Outgoing') \in Nat
      BY <1>1, <3>1, OutgoingFacts, FS_Subset, FS_CardinalityType
    <3>3. Cardinality(DOMAIN m_connecting_peers) + Cardinality(Outgoing) <= MaxConnection
      BY DEF Inv, PeersMetOnce, OutgoingBound, Outgoing
    <3>4. Cardinality(DOMAIN m_connecting_peers') + Cardinality(Outgoing') <= MaxConnection
      BY <1>1, <3>2, <3>3, OutgoingFacts, PeerManagerAssumption
    <3>5. QED
      BY <3>4 DEF OutgoingBound, Outgoing
  <2>4. QED
    BY <2>1, <2>2, <2>3 DEF PeersMetOnce
<1>11. QED
  BY <1>4, <1>5, <1>6, <1>7, <1>8, <1>9, <1>10 DEF Inv, Connections

\* An address goes to the unused peers.
LEMMA PutTyped ==
    ASSUME ListsTyped, NEW e, NEW failed \in 0..MaxError,
           m_unused_peers' = Put(m_unused_peers, e, failed)
    PROVE  \A f \in DOMAIN m_unused_peers' :
               /\ m_unused_peers'[f] \in 0..MaxError
               /\ f \in DOMAIN m_unused_peers \/ f = e
<1> SUFFICES ASSUME NEW f \in DOMAIN m_unused_peers'
             PROVE  /\ m_unused_peers'[f] \in 0..MaxError
                    /\ f \in DOMAIN m_unused_peers \/ f = e
  OBVIOUS
<1>1. f \in DOMAIN m_unused_peers \/ f = e
  BY DEF Put
<1>2. m_unused_peers'[f] = IF f = e THEN failed ELSE m_unused_peers[f]
  BY DEF Put
<1>3. f # e => m_unused_peers[f] \in 0..MaxError
  BY <1>1, Zenon DEF ListsTyped
<1>4. QED
  BY <1>1, <1>2, <1>3, Zenon

LEMMA PutBackFacts ==
    ASSUME ListsTyped, RestTyped, NEW e \in Entry, NEW failed \in 0..MaxError,
           NEW retry \in BOOLEAN, PutBack(e, failed + 1, retry)
    PROVE  /\ banned' \subseteq Entry
           /\ \A f \in DOMAIN m_unused_peers' :
                 /\ m_unused_peers'[f] \in 0..MaxError
                 /\ f \in DOMAIN m_unused_peers \/ (f = e /\ retry)
<1>1. MaxError \in Nat
  BY PeerManagerAssumption
<1>2. CASE failed + 1 > MaxError
  <2>1. banned' = banned \cup {e} /\ m_unused_peers' = m_unused_peers
    BY <1>2 DEF PutBack
  <2>2. QED
    BY <2>1 DEF ListsTyped, RestTyped
<1>3. CASE ~(failed + 1 > MaxError)
  <2>1. failed + 1 \in 0..MaxError
    BY <1>1, <1>3
  <2>2. /\ banned' = banned
        /\ m_unused_peers' = IF retry THEN Put(m_unused_peers, e, failed + 1)
                             ELSE m_unused_peers
    BY <1>3 DEF PutBack
  <2>3. banned' \subseteq Entry
    BY <2>2 DEF RestTyped
  <2>4. CASE retry
    BY <2>1, <2>2, <2>3, <2>4, PutTyped
  <2>5. CASE ~retry
    BY <2>2, <2>3, <2>5 DEF ListsTyped
  <2>6. QED
    BY <2>4, <2>5
<1>4. QED
  BY <1>2, <1>3

LEMMA DisconnectOneStep ==
    ASSUME Inv, DisconnectOne, DOMAIN m_connected_peers # {}
    PROVE  Inv'
<1>1. PICK e \in DOMAIN m_connected_peers :
             /\ m_connected_peers' = Drop(m_connected_peers, {e})
             /\ sock' = Drop(sock, {m_connected_peers[e].conn})
             /\ m_unused_peers' = IF m_connected_peers[e].mode = "LOCAL"
                                  THEN Put(m_unused_peers, e, m_connected_peers[e].failed)
                                  ELSE m_unused_peers
             /\ UNCHANGED m_connecting_peers
  BY DEF DisconnectOne
<1>2. UNCHANGED <<m_task_id, banned, queue, refused>> /\ closing' \in BOOLEAN
  BY DEF DisconnectOne, TooMany
<1>3. ListsTyped /\ RestTyped /\ m_connected_peers[e].failed \in 0..MaxError
  BY TypeParts DEF Inv, ListsTyped
<1>4. \A f \in DOMAIN m_unused_peers' :
          /\ m_unused_peers'[f] \in 0..MaxError
          /\ f \in DOMAIN m_unused_peers \/ (f = e /\ m_connected_peers[e].mode = "LOCAL")
  <2>1. CASE m_connected_peers[e].mode = "LOCAL"
    BY <1>1, <1>3, <2>1, PutTyped
  <2>2. CASE m_connected_peers[e].mode # "LOCAL"
    BY <1>1, <1>3, <2>2 DEF ListsTyped
  <2>3. QED
    BY <2>1, <2>2
<1>5. /\ DOMAIN m_connected_peers' = DOMAIN m_connected_peers \ {e}
      /\ \A f \in DOMAIN m_connected_peers : f # e => m_connected_peers'[f] = m_connected_peers[f]
  BY <1>1 DEF Drop
<1>6. PICK c : c = m_connected_peers[e].conn
  OBVIOUS
<1>7. /\ DOMAIN sock' = DOMAIN sock \ {c}
      /\ \A d \in DOMAIN sock : d # c => sock'[d] = sock[d]
  BY <1>1, <1>6 DEF Drop
<1>8. banned' \subseteq Entry
  BY <1>2, <1>3 DEF RestTyped
<1>9. QED
  <2>1. m_task_id' = m_task_id /\ m_connecting_peers' = m_connecting_peers
        /\ refused' = refused /\ queue' = queue
    BY <1>1, <1>2
  <2>2. QED
    BY <1>2, <1>4, <1>5, <1>6, <1>7, <1>8, <2>1, LinkClosed

\* Data that the link rejects.
LEMMA RejectedStep ==
    ASSUME Inv, NEW k \in queue, OnNetIO(k, FALSE), k.entry \in DOMAIN m_connected_peers
    PROVE  Inv'
<1>1. PICK e \in DOMAIN m_connected_peers : e = k.entry
  OBVIOUS
<1>2. PICK c : c = m_connected_peers[e].conn
  OBVIOUS
<1>3. /\ m_connected_peers' = Drop(m_connected_peers, {e})
      /\ sock' = Drop(sock, {c})
      /\ PutBack(e, m_connected_peers[e].failed + 1, m_connected_peers[e].mode = "LOCAL")
  BY <1>1, <1>2 DEF OnNetIO
<1>4. /\ UNCHANGED <<m_task_id, m_connecting_peers, closing, refused>>
      /\ k.type = "io" /\ queue' = queue \ {k}
  BY DEF OnNetIO, Received
<1>5. ListsTyped /\ RestTyped /\ m_connected_peers[e].failed \in 0..MaxError /\ e \in Entry
      /\ closing \in BOOLEAN
  BY TypeParts DEF Inv, ListsTyped, RestTyped
<1>6. /\ banned' \subseteq Entry
      /\ \A f \in DOMAIN m_unused_peers' :
            /\ m_unused_peers'[f] \in 0..MaxError
            /\ f \in DOMAIN m_unused_peers \/ (f = e /\ m_connected_peers[e].mode = "LOCAL")
  BY <1>3, <1>5, PutBackFacts
<1>7. /\ DOMAIN m_connected_peers' = DOMAIN m_connected_peers \ {e}
      /\ \A f \in DOMAIN m_connected_peers : f # e => m_connected_peers'[f] = m_connected_peers[f]
  BY <1>3 DEF Drop
<1>8. /\ DOMAIN sock' = DOMAIN sock \ {c}
      /\ \A d \in DOMAIN sock : d # c => sock'[d] = sock[d]
  BY <1>3 DEF Drop
<1>9. QED
  BY <1>2, <1>4, <1>5, <1>6, <1>7, <1>8, LinkClosed

\* The abort of the link, or one of an earlier connection that was overtaken: then
\* the socket of the link is left an orphan.
LEMMA AbortedStep ==
    ASSUME Inv, NEW k \in queue, OnConnectionAbort(k), k.entry \in DOMAIN m_connected_peers
    PROVE  Inv'
<1>1. PICK e \in DOMAIN m_connected_peers : e = k.entry
  OBVIOUS
<1>2. PICK c : c = m_connected_peers[e].conn
  OBVIOUS
<1>3. /\ m_connected_peers' = Drop(m_connected_peers, {e})
      /\ sock' = [d \in DOMAIN sock |->
                   IF d = c THEN [sock[d] EXCEPT !.stage = "orphan"] ELSE sock[d]]
      /\ PutBack(e, m_connected_peers[e].failed + 1, m_connected_peers[e].mode = "LOCAL")
  BY <1>1, <1>2 DEF OnConnectionAbort
<1>4. /\ UNCHANGED <<m_task_id, m_connecting_peers, closing, refused>>
      /\ k.type = "abort" /\ queue' = queue \ {k}
  BY DEF OnConnectionAbort, Received
<1>5. ListsTyped /\ RestTyped /\ m_connected_peers[e].failed \in 0..MaxError /\ e \in Entry
      /\ closing \in BOOLEAN
  BY TypeParts DEF Inv, ListsTyped, RestTyped
<1>6. /\ banned' \subseteq Entry
      /\ \A f \in DOMAIN m_unused_peers' :
            /\ m_unused_peers'[f] \in 0..MaxError
            /\ f \in DOMAIN m_unused_peers \/ (f = e /\ m_connected_peers[e].mode = "LOCAL")
  BY <1>3, <1>5, PutBackFacts
<1>7. /\ DOMAIN m_connected_peers' = DOMAIN m_connected_peers \ {e}
      /\ \A f \in DOMAIN m_connected_peers : f # e => m_connected_peers'[f] = m_connected_peers[f]
  BY <1>3 DEF Drop
<1>8. /\ DOMAIN sock' = DOMAIN sock
      /\ \A d \in DOMAIN sock : d # c => sock'[d] = sock[d]
      /\ c \in DOMAIN sock => sock'[c] = [sock[c] EXCEPT !.stage = "orphan"]
  BY <1>3
<1>9. QED
  BY <1>1, <1>2, <1>4, <1>5, <1>6, <1>7, <1>8, LinkClosed

(***************************************************************************)
(* The worker: steps that leave the links alone.                           *)
(***************************************************************************)

LEMMA LinksKept ==
    ASSUME Inv, sock' = sock, m_connected_peers' = m_connected_peers, m_task_id' = m_task_id,
           queue' \subseteq queue,
           \A k \in queue \ queue' : k.type = "abort" => k.entry \notin DOMAIN m_connected_peers
    PROVE  Sockets' /\ Events' /\ LinkOwnsItsHandler' /\ SockTyped' /\ QueueTyped'
<1>1. Sockets'
  BY DEF Inv, Connections, Sockets, SocketOf
<1>2. Events'
  BY DEF Inv, Connections, Events, EventOf
<1>3. LinkOwnsItsHandler'
  <2>1. ASSUME NEW e \in DOMAIN m_connected_peers, NEW k \in queue,
               k.type = "abort", k.conn = m_connected_peers[e].conn
        PROVE  k \in queue'
    BY <2>1 DEF Inv, Connections, Events, EventOf
  <2>2. QED
    BY <2>1 DEF Inv, Connections, LinkOwnsItsHandler
<1>4. SockTyped' /\ QueueTyped'
  BY TypeParts DEF Inv, SockTyped, QueueTyped
<1>5. QED
  BY <1>1, <1>2, <1>3, <1>4

\* An event that changes nothing is taken from the queue.
LEMMA EventDropped ==
    ASSUME Inv, NEW k \in queue, queue' = queue \ {k},
           k.type = "abort" => k.entry \notin DOMAIN m_connected_peers,
           k.type = "failed" => k.entry \notin DOMAIN m_connecting_peers,
           k.type # "established",
           UNCHANGED <<m_task_id, lists, closing, banned, sock, refused>>
    PROVE  Inv'
<1>1. /\ m_task_id' = m_task_id /\ m_unused_peers' = m_unused_peers
      /\ m_connecting_peers' = m_connecting_peers /\ m_connected_peers' = m_connected_peers
      /\ closing' = closing /\ banned' = banned /\ sock' = sock /\ refused' = refused
  BY DEF lists
<1>2. Sockets' /\ Events' /\ LinkOwnsItsHandler' /\ SockTyped' /\ QueueTyped'
  BY <1>1, LinksKept
<1>3. banned' \subseteq Entry /\ netUnchanged
  BY <1>1 DEF Inv, TypeOK, netUnchanged, lists
<1>4. SlotHasDial'
  BY <1>1 DEF Inv, SlotHasDial
<1>5. QED
  BY <1>2, <1>3, <1>4, HandlerStep

LEMMA OnNetIOStep ==
    ASSUME Inv, NEW k \in queue, NEW accepted \in BOOLEAN, OnNetIO(k, accepted)
    PROVE  Inv'
<1>1. CASE k.entry \in DOMAIN m_connected_peers /\ ~accepted
  BY <1>1, RejectedStep
<1>2. CASE ~(k.entry \in DOMAIN m_connected_peers /\ ~accepted)
  BY <1>2, EventDropped DEF OnNetIO, Received, lists
<1>3. QED
  BY <1>1, <1>2

LEMMA OnConnectionAbortStep ==
    ASSUME Inv, NEW k \in queue, OnConnectionAbort(k)
    PROVE  Inv'
<1>1. CASE k.entry \in DOMAIN m_connected_peers
  BY <1>1, AbortedStep
<1>2. CASE k.entry \notin DOMAIN m_connected_peers
  BY <1>2, EventDropped DEF OnConnectionAbort, Received, lists
<1>3. QED
  BY <1>1, <1>2

LEMMA OnConnectFailedStep ==
    ASSUME Inv, NEW k \in queue, OnConnectFailed(k)
    PROVE  Inv'
<1>1. CASE k.entry \notin DOMAIN m_connecting_peers
  BY <1>1, EventDropped DEF OnConnectFailed, Received, lists
<1>2. CASE k.entry \in DOMAIN m_connecting_peers
  <2>1. PICK e \in DOMAIN m_connecting_peers : e = k.entry
    BY <1>2
  <2>2. /\ m_connecting_peers' = Drop(m_connecting_peers, {e})
        /\ PutBack(e, m_connecting_peers[e] + 1, TRUE)
        /\ refused' = refused \ {e}
    BY <1>2, <2>1 DEF OnConnectFailed
  <2>3. /\ m_task_id' = m_task_id /\ m_connected_peers' = m_connected_peers
        /\ closing' = closing /\ sock' = sock
        /\ k.type = "failed" /\ queue' = queue \ {k}
    BY DEF OnConnectFailed, Received
  <2>4. /\ DOMAIN m_connecting_peers' = DOMAIN m_connecting_peers \ {e}
        /\ \A f \in DOMAIN m_connecting_peers : f # e =>
              m_connecting_peers'[f] = m_connecting_peers[f]
    BY <2>2 DEF Drop
  <2>5. /\ ListsTyped /\ RestTyped /\ e \in Entry /\ m_connecting_peers[e] \in 0..MaxError
        /\ e \in Listen /\ DOMAIN m_unused_peers \subseteq Listen
    BY TypeParts DEF Inv, ListsTyped, RestTyped, Connections, Origins
  <2>6. /\ banned' \subseteq Entry
        /\ \A f \in DOMAIN m_unused_peers' :
              /\ m_unused_peers'[f] \in 0..MaxError
              /\ f \in DOMAIN m_unused_peers \/ f = e
    BY <2>2, <2>5, PutBackFacts
  <2>7. Sockets' /\ Events' /\ LinkOwnsItsHandler' /\ SockTyped' /\ QueueTyped'
    BY <2>3, LinksKept
  <2>8. ListsTyped'
    BY <2>3, <2>4, <2>5, <2>6, EntryFinite DEF ListsTyped
  <2>9. RestTyped'
    BY <2>2, <2>3, <2>5, <2>6 DEF RestTyped
  <2>10. TypeOK'
    BY <2>7, <2>8, <2>9, TypeParts, PTL
  <2>11. Resting' /\ Origins'
    BY <2>3, <2>4, <2>5, <2>6 DEF Inv, Connections, Resting, Origins
  <2>12. SlotHasDial'
    BY <2>1, <2>2, <2>3, <2>4 DEF Inv, SlotHasDial
  <2>13. UniquePeers' /\ ListsDisjoint'
    BY <2>3, <2>4, <2>6 DEF Inv, PeersMetOnce, UniquePeers, ListsDisjoint
  <2>14. OutgoingBound'
    <3>1. Cardinality(DOMAIN m_connecting_peers') <= Cardinality(DOMAIN m_connecting_peers)
          /\ Cardinality(DOMAIN m_connecting_peers') \in Nat
      BY <2>4, <2>5, OutgoingFacts, FS_Subset, FS_CardinalityType
    <3>2. Outgoing' = Outgoing
      BY <2>3 DEF Outgoing
    <3>3. Cardinality(DOMAIN m_connecting_peers) + Cardinality(Outgoing) <= MaxConnection
      BY DEF Inv, PeersMetOnce, OutgoingBound, Outgoing
    <3>4. Cardinality(DOMAIN m_connecting_peers') + Cardinality(Outgoing') <= MaxConnection
      BY <2>5, <3>1, <3>2, <3>3, OutgoingFacts, PeerManagerAssumption
    <3>5. QED
      BY <3>4 DEF OutgoingBound, Outgoing
  <2>15. QED
    BY <2>7, <2>10, <2>11, <2>12, <2>13, <2>14 DEF Inv, Connections, PeersMetOnce
<1>3. QED
  BY <1>1, <1>2

LEMMA AddUnusedPeerStep ==
    ASSUME Inv, NEW e \in Listen, AddUnusedPeer(e)
    PROVE  Inv'
<1>1. /\ e \notin DOMAIN m_unused_peers \cup DOMAIN m_connecting_peers
                  \cup DOMAIN m_connected_peers
      /\ m_unused_peers' = Put(m_unused_peers, e, 0)
      /\ m_task_id' = m_task_id /\ m_connecting_peers' = m_connecting_peers
      /\ m_connected_peers' = m_connected_peers /\ closing' = closing
      /\ banned' = banned /\ sock' = sock /\ queue' = queue /\ refused' = refused
  BY DEF AddUnusedPeer
<1>2. Sockets' /\ Events' /\ LinkOwnsItsHandler' /\ SockTyped' /\ QueueTyped'
  BY <1>1, LinksKept
<1>3. ListsTyped /\ RestTyped /\ 0 \in 0..MaxError
  BY TypeParts, PeerManagerAssumption DEF Inv
<1>4. \A f \in DOMAIN m_unused_peers' :
               /\ m_unused_peers'[f] \in 0..MaxError
               /\ f \in DOMAIN m_unused_peers \/ f = e
  BY <1>1, <1>3, PutTyped
<1>5. TypeOK'
  <2>1. ListsTyped' /\ RestTyped'
    BY <1>1, <1>3, <1>4, EntryFinite DEF ListsTyped, RestTyped
  <2>2. QED
    BY <1>2, <2>1, TypeParts, PTL
<1>6. Resting' /\ Origins'
  BY <1>1, <1>4 DEF Inv, Connections, Resting, Origins
<1>7. SlotHasDial'
  BY <1>1 DEF Inv, SlotHasDial
<1>8. UniquePeers' /\ OutgoingBound'
  BY <1>1 DEF Inv, PeersMetOnce, UniquePeers, OutgoingBound
<1>9. ListsDisjoint'
  BY <1>1, <1>4 DEF Inv, PeersMetOnce, ListsDisjoint
<1>10. QED
  BY <1>2, <1>5, <1>6, <1>7, <1>8, <1>9 DEF Inv, Connections, PeersMetOnce

\* Nothing but the loop of check_need_disconnect_peers begins or ends.
LEMMA ClosingStep ==
    ASSUME Inv, UNCHANGED <<m_task_id, lists, banned, sock, queue, refused>>, closing' \in BOOLEAN
    PROVE  Inv'
<1>1. /\ m_task_id' = m_task_id /\ m_unused_peers' = m_unused_peers
      /\ m_connecting_peers' = m_connecting_peers
      /\ m_connected_peers' = m_connected_peers
      /\ banned' = banned /\ sock' = sock /\ queue' = queue /\ refused' = refused
  BY DEF lists
<1>2. Sockets' /\ Events' /\ LinkOwnsItsHandler' /\ SockTyped' /\ QueueTyped'
  BY <1>1, LinksKept
<1>3. ListsTyped' /\ RestTyped'
  BY <1>1, TypeParts DEF Inv, ListsTyped, RestTyped
<1>4. TypeOK'
  BY <1>2, <1>3, TypeParts, PTL
<1>5. Resting' /\ Origins' /\ SlotHasDial'
  BY <1>1 DEF Inv, Connections, Resting, Origins, SlotHasDial
<1>6. PeersMetOnce'
  BY <1>1 DEF Inv, PeersMetOnce, UniquePeers, OutgoingBound, ListsDisjoint
<1>7. QED
  BY <1>2, <1>4, <1>5, <1>6 DEF Inv, Connections

LEMMA DisconnectStep ==
    ASSUME Inv, CheckNeedDisconnect \/ DisconnectOne
    PROVE  Inv'
<1>1. CASE CheckNeedDisconnect
  BY <1>1, ClosingStep DEF CheckNeedDisconnect
<1>2. CASE DisconnectOne /\ DOMAIN m_connected_peers # {}
  BY <1>2, DisconnectOneStep
<1>3. CASE DisconnectOne /\ DOMAIN m_connected_peers = {}
  BY <1>3, ClosingStep DEF DisconnectOne, TooMany
<1>4. QED
  BY <1>1, <1>2, <1>3

(***************************************************************************)
(* The worker: a connection is established.                                *)
(***************************************************************************)

\* What the event of an established connection brings.
LEMMA EstablishedFacts ==
    ASSUME Inv, NEW k \in queue, k.type = "established"
    PROVE  /\ k.conn \in DOMAIN sock /\ k.conn \in Conn /\ sock[k.conn].stage = "posted"
           /\ sock[k.conn] \in Socket /\ sock[k.conn].id \in PeerId
           /\ sock[k.conn].entry = k.entry /\ sock[k.conn].mode = k.mode
           /\ k.entry \in Entry /\ k.mode \in {"LOCAL", "REMOTE"}
           /\ k.entry \in (IF k.mode = "LOCAL" THEN Listen ELSE Ephemeral)
           /\ sock[k.conn].task = m_task_id /\ m_task_id # 0
           /\ \A j \in queue : j.conn = k.conn =>
                 /\ j.type # "abort"
                 /\ j.type = "established" => j.entry = k.entry /\ j.mode = k.mode
           /\ \A e \in DOMAIN m_connected_peers : m_connected_peers[e].conn # k.conn
<1>1. /\ k.conn \in DOMAIN sock /\ sock[k.conn].stage = "posted"
      /\ sock[k.conn].entry = k.entry /\ sock[k.conn].mode = k.mode
  BY DEF Inv, Connections, Events, EventOf
<1>2. /\ sock[k.conn] \in Socket /\ k.conn \in Conn /\ SocketOf(k.conn)
      /\ \A e \in DOMAIN m_connected_peers : m_connected_peers[e].conn # k.conn
      /\ \A j \in queue : j.conn = k.conn => j.type # "abort"
  BY <1>1, SocketFacts
<1>3. sock[k.conn].entry \in Entry /\ sock[k.conn].mode \in {"LOCAL", "REMOTE"}
  BY <1>2 DEF Socket
<1>4. \A j \in queue : j.conn = k.conn /\ j.type = "established" =>
          j.entry = k.entry /\ j.mode = k.mode
  BY <1>1 DEF Inv, Connections, Events, EventOf
<1>5. QED
  BY <1>1, <1>2, <1>3, <1>4 DEF SocketOf

\* Of the events in the queue one at most brings a given socket.
LEMMA OneEventPerSocket ==
    ASSUME Inv, NEW k \in queue, k.type = "established",
           NEW j \in queue, j.type = "established", j.conn = k.conn
    PROVE  j = k
<1>1. j.entry = k.entry /\ j.mode = k.mode
  BY EstablishedFacts
<1>2. QED
  BY <1>1 DEF Inv, TypeOK

LEMMA AdmittedStep ==
    ASSUME Inv, NEW k \in queue, OnConnEstablished(k),
           MayConnect(k.entry, sock[k.conn].id, k.mode)
    PROVE  Inv'
<1> DEFINE local == k.mode = "LOCAL"
<1>1. PICK e, c, id : e = k.entry /\ c = k.conn /\ id = sock[k.conn].id
  OBVIOUS
<1>2. PICK failed : failed = IF local THEN m_connecting_peers[e] ELSE 0
  OBVIOUS
<1>3. /\ k.type = "established" /\ queue' = queue \ {k}
      /\ m_task_id' = m_task_id /\ m_unused_peers' = m_unused_peers
      /\ closing' = closing /\ banned' = banned
  BY DEF OnConnEstablished, Received
<1>4. /\ m_connected_peers' = Put(m_connected_peers, e,
             [failed |-> failed, mode |-> k.mode, id |-> id, conn |-> c])
      /\ m_connecting_peers' = IF local THEN Drop(m_connecting_peers, {e})
                               ELSE m_connecting_peers
      /\ sock' = [sock EXCEPT ![c].stage = "io"]
      /\ refused' = IF local THEN refused \ {e} ELSE refused
  BY <1>1, <1>2 DEF OnConnEstablished
<1>5. /\ c \in DOMAIN sock /\ c \in Conn /\ sock[c].stage = "posted"
      /\ sock[c] \in Socket /\ id \in PeerId
      /\ sock[c].entry = e /\ sock[c].mode = k.mode
      /\ e \in Entry /\ k.mode \in {"LOCAL", "REMOTE"}
      /\ e \in (IF k.mode = "LOCAL" THEN Listen ELSE Ephemeral)
      /\ sock[c].task = m_task_id /\ m_task_id # 0
      /\ \A j \in queue : j.conn = c => j.type # "abort"
      /\ \A f \in DOMAIN m_connected_peers : m_connected_peers[f].conn # c
  BY <1>1, <1>3, EstablishedFacts
<1>6. /\ e \notin DOMAIN m_connected_peers
      /\ id # Self
      /\ \A f \in DOMAIN m_connected_peers : m_connected_peers[f].id # id
      /\ local => e \in DOMAIN m_connecting_peers
  BY <1>1 DEF MayConnect
<1>7. ListsTyped /\ RestTyped /\ SockTyped /\ QueueTyped
  BY TypeParts DEF Inv
<1>8. failed \in 0..MaxError
  BY <1>2, <1>6, <1>7, PeerManagerAssumption DEF ListsTyped
<1>9. PICK link \in [failed : 0..MaxError, mode : {"LOCAL", "REMOTE"}, id : PeerId, conn : Conn] :
          /\ m_connected_peers' = Put(m_connected_peers, e, link)
          /\ link.mode = k.mode /\ link.id = id /\ link.conn = c
  <2>1. [failed |-> failed, mode |-> k.mode, id |-> id, conn |-> c]
           \in [failed : 0..MaxError, mode : {"LOCAL", "REMOTE"}, id : PeerId, conn : Conn]
    BY <1>5, <1>8
  <2>2. QED
    BY <1>4, <2>1
<1>10. /\ DOMAIN m_connected_peers' = DOMAIN m_connected_peers \cup {e}
       /\ m_connected_peers'[e] = link
       /\ \A f \in DOMAIN m_connected_peers : m_connected_peers'[f] = m_connected_peers[f]
  BY <1>6, <1>9 DEF Put
<1>11. /\ DOMAIN m_connecting_peers' =
              IF local THEN DOMAIN m_connecting_peers \ {e} ELSE DOMAIN m_connecting_peers
       /\ \A f \in DOMAIN m_connecting_peers' : m_connecting_peers'[f] = m_connecting_peers[f]
       /\ refused' \subseteq refused
       /\ \A f \in refused : f \in refused' \/ (local /\ f = e)
  BY <1>4 DEF Drop
<1>12. /\ DOMAIN sock' = DOMAIN sock
       /\ \A d \in DOMAIN sock : d # c => sock'[d] = sock[d]
       /\ sock'[c] \in Socket /\ sock'[c].stage = "io" /\ sock'[c].entry = e
       /\ sock'[c].mode = k.mode /\ sock'[c].task = m_task_id
  <2>1. /\ DOMAIN sock' = DOMAIN sock
        /\ \A d \in DOMAIN sock : d # c => sock'[d] = sock[d]
        /\ sock'[c] = [sock[c] EXCEPT !.stage = "io"]
    BY <1>4, <1>5
  <2>2. QED
    BY <1>5, <2>1 DEF Socket
<1> HIDE DEF local
<1>13. TypeOK'
  <2>1. ListsTyped'
    BY <1>3, <1>5, <1>7, <1>9, <1>10, <1>11 DEF ListsTyped
  <2>2. RestTyped' /\ QueueTyped'
    BY <1>3, <1>7, <1>11 DEF RestTyped, QueueTyped
  <2>3. SockTyped'
    BY <1>7, <1>12 DEF SockTyped
  <2>4. QED
    BY <2>1, <2>2, <2>3, TypeParts, PTL
<1>14. Resting' /\ Origins'
  <2>1. Resting'
    BY <1>3, <1>5 DEF Resting
  <2>2. Origins'
    BY <1>3, <1>5, <1>9, <1>10, <1>11 DEF Inv, Connections, Origins
  <2>3. QED
    BY <2>1, <2>2
<1>15. Sockets'
  <2> SUFFICES ASSUME NEW d \in DOMAIN sock' PROVE SocketOf(d)'
    BY DEF Sockets
  <2>1. CASE d # c
    BY <1>3, <1>12, <2>1 DEF Inv, Connections, Sockets, SocketOf
  <2>2. CASE d = c
    BY <1>3, <1>5, <1>12, <2>2 DEF SocketOf
  <2>3. QED
    BY <2>1, <2>2
<1>16. Events'
  <2> SUFFICES ASSUME NEW j \in queue' PROVE EventOf(j)'
    BY DEF Events
  <2>1. EventOf(j) /\ j \in queue /\ j # k
    BY <1>3 DEF Inv, Connections, Events
  <2>2. ASSUME j.type = "established"
        PROVE  /\ j.conn \in DOMAIN sock' /\ sock'[j.conn].stage = "posted"
               /\ sock'[j.conn].entry = j.entry /\ sock'[j.conn].mode = j.mode
    <3>1. j.conn # c
      BY <1>1, <1>3, <2>1, <2>2, OneEventPerSocket
    <3>2. QED
      BY <1>12, <2>1, <2>2, <3>1 DEF EventOf
  <2>3. ASSUME j.type = "abort"
        PROVE  /\ j.conn \notin DOMAIN sock'
               /\ \A f \in DOMAIN m_connected_peers' :
                     m_connected_peers'[f].conn = j.conn => f = j.entry
    BY <1>5, <1>9, <1>10, <1>12, <2>1, <2>3 DEF EventOf
  <2>4. QED
    BY <2>2, <2>3 DEF EventOf
<1>17. LinkOwnsItsHandler'
  <2>1. ASSUME NEW f \in DOMAIN m_connected_peers', NEW d, d = m_connected_peers'[f].conn
        PROVE  \/ d \in DOMAIN sock' /\ sock'[d].stage = "io" /\ sock'[d].entry = f
               \/ \E j \in queue' : j.type = "abort" /\ j.conn = d
    <3>1. CASE f = e
      BY <1>5, <1>9, <1>10, <1>12, <2>1, <3>1
    <3>2. CASE f # e
      <4>1. f \in DOMAIN m_connected_peers /\ d = m_connected_peers[f].conn /\ d # c
        BY <1>5, <1>10, <2>1, <3>2
      <4>2. CASE d \in DOMAIN sock /\ sock[d].stage = "io" /\ sock[d].entry = f
        BY <1>12, <4>1, <4>2
      <4>3. ASSUME NEW j \in queue, j.type = "abort" PROVE j \in queue'
        BY <1>3, <4>3
      <4>4. QED
        BY <4>1, <4>2, <4>3 DEF Inv, Connections, LinkOwnsItsHandler
    <3>3. QED
      BY <3>1, <3>2
  <2>2. ASSUME NEW d \in DOMAIN sock', sock'[d].stage = "io"
        PROVE  /\ sock'[d].entry \in DOMAIN m_connected_peers'
               /\ m_connected_peers'[sock'[d].entry].conn = d
    <3>1. CASE d = c
      BY <1>9, <1>10, <1>12, <3>1
    <3>2. CASE d # c
      <4>1. d \in DOMAIN sock /\ sock'[d] = sock[d]
        BY <1>12, <3>2
      <4>2. /\ sock[d].entry \in DOMAIN m_connected_peers
            /\ m_connected_peers[sock[d].entry].conn = d
        BY <2>2, <4>1 DEF Inv, Connections, LinkOwnsItsHandler
      <4>3. QED
        BY <1>10, <4>1, <4>2
    <3>3. QED
      BY <3>1, <3>2
  <2>3. QED
    BY <2>1, <2>2 DEF LinkOwnsItsHandler
<1>18. SlotHasDial'
  <2> SUFFICES ASSUME NEW f \in DOMAIN m_connecting_peers'
               PROVE  \/ \E d \in DOMAIN sock' : Dials(d)' /\ sock'[d].entry = f
                      \/ \E j \in queue' : /\ j.type \in {"established", "failed"}
                                           /\ j.entry = f /\ j.mode = "LOCAL"
                      \/ f \in refused'
    BY DEF SlotHasDial, Dials
  <2>1. f \in DOMAIN m_connecting_peers /\ ~(local /\ f = e)
    BY <1>11
  <2>2. \/ \E d \in DOMAIN sock : Dials(d) /\ sock[d].entry = f
        \/ \E j \in queue : /\ j.type \in {"established", "failed"}
                            /\ j.entry = f /\ j.mode = "LOCAL"
        \/ f \in refused
    BY <2>1 DEF Inv, SlotHasDial, Dials
  <2>3. CASE \E d \in DOMAIN sock : Dials(d) /\ sock[d].entry = f
    <3>1. PICK d \in DOMAIN sock : Dials(d) /\ sock[d].entry = f
      BY <2>3
    <3>2. d # c
      BY <1>5, <3>1 DEF Dials
    <3>3. QED
      BY <1>3, <1>12, <3>1, <3>2 DEF Dials
  <2>4. ASSUME NEW j \in queue, j.entry = f, j.mode = "LOCAL" PROVE j \in queue'
    BY <1>1, <1>3, <2>1, <2>4 DEF local
  <2>5. CASE f \in refused
    BY <1>11, <2>1, <2>5
  <2>6. QED
    BY <2>2, <2>3, <2>4, <2>5
<1>19. UniquePeers'
  BY <1>6, <1>9, <1>10 DEF Inv, PeersMetOnce, UniquePeers
<1>20. ListsDisjoint'
  <2>1. DOMAIN m_unused_peers \subseteq Listen /\ DOMAIN m_connecting_peers \subseteq Listen
    BY DEF Inv, Connections, Origins
  <2>2. CASE local
    BY <1>3, <1>6, <1>10, <1>11, <2>2 DEF Inv, PeersMetOnce, ListsDisjoint
  <2>3. CASE ~local
    BY <1>3, <1>5, <1>10, <1>11, <2>1, <2>3 DEF Inv, PeersMetOnce, ListsDisjoint, local
  <2>4. QED
    BY <2>2, <2>3
<1>21. OutgoingBound'
  <2>1. Cardinality(DOMAIN m_connecting_peers) + Cardinality(Outgoing) <= MaxConnection
    BY DEF Inv, PeersMetOnce, OutgoingBound, Outgoing
  <2>2. CASE local
    <3>1. Outgoing' = Outgoing \cup {e} /\ e \notin Outgoing
      BY <1>6, <1>9, <1>10, <2>2 DEF Outgoing, local
    <3>2. Cardinality(Outgoing') = Cardinality(Outgoing) + 1
      BY <1>7, <3>1, OutgoingFacts, FS_AddElement
    <3>3. Cardinality(DOMAIN m_connecting_peers') = Cardinality(DOMAIN m_connecting_peers) - 1
      BY <1>6, <1>7, <1>11, <2>2, OutgoingFacts, FS_RemoveElement
    <3>4. Cardinality(DOMAIN m_connecting_peers') + Cardinality(Outgoing') <= MaxConnection
      BY <1>7, <2>1, <3>2, <3>3, OutgoingFacts, PeerManagerAssumption
    <3>5. QED
      BY <3>4 DEF OutgoingBound, Outgoing
  <2>3. CASE ~local
    <3>1. Outgoing' = Outgoing /\ DOMAIN m_connecting_peers' = DOMAIN m_connecting_peers
      BY <1>6, <1>9, <1>10, <1>11, <2>3 DEF Outgoing, local
    <3>2. QED
      BY <2>1, <3>1 DEF OutgoingBound, Outgoing
  <2>4. QED
    BY <2>2, <2>3
<1>22. QED
  BY <1>13, <1>14, <1>15, <1>16, <1>17, <1>18, <1>19, <1>20, <1>21
     DEF Inv, Connections, PeersMetOnce

\* The event of a refused connection closes the socket.
LEMMA RefusedStep ==
    ASSUME Inv, NEW k \in queue, OnConnEstablished(k),
           ~MayConnect(k.entry, sock[k.conn].id, k.mode)
    PROVE  Inv'
<1>1. PICK e, c : e = k.entry /\ c = k.conn
  OBVIOUS
<1>2. /\ k.type = "established" /\ queue' = queue \ {k}
      /\ m_task_id' = m_task_id /\ m_unused_peers' = m_unused_peers
      /\ closing' = closing /\ banned' = banned
  BY DEF OnConnEstablished, Received
<1>3. /\ m_connected_peers' = m_connected_peers /\ m_connecting_peers' = m_connecting_peers
      /\ sock' = Drop(sock, {c})
      /\ refused' = IF k.mode = "LOCAL" /\ e \in DOMAIN m_connecting_peers
                    THEN refused \cup {e} ELSE refused
  BY <1>1 DEF OnConnEstablished
<1>4. /\ c \in DOMAIN sock /\ sock[c].stage = "posted" /\ e \in Entry
      /\ \A f \in DOMAIN m_connected_peers : m_connected_peers[f].conn # c
  BY <1>1, <1>2, EstablishedFacts
<1>5. /\ DOMAIN sock' = DOMAIN sock \ {c}
      /\ \A d \in DOMAIN sock : d # c => sock'[d] = sock[d]
  BY <1>3 DEF Drop
<1>6. ListsTyped /\ RestTyped /\ SockTyped /\ QueueTyped
  BY TypeParts DEF Inv
<1>7. TypeOK'
  <2>1. ListsTyped' /\ QueueTyped'
    BY <1>2, <1>3, <1>6 DEF ListsTyped, QueueTyped
  <2>2. RestTyped' /\ SockTyped'
    BY <1>2, <1>3, <1>4, <1>5, <1>6 DEF RestTyped, SockTyped
  <2>3. QED
    BY <2>1, <2>2, TypeParts, PTL
<1>8. Resting' /\ Origins'
  BY <1>2, <1>3 DEF Inv, Connections, Resting, Origins
<1>9. Sockets'
  BY <1>2, <1>5 DEF Inv, Connections, Sockets, SocketOf
<1>10. Events'
  <2> SUFFICES ASSUME NEW j \in queue' PROVE EventOf(j)'
    BY DEF Events
  <2>1. EventOf(j) /\ j \in queue /\ j # k
    BY <1>2 DEF Inv, Connections, Events
  <2>2. j.type = "established" => j.conn # c
    BY <1>1, <1>2, <2>1, OneEventPerSocket
  <2>3. QED
    BY <1>3, <1>5, <2>1, <2>2 DEF EventOf
<1>11. LinkOwnsItsHandler'
  <2>1. ASSUME NEW f \in DOMAIN m_connected_peers, NEW d, d = m_connected_peers[f].conn
        PROVE  \/ d \in DOMAIN sock' /\ sock'[d].stage = "io" /\ sock'[d].entry = f
               \/ \E j \in queue' : j.type = "abort" /\ j.conn = d
    <3>1. d # c
      BY <1>4, <2>1
    <3>2. ASSUME NEW j \in queue, j.type = "abort" PROVE j \in queue'
      BY <1>2, <3>2
    <3>3. QED
      BY <1>5, <2>1, <3>1, <3>2 DEF Inv, Connections, LinkOwnsItsHandler
  <2>2. ASSUME NEW d \in DOMAIN sock', sock'[d].stage = "io"
        PROVE  /\ sock'[d].entry \in DOMAIN m_connected_peers
               /\ m_connected_peers[sock'[d].entry].conn = d
    BY <1>5, <2>2 DEF Inv, Connections, LinkOwnsItsHandler
  <2>3. QED
    BY <1>3, <2>1, <2>2 DEF LinkOwnsItsHandler
<1>12. SlotHasDial'
  <2> SUFFICES ASSUME NEW f \in DOMAIN m_connecting_peers'
               PROVE  \/ \E d \in DOMAIN sock' : Dials(d)' /\ sock'[d].entry = f
                      \/ \E j \in queue' : /\ j.type \in {"established", "failed"}
                                           /\ j.entry = f /\ j.mode = "LOCAL"
                      \/ f \in refused'
    BY DEF SlotHasDial, Dials
  <2>1. f \in DOMAIN m_connecting_peers
    BY <1>3
  <2>2. \/ \E d \in DOMAIN sock : Dials(d) /\ sock[d].entry = f
        \/ \E j \in queue : /\ j.type \in {"established", "failed"}
                            /\ j.entry = f /\ j.mode = "LOCAL"
        \/ f \in refused
    BY <2>1 DEF Inv, SlotHasDial, Dials
  <2>3. CASE \E d \in DOMAIN sock : Dials(d) /\ sock[d].entry = f
    <3>1. PICK d \in DOMAIN sock : Dials(d) /\ sock[d].entry = f
      BY <2>3
    <3>2. d # c
      BY <1>4, <3>1 DEF Dials
    <3>3. QED
      BY <1>2, <1>5, <3>1, <3>2 DEF Dials
  <2>4. ASSUME NEW j \in queue, j.entry = f, j.mode = "LOCAL"
        PROVE  j \in queue' \/ f \in refused'
    BY <1>1, <1>2, <1>3, <2>1, <2>4
  <2>5. refused \subseteq refused'
    BY <1>3
  <2>6. QED
    BY <2>2, <2>3, <2>4, <2>5
<1>13. PeersMetOnce'
  BY <1>2, <1>3 DEF Inv, PeersMetOnce, UniquePeers, OutgoingBound, ListsDisjoint
<1>14. QED
  BY <1>7, <1>8, <1>9, <1>10, <1>11, <1>12, <1>13 DEF Inv, Connections

LEMMA OnNetEventStep ==
    ASSUME Inv, NEW k \in queue, OnNetEvent(k)
    PROVE  Inv'
<1>1. CASE OnConnEstablished(k)
  BY <1>1, AdmittedStep, RefusedStep
<1>2. CASE \E accepted \in BOOLEAN : OnNetIO(k, accepted)
  BY <1>2, OnNetIOStep
<1>3. CASE OnConnectionAbort(k)
  BY <1>3, OnConnectionAbortStep
<1>4. CASE OnConnectFailed(k)
  BY <1>4, OnConnectFailedStep
<1>5. QED
  BY <1>1, <1>2, <1>3, <1>4 DEF OnNetEvent

(***************************************************************************)
(* The worker stops and starts.                                            *)
(***************************************************************************)

LEMMA StopStep ==
    ASSUME Inv, Stop
    PROVE  Inv'
<1> DEFINE gone == {c \in DOMAIN sock : sock[c].stage \in {"posted", "io"}}
<1>1. /\ m_task_id' = 0 /\ closing' = closing /\ banned' = banned
      /\ queue' = {} /\ refused' = {}
      /\ DOMAIN m_unused_peers' = {} /\ DOMAIN m_connecting_peers' = {}
      /\ DOMAIN m_connected_peers' = {}
  BY DEF Stop, Empty
<1>2. /\ DOMAIN sock' = DOMAIN sock \ gone
      /\ \A d \in DOMAIN sock' : d \in DOMAIN sock /\ sock'[d] = sock[d]
  BY DEF Stop, Drop
<1>3. \A d \in DOMAIN sock' : sock[d].stage \notin {"posted", "io"}
  BY <1>2
<1> HIDE DEF gone
<1>4. TypeOK'
  BY <1>1, <1>2 DEF Inv, TypeOK
<1>5. Resting' /\ Origins' /\ Events' /\ SlotHasDial'
  BY <1>1 DEF Resting, Origins, Events, SlotHasDial
<1>6. Sockets' /\ LinkOwnsItsHandler'
  BY <1>1, <1>2, <1>3 DEF Inv, Connections, Sockets, SocketOf, LinkOwnsItsHandler
<1>7. UniquePeers' /\ ListsDisjoint'
  BY <1>1 DEF UniquePeers, ListsDisjoint
<1>8. OutgoingBound'
  <2>1. DOMAIN m_connecting_peers' = {} /\ Outgoing' = {}
    BY <1>1 DEF Outgoing
  <2>2. Cardinality(DOMAIN m_connecting_peers') + Cardinality(Outgoing') <= MaxConnection
    BY <2>1, FS_EmptySet, PeerManagerAssumption
  <2>3. QED
    BY <2>2 DEF OutgoingBound, Outgoing
<1>9. QED
  BY <1>4, <1>5, <1>6, <1>7, <1>8 DEF Inv, Connections, PeersMetOnce

LEMMA StartStep ==
    ASSUME Inv, Start
    PROVE  Inv'
<1>1. /\ m_task_id = 0 /\ m_task_id' \in Task
      /\ m_unused_peers' = m_unused_peers /\ m_connecting_peers' = m_connecting_peers
      /\ m_connected_peers' = m_connected_peers /\ closing' = closing /\ banned' = banned
      /\ sock' = sock /\ queue' = queue /\ refused' = refused
  BY DEF Start, lists
<1>2. TypeOK'
  BY <1>1 DEF Inv, TypeOK
<1>3. DOMAIN m_connecting_peers = {} /\ DOMAIN m_connected_peers = {}
  BY <1>1 DEF Inv, Connections, Resting
<1>4. Resting' /\ Origins' /\ SlotHasDial' /\ Events' /\ LinkOwnsItsHandler'
  BY <1>1, <1>3 DEF Inv, Connections, Resting, Origins, SlotHasDial, Events, EventOf,
                    LinkOwnsItsHandler
<1>5. Sockets'
  BY <1>1 DEF Inv, Connections, Sockets, SocketOf
<1>6. PeersMetOnce'
  BY <1>1 DEF Inv, PeersMetOnce, UniquePeers, OutgoingBound, ListsDisjoint
<1>7. QED
  BY <1>2, <1>4, <1>5, <1>6 DEF Inv, Connections

(***************************************************************************)
(* The worker: peers are dialled, and links that are silent too long are   *)
(* closed.                                                                 *)
(***************************************************************************)

\* check_peers, with the sockets it makes: the dials of as many addresses as there
\* is room for, each with a socket of its own.
Dialled(dialled, taken, names, dialOf, dead) ==
    /\ taken \subseteq DOMAIN m_unused_peers /\ dialled \subseteq taken
    /\ Cardinality(dialled) <= Room
    /\ names \subseteq Free /\ dialOf \in [names -> dialled]
    /\ \A e \in dialled : \E c \in names : dialOf[c] = e
    /\ dead \subseteq DOMAIN m_connected_peers
    /\ m_unused_peers' = Drop(m_unused_peers, taken)
    /\ m_connecting_peers' = [e \in DOMAIN m_connecting_peers \cup dialled |->
           IF e \in dialled THEN m_unused_peers[e] ELSE m_connecting_peers[e]]
    /\ m_connected_peers' = Drop(m_connected_peers, dead)
    /\ sock' = [c \in (DOMAIN sock \ {m_connected_peers[e].conn : e \in dead}) \cup names |->
           IF c \in names
           THEN [stage |-> "connector", entry |-> dialOf[c], mode |-> "LOCAL",
                 task |-> m_task_id, id |-> "none"]
           ELSE sock[c]]

LEMMA RoomFacts ==
    ASSUME ListsTyped
    PROVE  /\ Room \in Nat
           /\ Room > 0 => Room + Cardinality(DOMAIN m_connected_peers)
                               + Cardinality(DOMAIN m_connecting_peers) = MaxConnection
<1>1. /\ Cardinality(DOMAIN m_connecting_peers) \in Nat
      /\ Cardinality(DOMAIN m_connected_peers) \in Nat /\ MaxConnection \in Nat
  BY OutgoingFacts, PeerManagerAssumption
<1>2. QED
  BY <1>1 DEF Room

LEMMA CheckPeersDials ==
    ASSUME Inv, CheckPeers
    PROVE  \E dialled, taken, names, dialOf, dead : Dialled(dialled, taken, names, dialOf, dead)
<1> DEFINE alive(broken) == DOMAIN m_unused_peers \ (banned \cup broken)
           room == IF Room < PerCall THEN Room ELSE PerCall
           toDial(broken) == {e \in alive(broken) : Rank(e, alive(broken)) < room}
           toTake(broken) == IF Cardinality(alive(broken)) < room THEN DOMAIN m_unused_peers
                             ELSE {e \in DOMAIN m_unused_peers :
                                      \E d \in toDial(broken) : e <= d}
           toName(broken) == {c \in Free : Rank(c, Free) < Cardinality(toDial(broken))}
           nameOf(broken, c) == CHOOSE e \in toDial(broken) :
                                   Rank(e, toDial(broken)) = Rank(c, toName(broken))
<1>1. PICK broken \in SUBSET (DOMAIN m_unused_peers \ banned),
           dead \in SUBSET DOMAIN m_connected_peers :
       /\ Cardinality(toDial(broken)) <= Cardinality(Free)
       /\ m_unused_peers' = Drop(m_unused_peers, toTake(broken))
       /\ m_connecting_peers' = [e \in DOMAIN m_connecting_peers \cup toDial(broken) |->
              IF e \in toDial(broken) THEN m_unused_peers[e] ELSE m_connecting_peers[e]]
       /\ m_connected_peers' = Drop(m_connected_peers, dead)
       /\ sock' = [c \in (DOMAIN sock \ {m_connected_peers[e].conn : e \in dead})
                           \cup toName(broken) |->
              IF c \in toName(broken)
              THEN [stage |-> "connector", entry |-> nameOf(broken, c), mode |-> "LOCAL",
                    task |-> m_task_id, id |-> "none"]
              ELSE sock[c]]
  BY DEF CheckPeers
<1> DEFINE dialled == toDial(broken)
           taken == toTake(broken)
           names == toName(broken)
           dialOf == [c \in names |-> nameOf(broken, c)]
<1>2. ListsTyped
  BY TypeParts DEF Inv
<1>3. alive(broken) \in SUBSET Int /\ IsFiniteSet(alive(broken))
  <2>1. alive(broken) \in SUBSET DOMAIN m_unused_peers /\ DOMAIN m_unused_peers \subseteq Entry
    BY <1>2 DEF ListsTyped
  <2>2. IsFiniteSet(DOMAIN m_unused_peers)
    BY <1>2, OutgoingFacts
  <2>3. QED
    BY <2>1, <2>2, EntryFinite, FS_Subset
<1>4. room \in Nat /\ room <= Room
  BY <1>2, RoomFacts, PeerManagerAssumption
<1>5. /\ IsFiniteSet(dialled) /\ Cardinality(dialled) \in Nat
      /\ Cardinality(dialled) <= room
      /\ dialled \subseteq alive(broken)
  <2> HIDE DEF alive, room
  <2>1. QED
    BY <1>3, <1>4, FirstRanks
<1>6. /\ IsFiniteSet(names) /\ Cardinality(names) = Cardinality(dialled)
      /\ names \subseteq Free
  <2> HIDE DEF toDial
  <2>1. QED
    BY <1>1, <1>5, FreeFacts, FirstRanks
<1>7. dialled \in SUBSET Int /\ names \in SUBSET Int
  BY <1>3, <1>5, <1>6, FreeFacts
<1>8. \A c \in names : nameOf(broken, c) \in dialled
                       /\ Rank(nameOf(broken, c), dialled) = Rank(c, names)
  <2> HIDE DEF toDial, toName
  <2> SUFFICES ASSUME NEW c \in names
               PROVE  nameOf(broken, c) \in dialled
                      /\ Rank(nameOf(broken, c), dialled) = Rank(c, names)
    OBVIOUS
  <2>1. Rank(c, names) \in 0 .. Cardinality(dialled) - 1
    BY <1>6, <1>7, RankType
  <2>2. \E e \in dialled : Rank(e, dialled) = Rank(c, names)
    BY <1>5, <1>7, <2>1, RankBijective
  <2>3. QED
    BY <2>2
<1>9. \A e \in dialled : \E c \in names : nameOf(broken, c) = e
  <2> HIDE DEF toDial, toName
  <2> SUFFICES ASSUME NEW e \in dialled PROVE \E c \in names : nameOf(broken, c) = e
    OBVIOUS
  <2>1. Rank(e, dialled) \in 0 .. Cardinality(names) - 1
    BY <1>5, <1>6, <1>7, RankType
  <2>2. PICK c \in names : Rank(c, names) = Rank(e, dialled)
    BY <1>6, <1>7, <2>1, RankBijective
  <2> HIDE DEF nameOf
  <2>3. nameOf(broken, c) = e
    BY <1>5, <1>7, <1>8, <2>2, RankBijective
  <2>4. QED
    BY <2>3
<1>10. taken \subseteq DOMAIN m_unused_peers /\ dialled \subseteq taken
  <2>1. \A e \in dialled : e \in DOMAIN m_unused_peers /\ e <= e
    BY <1>5, <1>7
  <2>2. QED
    BY <2>1
<1>11. Cardinality(dialled) <= Room
  BY <1>2, <1>4, <1>5, RoomFacts
<1> HIDE DEF toDial, toTake, toName, nameOf
<1>12. /\ dialOf \in [names -> dialled]
       /\ \A e \in dialled : \E c \in names : dialOf[c] = e
  BY <1>8, <1>9
<1>13. Dialled(dialled, taken, names, dialOf, dead)
  <2>1. sock' = [c \in (DOMAIN sock \ {m_connected_peers[e].conn : e \in dead}) \cup names |->
           IF c \in names
           THEN [stage |-> "connector", entry |-> dialOf[c], mode |-> "LOCAL",
                 task |-> m_task_id, id |-> "none"]
           ELSE sock[c]]
    BY <1>1
  <2> HIDE DEF dialOf
  <2>2. QED
    BY <1>1, <1>6, <1>10, <1>11, <1>12, <2>1 DEF Dialled
<1>14. QED
  BY <1>13

LEMMA CheckPeersStep ==
    ASSUME Inv, CheckPeers
    PROVE  Inv'
<1>1. PICK dialled, taken, names, dialOf, dead : Dialled(dialled, taken, names, dialOf, dead)
  BY CheckPeersDials
<1>2. /\ m_task_id' = m_task_id /\ m_task_id # 0 /\ closing' = closing /\ queue' = queue
      /\ refused' = refused /\ banned' \subseteq banned \cup DOMAIN m_unused_peers
  BY DEF CheckPeers, Idling
<1>3. ListsTyped /\ RestTyped /\ SockTyped /\ QueueTyped
  BY TypeParts DEF Inv
<1>4. /\ dialled \subseteq taken /\ taken \subseteq DOMAIN m_unused_peers
      /\ dead \subseteq DOMAIN m_connected_peers /\ names \subseteq Free
      /\ \A c \in names : dialOf[c] \in dialled
      /\ \A e \in dialled : \E c \in names : dialOf[c] = e
  BY <1>1 DEF Dialled
<1>5. /\ DOMAIN m_unused_peers' = DOMAIN m_unused_peers \ taken
      /\ \A e \in DOMAIN m_unused_peers' : m_unused_peers'[e] = m_unused_peers[e]
  BY <1>1 DEF Dialled, Drop
<1>6. /\ DOMAIN m_connecting_peers' = DOMAIN m_connecting_peers \cup dialled
      /\ \A e \in dialled : m_connecting_peers'[e] = m_unused_peers[e]
      /\ \A e \in DOMAIN m_connecting_peers \ dialled :
            m_connecting_peers'[e] = m_connecting_peers[e]
  BY <1>1 DEF Dialled
<1>7. /\ DOMAIN m_connected_peers' = DOMAIN m_connected_peers \ dead
      /\ \A e \in DOMAIN m_connected_peers' : m_connected_peers'[e] = m_connected_peers[e]
  BY <1>1 DEF Dialled, Drop
<1> DEFINE closed == {m_connected_peers[e].conn : e \in dead}
<1>8. /\ DOMAIN sock' = (DOMAIN sock \ closed) \cup names
      /\ \A c \in DOMAIN sock \ closed : c \notin names /\ sock'[c] = sock[c]
      /\ \A c \in names :
            sock'[c] = [stage |-> "connector", entry |-> dialOf[c], mode |-> "LOCAL",
                        task |-> m_task_id, id |-> "none"]
  <2>1. \A c \in DOMAIN sock : c \notin names
    BY <1>4, FreeFacts
  <2>2. QED
    BY <1>1, <2>1 DEF Dialled
<1>9. /\ \A e \in DOMAIN m_connected_peers' : m_connected_peers[e].conn \notin closed
      /\ \A c \in closed : c \in DOMAIN sock => sock[c].stage = "io"
  <2>1. ASSUME NEW e \in DOMAIN m_connected_peers', NEW f \in dead,
               m_connected_peers[e].conn = m_connected_peers[f].conn
        PROVE  FALSE
    BY <1>4, <1>7, <2>1, OneLinkPerSocket DEF Inv
  <2>2. ASSUME NEW f \in dead, m_connected_peers[f].conn \in DOMAIN sock
        PROVE  sock[m_connected_peers[f].conn].stage = "io"
    BY <1>4, <2>2, NoLinkHas DEF Inv
  <2>3. QED
    BY <2>1, <2>2
<1> HIDE DEF closed
<1>10. DOMAIN m_unused_peers \subseteq Listen /\ DOMAIN m_connecting_peers \subseteq Listen
  BY DEF Inv, Connections, Origins
<1>11. \A c \in names :
           /\ sock'[c] \in Socket /\ sock'[c].stage = "connector" /\ sock'[c].mode = "LOCAL"
           /\ sock'[c].entry = dialOf[c] /\ sock'[c].entry \in Listen
           /\ sock'[c].task = m_task_id
  <2> SUFFICES ASSUME NEW c \in names
               PROVE  /\ sock'[c] \in Socket /\ sock'[c].stage = "connector"
                      /\ sock'[c].mode = "LOCAL"
                      /\ sock'[c].entry = dialOf[c] /\ sock'[c].entry \in Listen
                      /\ sock'[c].task = m_task_id
    OBVIOUS
  <2>1. sock'[c] = [stage |-> "connector", entry |-> dialOf[c], mode |-> "LOCAL",
                    task |-> m_task_id, id |-> "none"]
    BY <1>8
  <2>2. dialOf[c] \in Listen /\ dialOf[c] \in Entry /\ m_task_id \in Task \cup {0}
    BY <1>3, <1>4, <1>10, EntryFinite DEF RestTyped
  <2>3. QED
    BY <2>1, <2>2 DEF Socket
<1>12. TypeOK'
  <2>1. ListsTyped'
    BY <1>3, <1>4, <1>5, <1>6, <1>7 DEF ListsTyped
  <2>2. RestTyped' /\ QueueTyped'
    BY <1>2, <1>3 DEF RestTyped, ListsTyped, QueueTyped
  <2>3. SockTyped'
    BY <1>3, <1>4, <1>8, <1>11, FreeFacts DEF SockTyped
  <2>4. QED
    BY <2>1, <2>2, <2>3, TypeParts, PTL
<1>13. Resting'
  BY <1>2 DEF Resting
<1>14. Origins'
  <2>1. DOMAIN m_unused_peers' \subseteq Listen /\ DOMAIN m_connecting_peers' \subseteq Listen
    BY <1>4, <1>5, <1>6, <1>10
  <2>2. QED
    BY <1>7, <2>1 DEF Inv, Connections, Origins
<1>15. Sockets'
  <2> SUFFICES ASSUME NEW c \in DOMAIN sock' PROVE SocketOf(c)'
    BY DEF Sockets
  <2>1. CASE c \in names
    BY <1>11, <2>1 DEF SocketOf
  <2>2. CASE c \notin names
    <3>1. c \in DOMAIN sock /\ sock'[c] = sock[c] /\ SocketOf(c)
      BY <1>8, <2>2 DEF Inv, Connections, Sockets
    <3>2. QED
      BY <1>2, <3>1 DEF SocketOf
  <2>3. QED
    BY <2>1, <2>2
<1>16. Events'
  <2> SUFFICES ASSUME NEW k \in queue' PROVE EventOf(k)'
    BY DEF Events
  <2>1. EventOf(k) /\ k \in queue
    BY <1>2 DEF Inv, Connections, Events
  <2>2. ASSUME k.type = "established"
        PROVE  /\ k.conn \in DOMAIN sock' /\ sock'[k.conn].stage = "posted"
               /\ sock'[k.conn].entry = k.entry /\ sock'[k.conn].mode = k.mode
    <3>1. k.conn \in DOMAIN sock \ closed
      BY <1>9, <2>1, <2>2 DEF EventOf
    <3>2. QED
      BY <1>8, <2>1, <2>2, <3>1 DEF EventOf
  <2>3. ASSUME k.type = "abort"
        PROVE  /\ k.conn \notin DOMAIN sock'
               /\ \A f \in DOMAIN m_connected_peers' :
                     m_connected_peers'[f].conn = k.conn => f = k.entry
    <3>1. k.conn \notin names
      BY <1>4, <2>1, FreeFacts
    <3>2. QED
      BY <1>7, <1>8, <2>1, <2>3, <3>1 DEF EventOf
  <2>4. QED
    BY <2>2, <2>3 DEF EventOf
<1>17. LinkOwnsItsHandler'
  <2>1. ASSUME NEW f \in DOMAIN m_connected_peers', NEW d, d = m_connected_peers'[f].conn
        PROVE  \/ d \in DOMAIN sock' /\ sock'[d].stage = "io" /\ sock'[d].entry = f
               \/ \E j \in queue' : j.type = "abort" /\ j.conn = d
    <3>1. f \in DOMAIN m_connected_peers /\ d = m_connected_peers[f].conn /\ d \notin closed
      BY <1>7, <1>9, <2>1
    <3>2. CASE d \in DOMAIN sock /\ sock[d].stage = "io" /\ sock[d].entry = f
      BY <1>8, <3>1, <3>2
    <3>3. QED
      BY <1>2, <3>1, <3>2 DEF Inv, Connections, LinkOwnsItsHandler
  <2>2. ASSUME NEW d \in DOMAIN sock', sock'[d].stage = "io"
        PROVE  /\ sock'[d].entry \in DOMAIN m_connected_peers'
               /\ m_connected_peers'[sock'[d].entry].conn = d
    <3>1. d \in DOMAIN sock \ closed /\ sock'[d] = sock[d]
      BY <1>8, <1>11, <2>2
    <3>2. /\ sock[d].entry \in DOMAIN m_connected_peers
          /\ m_connected_peers[sock[d].entry].conn = d
      BY <2>2, <3>1 DEF Inv, Connections, LinkOwnsItsHandler
    <3>3. sock[d].entry \notin dead
      BY <3>1, <3>2 DEF closed
    <3>4. QED
      BY <1>7, <3>1, <3>2, <3>3
  <2>3. QED
    BY <2>1, <2>2 DEF LinkOwnsItsHandler
<1>18. SlotHasDial'
  <2> SUFFICES ASSUME NEW f \in DOMAIN m_connecting_peers'
               PROVE  \/ \E d \in DOMAIN sock' : Dials(d)' /\ sock'[d].entry = f
                      \/ \E j \in queue' : /\ j.type \in {"established", "failed"}
                                           /\ j.entry = f /\ j.mode = "LOCAL"
                      \/ f \in refused'
    BY DEF SlotHasDial, Dials
  <2>1. CASE f \in dialled
    <3>1. PICK c \in names : dialOf[c] = f
      BY <1>4, <2>1
    <3>2. c \in DOMAIN sock' /\ Dials(c)' /\ sock'[c].entry = f
      BY <1>2, <1>8, <1>11, <3>1 DEF Dials
    <3>3. QED
      BY <3>2
  <2>2. CASE f \notin dialled
    <3>1. f \in DOMAIN m_connecting_peers
      BY <1>6, <2>2
    <3>2. \/ \E d \in DOMAIN sock : Dials(d) /\ sock[d].entry = f
          \/ \E j \in queue : /\ j.type \in {"established", "failed"}
                              /\ j.entry = f /\ j.mode = "LOCAL"
          \/ f \in refused
      BY <3>1 DEF Inv, SlotHasDial, Dials
    <3>3. CASE \E d \in DOMAIN sock : Dials(d) /\ sock[d].entry = f
      <4>1. PICK d \in DOMAIN sock : Dials(d) /\ sock[d].entry = f
        BY <3>3
      <4>2. d \in DOMAIN sock \ closed
        BY <1>9, <4>1 DEF Dials
      <4>3. QED
        BY <1>2, <1>8, <4>1, <4>2 DEF Dials
    <3>4. QED
      BY <1>2, <3>2, <3>3
  <2>3. QED
    BY <2>1, <2>2
<1>19. UniquePeers'
  BY <1>7 DEF Inv, PeersMetOnce, UniquePeers
<1>20. ListsDisjoint'
  BY <1>4, <1>5, <1>6, <1>7 DEF Inv, PeersMetOnce, ListsDisjoint
<1>21. OutgoingBound'
  <2>1. Cardinality(DOMAIN m_connecting_peers) + Cardinality(Outgoing) <= MaxConnection
    BY DEF Inv, PeersMetOnce, OutgoingBound, Outgoing
  <2>2. Outgoing' \in SUBSET Outgoing
    BY <1>7 DEF Outgoing
  <2>3. Cardinality(Outgoing') <= Cardinality(Outgoing) /\ Cardinality(Outgoing') \in Nat
    BY <1>3, <2>2, OutgoingFacts, FS_Subset, FS_CardinalityType
  <2>4. IsFiniteSet(dialled) /\ Cardinality(dialled) \in Nat /\ Cardinality(dialled) <= Room
    <3>1. dialled \in SUBSET DOMAIN m_unused_peers
      BY <1>4
    <3>2. QED
      BY <1>1, <1>3, <3>1, OutgoingFacts, FS_Subset, FS_CardinalityType DEF Dialled
  <2>5. /\ Cardinality(DOMAIN m_connecting_peers') \in Nat
        /\ Cardinality(DOMAIN m_connecting_peers')
              <= Cardinality(DOMAIN m_connecting_peers) + Cardinality(dialled)
    BY <1>3, <1>6, <2>4, OutgoingFacts, UnionBound
  <2>6. Cardinality(DOMAIN m_connecting_peers') + Cardinality(Outgoing') <= MaxConnection
    BY <1>3, <2>1, <2>3, <2>4, <2>5, OutgoingFacts, RoomFacts, PeerManagerAssumption
  <2>7. QED
    BY <2>6 DEF OutgoingBound, Outgoing
<1>22. QED
  BY <1>12, <1>13, <1>14, <1>15, <1>16, <1>17, <1>18, <1>19, <1>20, <1>21
     DEF Inv, Connections, PeersMetOnce

(***************************************************************************)
(* Every step.                                                             *)
(***************************************************************************)

LEMMA InitInv == Init => Inv
<1> SUFFICES ASSUME Init PROVE Inv
  OBVIOUS
<1>1. /\ m_task_id \in Task /\ closing = FALSE /\ banned = {} /\ queue = {} /\ refused = {}
      /\ DOMAIN m_unused_peers = {} /\ DOMAIN m_connecting_peers = {}
      /\ DOMAIN m_connected_peers = {} /\ DOMAIN sock = {}
  BY DEF Init, Empty
<1>2. TypeOK /\ Connections /\ SlotHasDial
  BY <1>1 DEF TypeOK, Connections, Resting, Sockets, Events, Origins, LinkOwnsItsHandler,
              SlotHasDial
<1>3. UniquePeers /\ ListsDisjoint
  BY <1>1 DEF UniquePeers, ListsDisjoint
<1>4. OutgoingBound
  <2>1. DOMAIN m_connecting_peers = {} /\ Outgoing = {}
    BY <1>1 DEF Outgoing
  <2>2. Cardinality(DOMAIN m_connecting_peers) + Cardinality(Outgoing) <= MaxConnection
    BY <2>1, FS_EmptySet, PeerManagerAssumption
  <2>3. QED
    BY <2>2 DEF OutgoingBound, Outgoing
<1>5. QED
  BY <1>2, <1>3, <1>4 DEF Inv, PeersMetOnce

LEMMA StutterInv ==
    ASSUME Inv, UNCHANGED vars
    PROVE  Inv'
BY ClosingStep DEF vars, Inv, TypeOK

LEMMA StepInv ==
    ASSUME Inv, [Next]_vars
    PROVE  Inv'
<1>1. ASSUME NEW e \in Listen, AddUnusedPeer(e) PROVE Inv'
  BY <1>1, AddUnusedPeerStep
<1>2. CASE CheckPeers
  BY <1>2, CheckPeersStep
<1>3. CASE CheckNeedDisconnect \/ DisconnectOne
  BY <1>3, DisconnectStep
<1>4. ASSUME NEW k \in queue, OnNetEvent(k) PROVE Inv'
  BY <1>4, OnNetEventStep
<1>5. CASE Stop \/ Start
  BY <1>5, StopStep, StartStep
<1>6. ASSUME NEW e \in Ephemeral, OnAccepted(e) PROVE Inv'
  BY <1>6, OnAcceptedStep
<1>7. ASSUME NEW c \in Conn, Dialling(c) PROVE Inv'
  BY <1>7, OnConnectedStep, OnConnectErrorStep, OutValidatedStep, OutFailedStep DEF Dialling
<1>8. ASSUME NEW c \in Conn, Accepting(c) PROVE Inv'
  BY <1>8, InHandshakeStep, InRepliedStep, InFailedStep DEF Accepting
<1>9. ASSUME NEW c \in Conn, OnInput(c) \/ SendConnAbort(c) PROVE Inv'
  BY <1>9, OnInputStep, SendConnAbortStep
<1>10. CASE UNCHANGED vars
  BY <1>10, StutterInv
<1>11. QED
  BY <1>1, <1>2, <1>3, <1>4, <1>5, <1>6, <1>7, <1>8, <1>9, <1>10 DEF Next

\* The inductive invariant, in every reachable state.
THEOREM InvHolds == Spec => []Inv
<1>1. Init => Inv
  BY InitInv
<1>2. Inv /\ [Next]_vars => Inv'
  BY StepInv
<1>3. QED
  BY <1>1, <1>2, PTL DEF Spec

\* Types, for any number of addresses, sockets and threads; no address that failed
\* more than MAX_ERROR_TIMES times is listed.
THEOREM TypeCorrect == Spec => []TypeOK
<1>1. Inv => TypeOK
  BY DEF Inv
<1>2. QED
  BY <1>1, InvHolds, PTL

\* Between the selector threads and the worker no connection is forgotten: a link
\* has its PeerIO registered or hears of its end, a PeerIO belongs to the link of
\* its address, and a slot of the connecting list has a dial that is not over.
THEOREM NobodyIsForgotten == Spec => []NoneForgotten
<1>1. Inv => NoneForgotten
  BY DEF Inv, Connections, NoneForgotten
<1>2. QED
  BY <1>1, InvHolds, PTL

\* However handshakes and events are ordered, no peer is connected twice or to
\* itself, no address is in two lists, and the connections made never exceed the
\* setting, whatever it is.
THEOREM PeersAreMetOnce == Spec => []PeersMetOnce
<1>1. Inv => PeersMetOnce
  BY DEF Inv
<1>2. QED
  BY <1>1, InvHolds, PTL
=============================================================================
