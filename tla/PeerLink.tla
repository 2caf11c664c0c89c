------------------------------ MODULE PeerLink ------------------------------
(***************************************************************************)
(* The download half of a running task: the PeerLink of every connected    *)
(* peer, the PieceManager they share and the two broadcasts of PeerManager *)
(* that reach back into the links (BroadCastHave, OnDownloadCompleted).    *)
(*                                                                         *)
(* Everything here runs in the worker thread of the task: one message,     *)
(* timer tick or connection event at a time.  But a handler calls from     *)
(* link to link and loops, and what a later turn sees depends on what the  *)
(* earlier ones took; `agenda' is the calls the running handler has still  *)
(* to make, one of which is a step, and a handler starts when it is empty. *)
(*                                                                         *)
(* The peers are the environment: they may send any message at any time,   *)
(* answer a request any number of times or never, send data that fails the *)
(* hash check or is of another length than was asked for, and disconnect.  *)
(* The worker takes their messages in any order, for its queue is a heap   *)
(* (TSDataPriorityQueue.cpp 21-61): the one bitfield of a peer may be      *)
(* handled after a HAVE that was sent later.                               *)
(***************************************************************************)
EXTENDS Pieces, Sequences

CONSTANTS
    Link,          \* the peers that may connect, by PeerEntry
    PendingCount,  \* GlobalSetting::GetMaxRequestPendingCount
    ResetLine,     \* percentage held above which slow links are reset (95)
    MaxHave        \* bound: the have count of a piece

ASSUME PeerLinkAssumption ==
    /\ IsFiniteSet(Link)
    /\ PendingCount \in Nat \ {0}
    /\ ResetLine \in Nat
    /\ MaxHave \in Nat \ {0}

VARIABLES
    (* PieceManager *)
    bitfield,    \* m_bitfield: the pieces held
    started,     \* the keys of m_started_pieces: the P_DOWNLOADING pieces
    slice,       \* their request tables
    have,        \* m_pieces_info[p].have
    is_endgame,  \* m_is_endgame
    (* PeerManager and its PeerLinks *)
    links,       \* the keys of m_connected_peers
    own,         \* m_remote_own_pieces
    received_bitfield,         \* m_received_bitfield
    remote_choking_local,      \* m_remote_choking_local
    local_interested_remote,   \* m_local_interested_remote
    req,         \* m_local_req_list: how often it contains each slice
    (* the worker thread *)
    agenda,      \* the calls the running handler has still to make
    (* history *)
    overtaken,   \* HAVEs of each piece handled before the bitfield of their peer
    lost         \* slices nobody asks for since on_piece took out the only
                 \*   entry for data of the wrong length

pieceVars == <<bitfield, started, slice, have, is_endgame>>
linkVars == <<links, own, received_bitfield, remote_choking_local,
              local_interested_remote, req>>
history == <<overtaken, lost>>
vars == <<pieceVars, linkVars, agenda, history>>

Slice == {s \in Piece \X UNION {1..SliceCount[p] : p \in Piece} : s[2] <= SliceCount[s[1]]}

NoneRequested == [s \in Slice |-> 0]

\* The slices a link has asked for, the entries of its m_local_req_list - the
\* second, third ... of a slice listed more than once told apart - and its size.
Asked(l) == {s \in Slice : req[l][s] > 0}
ReqList(l) == UNION {{s} \X (1 .. req[l][s]) : s \in Slice}
NumAsked(l) == Cardinality(ReqList(l))

Job(name, l, arg) == [call |-> name, link |-> l, arg |-> arg]

\* The calls a loop over m_connected_peers makes, in an order of its own.
Sweep(name, S, arg) ==
    {[i \in DOMAIN order |-> Job(name, order[i], arg)] :
        order \in {f \in [1..Cardinality(S) -> S] :
                        \A i, j \in DOMAIN f : f[i] = f[j] => i = j}}

----------------------------------------------------------------------------
Init ==
    /\ bitfield \in SUBSET Piece \ {Piece}
    /\ started = {}
    /\ slice = NoRequests
    /\ have = [p \in Piece |-> 0]
    /\ is_endgame = NeedEndgame(bitfield)
    /\ links = {}
    /\ own = [l \in Link |-> {}]
    /\ received_bitfield = [l \in Link |-> FALSE]
    /\ remote_choking_local = [l \in Link |-> TRUE]
    /\ local_interested_remote = [l \in Link |-> FALSE]
    /\ req = [l \in Link |-> NoneRequested]
    /\ agenda = <<>>
    /\ overtaken = [p \in Piece |-> 0]
    /\ lost = {}

----------------------------------------------------------------------------
(* Connections.                                                             *)

\* on_conn_established and the PeerLink constructor.
Established(l) ==
    /\ agenda = <<>>
    /\ l \notin links
    /\ links' = links \cup {l}
    /\ UNCHANGED <<pieceVars, own, received_bitfield, remote_choking_local,
                   local_interested_remote, req, agenda, history>>

\* Faulty variant of what follows: all of a piece is aborted, not the slices of
\* the link only.
AbortAllByPiece(S) ==
    LET table == [p \in Piece |-> AbortRequests(slice[p], {i \in DOMAIN slice[p] : \E s \in S : s[1] = p})]
    IN  /\ slice' = table
        /\ started' = {p \in started : slice[p] = table[p] \/ ~NotRequested(table[p])}

\* PieceManager::AbortRequest for every slice of S: what is outstanding is
\* free again, and a piece left with nothing outstanding or received is too.
AbortAll(S) ==
    LET table == [p \in Piece |-> AbortRequests(slice[p], {i \in DOMAIN slice[p] : <<p, i>> \in S})]
    IN  /\ slice' = table
        /\ started' = {p \in started : slice[p] = table[p] \/ ~NotRequested(table[p])}

\* The destructor, after l left m_connected_peers: its requests S are aborted
\* and its pieces have one owner less.  The next PeerLink of l starts afresh.
Destroy(l, S) ==
    /\ AbortAll(S)
    /\ have' = [p \in Piece |-> IF p \in own[l] /\ have[p] > 0 THEN have[p] - 1 ELSE have[p]]
    /\ links' = links \ {l}
    /\ own' = [own EXCEPT ![l] = {}]
    /\ received_bitfield' = [received_bitfield EXCEPT ![l] = FALSE]
    /\ remote_choking_local' = [remote_choking_local EXCEPT ![l] = TRUE]
    /\ local_interested_remote' = [local_interested_remote EXCEPT ![l] = FALSE]
    /\ req' = [req EXCEPT ![l] = NoneRequested]
    /\ UNCHANGED <<bitfield, is_endgame, agenda, overtaken>>

\* on_connection_abort, a keep-alive timeout, disconnect_one_peer, or a
\* message OnNetPackage rejects: all end in the destructor.
Disconnect(l) ==
    /\ agenda = <<>>
    /\ l \in links
    /\ Destroy(l, Asked(l))
    /\ UNCHANGED lost

----------------------------------------------------------------------------
(* Messages of a peer.                                                      *)

\* What the HAVEs said is overwritten, and counted still.
OnBitfield(l, bits) ==
    /\ agenda = <<>>
    /\ l \in links
    /\ ~received_bitfield[l]
    /\ \A p \in bits : have[p] < MaxHave
    /\ received_bitfield' = [received_bitfield EXCEPT ![l] = TRUE]
    /\ own' = [own EXCEPT ![l] = bits]
    /\ have' = [p \in Piece |-> IF p \in bits THEN have[p] + 1 ELSE have[p]]
    /\ local_interested_remote' =
          [local_interested_remote EXCEPT ![l] = @ \/ bits \ bitfield # {}]
    /\ overtaken' = [p \in Piece |-> IF p \in own[l] THEN overtaken[p] + 1 ELSE overtaken[p]]
    /\ UNCHANGED <<bitfield, started, slice, is_endgame, links,
                   remote_choking_local, req, agenda, lost>>

\* Faulty variant: a HAVE sent twice counts twice.
OnHaveTwice(l, p) ==
    /\ agenda = <<>>
    /\ l \in links
    /\ have[p] < MaxHave
    /\ own' = [own EXCEPT ![l] = @ \cup {p}]
    /\ have' = [have EXCEPT ![p] = @ + 1]
    /\ agenda' = <<Job("request", l, 0)>>
    /\ UNCHANGED <<bitfield, started, slice, is_endgame, links, received_bitfield,
                   remote_choking_local, local_interested_remote, req, history>>

OnHave(l, p) ==
    /\ agenda = <<>>
    /\ l \in links
    /\ p \notin own[l]
    /\ have[p] < MaxHave
    /\ own' = [own EXCEPT ![l] = @ \cup {p}]
    /\ have' = [have EXCEPT ![p] = @ + 1]
    /\ agenda' = <<Job("request", l, 0)>>
    /\ UNCHANGED <<bitfield, started, slice, is_endgame, links, received_bitfield,
                   remote_choking_local, local_interested_remote, req, history>>

\* Faulty variant: the requests are dropped and not put back.
OnChokeForgets(l) ==
    /\ agenda = <<>>
    /\ l \in links
    /\ remote_choking_local' = [remote_choking_local EXCEPT ![l] = TRUE]
    /\ req' = [req EXCEPT ![l] = NoneRequested]
    /\ UNCHANGED <<pieceVars, links, own, received_bitfield,
                   local_interested_remote, agenda, history>>

OnChoke(l) ==
    /\ agenda = <<>>
    /\ l \in links
    /\ remote_choking_local' = [remote_choking_local EXCEPT ![l] = TRUE]
    /\ AbortAll(Asked(l))
    /\ req' = [req EXCEPT ![l] = NoneRequested]
    /\ UNCHANGED <<bitfield, have, is_endgame, links, own, received_bitfield,
                   local_interested_remote, agenda, history>>

OnUnchoke(l) ==
    /\ agenda = <<>>
    /\ l \in links
    /\ remote_choking_local' = [remote_choking_local EXCEPT ![l] = FALSE]
    /\ agenda' = <<Job("request", l, 0)>>
    /\ UNCHANGED <<pieceVars, links, own, received_bitfield,
                   local_interested_remote, req, history>>

\* PieceManager::SliceCompleted for slice s of a started piece; valid is the
\* answer of CheckPiece, asked when no slice of the piece is missing any more.
SliceCompleted(s, valid) ==
    LET p == s[1]
        table == RequestCompleted(slice[p], s[2])
    IN  /\ UNCHANGED have
        /\ IF ~IsCompleted(table)
           THEN /\ slice' = [slice EXCEPT ![p] = table]
                /\ UNCHANGED <<bitfield, started, is_endgame>>
           ELSE /\ slice' = [slice EXCEPT ![p] = Reset(SliceCount[p])]
                /\ started' = started \ {p}
                /\ bitfield' = IF valid THEN bitfield \cup {p} ELSE bitfield
                /\ is_endgame' = (is_endgame \/ (valid /\ NeedEndgame(bitfield')))

\* on_piece for a slice that was asked for, of the right length.  Data that
\* answers no entry of m_local_req_list changes nothing.
OnPiece(l, s, valid) ==
    /\ agenda = <<>>
    /\ l \in links
    /\ s \in Asked(l)
    /\ req' = [req EXCEPT ![l][s] = @ - 1]
    /\ IF s[1] \in started /\ CanComplete(slice[s[1]], s[2])
       THEN /\ SliceCompleted(s, valid)
            /\ IF bitfield' = bitfield
               THEN agenda' = <<Job("request", l, 0)>>
               ELSE \E calls \in Sweep("notify", links, s[1]) :
                       agenda' = Append(calls, Job("piece_end", l, 0))
       ELSE UNCHANGED <<pieceVars, agenda>>
    /\ lost' = {t \in lost : slice'[t[1]][t[2]] = REQUESTED}
    /\ UNCHANGED <<links, own, received_bitfield, remote_choking_local,
                   local_interested_remote, overtaken>>

\* on_piece for data of the wrong length: the entry is erased from
\* m_local_req_list and the link is closed, which aborts the others only.
OnPieceBadLength(l, s) ==
    /\ agenda = <<>>
    /\ l \in links
    /\ s \in Asked(l)
    /\ Destroy(l, IF req[l][s] = 1 THEN Asked(l) \ {s} ELSE Asked(l))
    /\ lost' = IF /\ req[l][s] = 1 /\ s[1] \in started /\ slice[s[1]][s[2]] = REQUESTED
                  /\ \A k \in links \ {l} : s \notin Asked(k)
               THEN lost \cup {s} ELSE lost

----------------------------------------------------------------------------
(* The timer tick.                                                          *)

\* peer_link_second_tick asks every link to request more; after it, when
\* enough is held and its period is over, reset_low_rate_request.
SecondTick ==
    /\ agenda = <<>>
    /\ links # {}
    /\ \E calls \in Sweep("request", links, 0) :
         \/ agenda' = calls
         \/ /\ 100 * Size(bitfield) > ResetLine * Size(Piece)
            /\ \E S \in SUBSET links \ {{}} :
                  \E resets \in Sweep("reset", S, 0) : agenda' = calls \o resets
    /\ UNCHANGED <<pieceVars, linkVars, history>>

----------------------------------------------------------------------------
(* The calls of a handler, one per step.                                    *)

Calling(name) == agenda # <<>> /\ agenda[1].call = name

\* Faulty variant: no look at whether the peer still owes us something.
DoPiecesRequestAgain ==
    /\ Calling("request")
    /\ LET l == agenda[1].link IN
       IF bitfield = Piece \/ remote_choking_local[l]
       THEN agenda' = Tail(agenda)
       ELSE agenda' = <<Job("loop", l, PendingCount)>> \o Tail(agenda)
    /\ UNCHANGED <<pieceVars, linkVars, history>>

\* do_pieces_request up to its loop.
DoPiecesRequest ==
    /\ Calling("request")
    /\ LET l == agenda[1].link IN
       IF bitfield = Piece \/ remote_choking_local[l] \/ Asked(l) # {}
       THEN agenda' = Tail(agenda)
       ELSE agenda' = <<Job("loop", l, PendingCount)>> \o Tail(agenda)
    /\ UNCHANGED <<pieceVars, linkVars, history>>

\* get_req_piece: the free pieces among which the order of m_interests decides.
Rated(S) ==
    {p \in S : \A q \in S :
        IF BarelyBegun(bitfield) THEN have[q] <= have[p] ELSE have[p] <= have[q]}

\* The pieces get_best_downloading may return for a peer that owns `pieces'.
BestDownloading(pieces) ==
    LET going == Continuable(pieces, started, have, slice, is_endgame)
        free  == {p \in pieces \ (bitfield \cup started) : have[p] > 0}
    IN  IF going # {} THEN MostOwned(going, have) ELSE Rated(free)

\* One turn of its loop: PieceManager::GetRequest hands out slices of one piece
\* and they are sent and listed, or there is nothing to ask this peer for.
RequestLoop ==
    /\ Calling("loop")
    /\ LET l == agenda[1].link
           remain == agenda[1].arg
       IN
       IF BestDownloading(own[l]) = {}
       THEN /\ local_interested_remote' = [local_interested_remote EXCEPT ![l] = FALSE]
            /\ agenda' = Tail(agenda)
            /\ UNCHANGED <<started, slice, req, lost>>
       ELSE \E p \in BestDownloading(own[l]) :
            LET given  == BatchSlices(slice[p], remain, is_endgame)
                copies == BatchCopies(remain, is_endgame)
                left   == remain - copies * Cardinality(given)
            IN
            /\ started' = started \cup {p}
            /\ slice' = [slice EXCEPT ![p] = GetBatch(@, remain, is_endgame)]
            /\ req' = [req EXCEPT ![l] =
                          [s \in Slice |-> IF s[1] = p /\ s[2] \in given
                                           THEN @[s] + copies ELSE @[s]]]
            /\ lost' = lost \ {<<p, i>> : i \in given}
            /\ local_interested_remote' = [local_interested_remote EXCEPT ![l] = TRUE]
            /\ agenda' = IF left = 0 THEN Tail(agenda)
                         ELSE <<Job("loop", l, left)>> \o Tail(agenda)
    /\ UNCHANGED <<bitfield, have, is_endgame, links, own, received_bitfield,
                   remote_choking_local, overtaken>>

\* NotifyHavePiece: cancel what is asked of the piece just obtained, then
\* request more.
NotifyHavePiece ==
    /\ Calling("notify")
    /\ LET l == agenda[1].link IN
       /\ req' = [req EXCEPT ![l] =
                     [s \in Slice |-> IF s[1] = agenda[1].arg THEN 0 ELSE @[s]]]
       /\ agenda' = <<Job("request", l, 0)>> \o Tail(agenda)
    /\ UNCHANGED <<pieceVars, links, own, received_bitfield, remote_choking_local,
                   local_interested_remote, history>>

\* Faulty variant: the end of the download is not told.
PieceEndNotTold ==
    /\ Calling("piece_end")
    /\ agenda' = <<Job("request", agenda[1].link, 0)>> \o Tail(agenda)
    /\ UNCHANGED <<pieceVars, linkVars, history>>

\* The end of on_piece: PeerManager::OnDownloadCompleted, or one more request.
PieceEnd ==
    /\ Calling("piece_end")
    /\ IF bitfield = Piece
       THEN /\ req' = [l \in Link |-> NoneRequested]
            /\ local_interested_remote' =
                  [l \in Link |-> local_interested_remote[l] /\ l \notin links]
            /\ agenda' = Tail(agenda)
       ELSE /\ agenda' = <<Job("request", agenda[1].link, 0)>> \o Tail(agenda)
            /\ UNCHANGED <<req, local_interested_remote>>
    /\ UNCHANGED <<pieceVars, links, own, received_bitfield, remote_choking_local, history>>

\* AbortAllRequest of a link with a low download rate.
AbortAllRequest ==
    /\ Calling("reset")
    /\ AbortAll(Asked(agenda[1].link))
    /\ req' = [req EXCEPT ![agenda[1].link] = NoneRequested]
    /\ agenda' = Tail(agenda)
    /\ UNCHANGED <<bitfield, have, is_endgame, links, own, received_bitfield,
                   remote_choking_local, local_interested_remote, history>>

Handler(l) ==
    \/ Established(l)
    \/ Disconnect(l)
    \/ \E bits \in SUBSET Piece : OnBitfield(l, bits)
    \/ \E p \in Piece : OnHave(l, p)
    \/ OnChoke(l)
    \/ OnUnchoke(l)
    \/ \E s \in Slice :
          \/ \E valid \in BOOLEAN : OnPiece(l, s, valid)
          \/ OnPieceBadLength(l, s)

Call ==
    \/ DoPiecesRequest
    \/ RequestLoop
    \/ NotifyHavePiece
    \/ PieceEnd
    \/ AbortAllRequest

Next == (\E l \in Link : Handler(l)) \/ SecondTick \/ Call

Spec == Init /\ [][Next]_vars

----------------------------------------------------------------------------
(* Properties.                                                              *)

TypeOK ==
    /\ bitfield \in SUBSET Piece
    /\ started \in SUBSET Piece
    /\ DOMAIN slice = Piece
    /\ \A p \in Piece : slice[p] \in [1..SliceCount[p] -> SliceState]
    /\ have \in [Piece -> Nat]
    /\ is_endgame \in BOOLEAN
    /\ links \in SUBSET Link
    /\ own \in [Link -> SUBSET Piece]
    /\ received_bitfield \in [Link -> BOOLEAN]
    /\ remote_choking_local \in [Link -> BOOLEAN]
    /\ local_interested_remote \in [Link -> BOOLEAN]
    /\ req \in [Link -> [Slice -> Nat]]
    /\ agenda \in Seq([call : {"request", "loop", "notify", "piece_end", "reset"},
                       link : Link, arg : Nat])
    /\ overtaken \in [Piece -> Nat] /\ lost \subseteq Slice

\* No slice is lost: a slice of a started piece that counts as requested is in
\* the request list of a connected peer, so its data, a choke or the end of
\* that link will settle it (PieceManager.h 177-178: what a broken link did not
\* finish is put back).  Otherwise nobody asks for it again outside endgame and
\* the piece never completes.  One way to lose it is in the code: data of the
\* wrong length (PeerLink.cpp 625).
NoLostSlice ==
    \A p \in started : \A i \in 1..SliceCount[p] :
        slice[p][i] = REQUESTED =>
            <<p, i>> \in lost \/ \E l \in links : <<p, i>> \in Asked(l)

\* Outside endgame no slice is asked of two peers, or twice of one, and what is
\* asked for is a slice recorded as requested of a piece under download: no
\* abort, choke or hash failure frees a slice another link still waits for.
Exclusive ==
    ~is_endgame =>
        \A l \in Link : \A s \in Asked(l) :
            /\ s[1] \in started
            /\ slice[s[1]][s[2]] = REQUESTED
            /\ req[l][s] = 1
            /\ \A k \in Link \ {l} : s \notin Asked(k)

\* A peer that chokes us owes us nothing: it drops requests made while it
\* chokes (on_request), so one kept listed would never be answered.
ChokedOwesNothing ==
    \A l \in Link : remote_choking_local[l] => Asked(l) = {}

\* m_local_req_list never exceeds the pending count, however many turns of
\* do_pieces_request and however many triggers for it (PeerLink.cpp 317-340).
PendingBound == \A l \in Link : NumAsked(l) <= PendingCount

\* What the peers owe us stays due: nothing of one that chokes us, and of the
\* others what a link may have under way, through every order of triggers.
OwedIsDue == ChokedOwesNothing /\ PendingBound

\* A piece obtained is asked of nobody any more once every link was notified.
ObtainedIsCancelled ==
    \A l \in links : \A s \in Asked(l) :
        s[1] \in bitfield =>
            \E k \in DOMAIN agenda : agenda[k] = Job("notify", l, s[1])

Owners(p) == {l \in links : p \in own[l]}

\* The have count of a piece is the number of connected peers that own it, and
\* one more for good for each HAVE that was handled before the bitfield of its
\* peer: nothing else, in whatever order links come and go, makes it differ.
\* Rarity is decided by it, and a piece is asked of an owner only while it is
\* positive; so no owned piece is ever taken for one that nobody has.
HaveExact == \A p \in Piece : have[p] = Cardinality(Owners(p)) + overtaken[p]

\* What the comment on m_pieces_info says (PieceManager.h 131): it records how
\* many have each piece.
HaveIsOwners == \A p \in Piece : have[p] = Cardinality(Owners(p))

\* Once everything is held and every link was told, no link asks for anything
\* or claims interest, whatever its peer sends later.
FinishedIsQuiet ==
    bitfield = Piece /\ agenda = <<>> =>
        \A l \in links : Asked(l) = {} /\ ~local_interested_remote[l]

\* What was obtained is quiet: the notifications of a piece and of the end of
\* the download reach every link, whatever arrives between them.
ObtainedIsQuiet == ObtainedIsCancelled /\ FinishedIsQuiet
=============================================================================
