------------------------------- MODULE Pieces -------------------------------
(***************************************************************************)
(* What the modules of the download side share: the request table of one   *)
(* piece, the pieces of the torrent and the parts of PieceManager that     *)
(* only compute from its fields.                                           *)
(***************************************************************************)
EXTENDS Naturals, FiniteSetsExt

CONSTANTS
    NumPieces,      \* TorrentFile::GetPieceCount
    SliceCount,     \* slices of each piece: its length over SLICE_LENGTH
    END_GAME_LINE   \* the constant of PieceManager.h

Piece == 0 .. NumPieces - 1

ASSUME PiecesAssumption ==
    /\ NumPieces \in Nat \ {0}
    /\ SliceCount \in [Piece -> Nat \ {0}]
    /\ END_GAME_LINE \in Nat \ {0}

(***************************************************************************)
(* The request table of one piece under download (class DownloadingPiece,  *)
(* m_req_list): a function from the slices 1..n of the piece to their      *)
(* states; the slice i stands for the SliceInfo with                       *)
(* start_pos = (i - 1) * SLICE_LENGTH.  The methods that loop over the     *)
(* table are given by what the loop returns.                               *)
(***************************************************************************)
FREE == "FREE"
REQUESTED == "REQUESTED"
COMPLETED == "COMPLETED"
SliceState == {FREE, REQUESTED, COMPLETED}

\* reset: every slice of a new table is free.
Reset(n) == [i \in 1..n |-> FREE]

\* The states GetRequest accepts: in endgame a slice already asked of one
\* peer is asked of another.
Requestable(is_endgame) == IF is_endgame THEN {FREE, REQUESTED} ELSE {FREE}

HasFreeSlice(req, is_endgame) ==
    \E i \in DOMAIN req : req[i] \in Requestable(is_endgame)

IsCompleted(req) == \A i \in DOMAIN req : req[i] = COMPLETED

NotRequested(req) == \A i \in DOMAIN req : req[i] = FREE

\* The slice one call of GetRequest hands out, if it hands out one: the first
\* acceptable one.
FirstRequest(req, is_endgame) ==
    {i \in DOMAIN req :
        /\ req[i] \in Requestable(is_endgame)
        /\ \A j \in DOMAIN req : j < i => req[j] \notin Requestable(is_endgame)}

GetOne(req, is_endgame) ==
    [i \in DOMAIN req |->
        IF i \in FirstRequest(req, is_endgame) THEN REQUESTED ELSE req[i]]

\* Faulty variant of what follows: one slice too many.
BatchSlicesOneMore(req, want, is_endgame) ==
    IF is_endgame
    THEN FirstRequest(req, TRUE)
    ELSE {i \in DOMAIN req :
            /\ req[i] = FREE
            /\ Cardinality({j \in DOMAIN req : j < i /\ req[j] = FREE}) <= want}

\* `want' calls in a row, which is how PieceManager::GetRequest uses the table.
\* Outside endgame they hand out the first `want' free slices; in endgame the
\* slice handed out stays acceptable, so every call returns the same one.
BatchSlices(req, want, is_endgame) ==
    IF is_endgame
    THEN FirstRequest(req, TRUE)
    ELSE {i \in DOMAIN req :
            /\ req[i] = FREE
            /\ Cardinality({j \in DOMAIN req : j <= i /\ req[j] = FREE}) <= want}

\* How many times a slice appears in the list of the batch.
BatchCopies(want, is_endgame) == IF is_endgame THEN want ELSE 1

GetBatch(req, want, is_endgame) ==
    [i \in DOMAIN req |->
        IF i \in BatchSlices(req, want, is_endgame) THEN REQUESTED ELSE req[i]]

\* RequestCompleted answers FALSE for a slice that is not outstanding ...
CanComplete(req, i) == req[i] \in {FREE, REQUESTED}

RequestCompleted(req, i) == [req EXCEPT ![i] = COMPLETED]

\* ... and AbortRequest for one that is not requested.
CanAbort(req, i) == req[i] = REQUESTED

\* AbortRequest for every slice of a set; it skips what is not requested.
AbortRequests(req, S) ==
    [i \in DOMAIN req |-> IF i \in S /\ CanAbort(req, i) THEN FREE ELSE req[i]]

(***************************************************************************)
(* PieceManager.                                                           *)
(***************************************************************************)

\* The request tables with which no piece is under download.
NoRequests == [p \in Piece |-> Reset(SliceCount[p])]

\* need_enter_endgame, for a task that is not in endgame yet.
NeedEndgame(bitfield) == Cardinality(Piece \ bitfield) < END_GAME_LINE

\* The size of a set of pieces, in slices (GetFinishedSize, GetTotalSize), and
\* GetFinishedDegree() < 0.05f.
Size(S) == MapThenSumSet(LAMBDA p : SliceCount[p], S)
BarelyBegun(bitfield) == 20 * Size(bitfield) < Size(Piece)

\* get_best_downloading, first half: of the started pieces a peer can go on
\* with, the one with most owners, the first such in index order.  A piece
\* nobody is counted to own is passed over.
Continuable(own, started, have, slice, is_endgame) ==
    {p \in started : p \in own /\ have[p] > 0 /\ HasFreeSlice(slice[p], is_endgame)}

MostOwned(S, have) ==
    {p \in S : \A q \in S : have[q] < have[p] \/ (have[q] = have[p] /\ p <= q)}
=============================================================================
