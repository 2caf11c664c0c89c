--------------------------- MODULE MCPieceManager ---------------------------
(***************************************************************************)
(* PieceManager on three pieces, the last of two slices, owned by up to two *)
(* peers: enough pieces to be outside endgame, to enter it, and to have    *)
(* two pieces in one bucket of the index while another one moves.          *)
(***************************************************************************)
EXTENDS PieceManager

MCSliceCount == [p \in 0..2 |-> IF p = 2 THEN 2 ELSE 1]

\* The loop of PieceManager::GetRequest over one request table, call by call:
\* one turn is a call of DownloadingPiece::GetRequest, and with HasFreeSlice
\* FALSE there are no more turns.
Turn(batch, endgame) ==
    IF HasFreeSlice(batch.req, endgame)
    THEN [req |-> GetOne(batch.req, endgame),
          slice_list |-> Append(batch.slice_list,
              CHOOSE i \in FirstRequest(batch.req, endgame) : TRUE)]
    ELSE batch

GetRequestLoop(req, want_num, endgame) ==
    LET batch[n \in 0..want_num] ==
            IF n = 0 THEN [req |-> req, slice_list |-> <<>>]
            ELSE Turn(batch[n - 1], endgame)
    IN  batch[want_num]

\* The loop leaves the table and returns the list that the closed form used by
\* the other modules says, from every table of four slices: no slice is
\* skipped, none is taken twice outside endgame, and in endgame one slice fills
\* the whole list (PieceManager.cpp 590-602).
ASSUME BatchIsLoop ==
    \A req \in [1..4 -> SliceState], want \in 1..4, endgame \in BOOLEAN :
        LET batch == GetRequestLoop(req, want, endgame) IN
        /\ batch.req = GetBatch(req, want, endgame)
        /\ \A i \in 1..4 :
              Cardinality({k \in DOMAIN batch.slice_list : batch.slice_list[k] = i}) =
                  IF i \in BatchSlices(req, want, endgame)
                  THEN BatchCopies(want, endgame) ELSE 0
=============================================================================
