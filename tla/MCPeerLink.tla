----------------------------- MODULE MCPeerLink -----------------------------
(***************************************************************************)
(* Two interchangeable peers and a torrent of two pieces, the second of    *)
(* two slices: with END_GAME_LINE = 2 the task is outside endgame while    *)
(* both pieces are missing and in endgame with one missing.                *)
(***************************************************************************)
EXTENDS PeerLink, TLC

MCSliceCount == [p \in 0..1 |-> p + 1]
Peers == Permutations(Link)
=============================================================================
