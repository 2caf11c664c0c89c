---------------------------- MODULE MCPeerManager ----------------------------
(***************************************************************************)
(* Two peers to dial; the second address may be our own.  Connections come *)
(* in from 3: of the first of the peers, or our own.                       *)
(***************************************************************************)
EXTENDS PeerManager, TLC

Peers == <<{"a"}, {"b", "me"}, {"a", "me"}>>

\* Two peers to dial; the first also connects to us.
FewPeers == <<{"a"}, {"b"}, {"a"}>>

Threads == Permutations(Task)
=============================================================================
