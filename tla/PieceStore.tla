------------------------------ MODULE PieceStore ------------------------------
(***************************************************************************)
(* What Storage promises the PieceManager of a task, with no caches and no *)
(* files: each piece is a row of blocks, a slice is written at once and    *)
(* read as it was last written.  What was written may reach the disk at    *)
(* any later time, block by block; it certainly has when the piece was     *)
(* checked and flushed.  When the session ends, the rest is lost.          *)
(***************************************************************************)
CONSTANTS
    Block,   \* the blocks of each piece, by piece
    Slice,   \* the slices of each piece: sets of its blocks
    Data,    \* what a block may hold
    Good     \* what it should hold

VARIABLES
    data,    \* what the task sees
    durable, \* what is on the disk
    owned,   \* the pieces in the bitfield
    answer   \* what the last read returned, by block

vars == <<data, durable, owned, answer>>

Piece == DOMAIN Block

GoodPiece(contents, p) == \A b \in Block[p] : contents[p][b] = Good

None == [b \in {} |-> Good]

Init ==
    /\ data \in [Piece -> UNION {[Block[p] -> Data] : p \in Piece}]
    /\ \A p \in Piece : DOMAIN data[p] = Block[p]
    /\ durable = data /\ owned = {} /\ answer = None

Write(p, s, value) ==
    /\ p \notin owned
    /\ data' = [data EXCEPT ![p] = [b \in Block[p] |-> IF b \in s THEN value ELSE @[b]]]
    /\ answer' = None
    /\ UNCHANGED <<durable, owned>>

\* Only pieces in the bitfield are served.
Read(p, s) ==
    /\ p \in owned
    /\ answer' = [b \in s |-> data[p][b]]
    /\ UNCHANGED <<data, durable, owned>>

Accept(p) ==
    /\ GoodPiece(data, p)
    /\ owned' = owned \cup {p}
    /\ answer' = None
    /\ UNCHANGED <<data, durable>>

\* Some blocks of a piece reach the disk.
Sync(p, blocks) ==
    /\ durable' = [durable EXCEPT ![p] =
                      [b \in Block[p] |-> IF b \in blocks THEN data[p][b] ELSE @[b]]]
    /\ answer' = None
    /\ UNCHANGED <<data, owned>>

\* The session ends; the next one starts with pieces that were flushed.
Restart ==
    /\ data' = durable
    /\ owned' \in SUBSET {p \in owned : GoodPiece(durable, p)}
    /\ answer' = None
    /\ UNCHANGED durable

\* A hash check finds out what is on the disk.
Verify(p) ==
    /\ data = durable
    /\ owned' = IF GoodPiece(durable, p) THEN owned \cup {p} ELSE owned \ {p}
    /\ answer' = None
    /\ UNCHANGED <<data, durable>>

\* Nothing is asked, nothing changes but the answer.
Other == answer' = None /\ UNCHANGED <<data, durable, owned>>

Next ==
    \/ Restart \/ Other
    \/ \E p \in Piece :
          \/ Accept(p) \/ Verify(p)
          \/ \E blocks \in SUBSET Block[p] : Sync(p, blocks)
          \/ \E s \in Slice[p] : Read(p, s) \/ \E value \in Data : Write(p, s, value)

Spec == Init /\ [][Next]_vars
=============================================================================
