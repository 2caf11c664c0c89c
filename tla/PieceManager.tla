---------------------------- MODULE PieceManager ----------------------------
(***************************************************************************)
(* Class PieceManager: which pieces of a torrent are held, which are under *)
(* download, how many connected peers own each, and the index m_interests  *)
(* that lists the unfinished pieces by that number so that the rarest (or, *)
(* at the very start, the most common) free piece is found first.          *)
(*                                                                         *)
(* The object lives in the worker thread of its task, so its operations do *)
(* not interleave; what is hard is that the index, the piece states, the   *)
(* have counts and the request tables are four redundant views that every  *)
(* operation has to keep in step.  Positions count from 1 here and from 0  *)
(* in the code; NONE_POS is 0 here.                                        *)
(***************************************************************************)
EXTENDS Pieces, Sequences

CONSTANTS
    MaxHave,   \* bound: peers connected at once
    MaxWant    \* bound: want_num of one GetRequest

ASSUME PieceManagerAssumption ==
    /\ MaxHave \in Nat \ {0}
    /\ MaxWant \in Nat \ {0}

VARIABLES
    bitfield,     \* m_bitfield: the pieces held
    state,        \* m_pieces_info[p].state
    have,         \* m_pieces_info[p].have
    slice,        \* the request tables of m_started_pieces
    started,      \* the keys of m_started_pieces
    interests,    \* m_interests: bucket h lists the unfinished pieces with have = h
    top,          \* m_interests.size() - 1
    pos,          \* m_pos_in_interests
    is_endgame,   \* m_is_endgame
    walk          \* the bitfield IncreaseHave / DecreaseHave is going through

vars == <<bitfield, state, have, slice, started, interests, top, pos,
          is_endgame, walk>>
index == <<interests, top, pos>>

P_FREE == "P_FREE"
P_DOWNLOADING == "P_DOWNLOADING"
P_DONE == "P_DONE"
NONE_POS == 0

Idle == [op |-> "none", left |-> {}]

----------------------------------------------------------------------------
(* Initial state: the constructor and ResetPiecesInfo.                      *)

\* The lists random_shuffle can make of a set.
Shuffles(S) == Bijection(1..Cardinality(S), S)

\* The position of every unfinished piece in a list, NONE_POS for the others.
PosIn(s) ==
    [p \in Piece |-> IF \E i \in DOMAIN s : s[i] = p
                     THEN CHOOSE i \in DOMAIN s : s[i] = p
                     ELSE NONE_POS]

Init ==
    /\ bitfield \in SUBSET Piece
    /\ state = [p \in Piece |-> IF p \in bitfield THEN P_DONE ELSE P_FREE]
    /\ have = [p \in Piece |-> 0]
    /\ slice = NoRequests
    /\ started = {}
    /\ \E s \in Shuffles(Piece \ bitfield) :
          /\ interests = [b \in 0..0 |-> s]
          /\ pos = PosIn(s)
    /\ top = 0
    /\ is_endgame = NeedEndgame(bitfield)
    /\ walk = Idle

----------------------------------------------------------------------------
(* The index.                                                               *)

\* Erase position i of a list by moving its last entry there.
SwapRemove(s, i) ==
    [j \in 1 .. Len(s) - 1 |-> IF j = i THEN s[Len(s)] ELSE s[j]]

\* m_interests.push_back(empty).
Grown == [b \in 0 .. top + 1 |-> IF b \in 0..top THEN interests[b] ELSE <<>>]

\* Faulty variant: the piece moved into the hole keeps its old position.
ShiftOverForgets(p, bs, from, to) ==
    /\ interests' = [bs EXCEPT ![from] = SwapRemove(@, pos[p]),
                               ![to] = Append(@, p)]
    /\ pos' = [pos EXCEPT ![p] = Len(bs[to]) + 1]

\* shift_over: p leaves bucket `from' of the buckets bs and is the last of bucket `to'.
ShiftOver(p, bs, from, to) ==
    /\ interests' = [bs EXCEPT ![from] = SwapRemove(@, pos[p]),
                               ![to] = Append(@, p)]
    /\ pos' = [pos EXCEPT ![bs[from][Len(bs[from])]] = pos[p],
                          ![p] = Len(bs[to]) + 1]

IncreaseHaveOf(p) ==
    /\ have' = [have EXCEPT ![p] = @ + 1]
    /\ IF state[p] = P_DONE
       THEN UNCHANGED index
       ELSE IF have[p] = top
            THEN /\ top' = top + 1
                 /\ ShiftOver(p, Grown, have[p], have[p] + 1)
            ELSE /\ UNCHANGED top
                 /\ ShiftOver(p, interests, have[p], have[p] + 1)

\* Faulty variant: the zero check is passed by a piece that is done.
DecreaseHaveOfUnchecked(p) ==
    IF state[p] = P_DONE
    THEN have' = [have EXCEPT ![p] = @ - 1] /\ UNCHANGED index
    ELSE IF have[p] = 0
         THEN UNCHANGED <<have, index>>
         ELSE /\ have' = [have EXCEPT ![p] = @ - 1]
              /\ UNCHANGED top
              /\ ShiftOver(p, interests, have[p], have[p] - 1)

DecreaseHaveOf(p) ==
    IF have[p] = 0
    THEN UNCHANGED <<have, index>>
    ELSE /\ have' = [have EXCEPT ![p] = @ - 1]
         /\ UNCHANGED top
         /\ IF state[p] = P_DONE
            THEN UNCHANGED <<interests, pos>>
            ELSE ShiftOver(p, interests, have[p], have[p] - 1)

----------------------------------------------------------------------------
(* Operations.                                                              *)

\* IncreaseHave of a bitfield, or of one piece, and DecreaseHave of a
\* bitfield: called by a link for what its peer says it owns.
IncreaseHave(bitf) ==
    /\ walk = Idle
    /\ bitf # {}
    /\ \A p \in bitf : have[p] < MaxHave
    /\ walk' = [op |-> "increase", left |-> bitf]
    /\ UNCHANGED <<bitfield, state, have, slice, started, index, is_endgame>>

DecreaseHave(bitf) ==
    /\ walk = Idle
    /\ bitf # {}
    /\ walk' = [op |-> "decrease", left |-> bitf]
    /\ UNCHANGED <<bitfield, state, have, slice, started, index, is_endgame>>

\* One turn of their loops: the pieces are taken in index order.
WalkBit ==
    /\ walk.left # {}
    /\ \E p \in walk.left :
          /\ \A q \in walk.left : p <= q
          /\ IF walk.op = "increase" THEN IncreaseHaveOf(p) ELSE DecreaseHaveOf(p)
          /\ walk' = IF walk.left = {p} THEN Idle
                     ELSE [walk EXCEPT !.left = @ \ {p}]
    /\ UNCHANGED <<bitfield, state, slice, started, is_endgame>>

\* get_req_piece_rarely and get_req_piece_mostly: the entries <<bucket, position>>
\* they may stop at, bucket 0 left out, and the entry each stops at first.
Entries == UNION {{<<b, i>> : i \in 1..Len(interests[b])} : b \in 1..top}
FreeEntries(own) ==
    {e \in Entries : /\ interests[e[1]][e[2]] \in own
                     /\ state[interests[e[1]][e[2]]] = P_FREE}

Rarely(E) == {e \in E : \A f \in E : e[1] < f[1] \/ (e[1] = f[1] /\ e[2] <= f[2])}
Mostly(E) == {e \in E : \A f \in E : e[1] > f[1] \/ (e[1] = f[1] /\ e[2] <= f[2])}

\* Faulty variant: the two orders are swapped.
ReqPieceSwapped(own) ==
    {interests[e[1]][e[2]] :
        e \in IF BarelyBegun(bitfield) THEN Rarely(FreeEntries(own))
              ELSE Mostly(FreeEntries(own))}

ReqPiece(own) ==
    {interests[e[1]][e[2]] :
        e \in IF BarelyBegun(bitfield) THEN Mostly(FreeEntries(own))
              ELSE Rarely(FreeEntries(own))}

\* The piece get_best_downloading returns, if it returns one.
BestDownloading(own) ==
    LET S == Continuable(own, started, have, slice, is_endgame)
    IN  IF S # {} THEN MostOwned(S, have) ELSE ReqPiece(own)

\* GetRequest of a list of want_num slices, when it does not return false.
GetRequest(own, want_num) ==
    /\ walk = Idle
    /\ \E p \in BestDownloading(own) :
          /\ state' = [state EXCEPT ![p] = P_DOWNLOADING]
          /\ started' = started \cup {p}
          /\ slice' = [slice EXCEPT ![p] = GetBatch(@, want_num, is_endgame)]
    /\ UNCHANGED <<bitfield, have, index, is_endgame, walk>>

\* Faulty variant: the check is made before the piece is recorded.
EndgameAfterStale(held) == is_endgame \/ NeedEndgame(bitfield)

\* m_is_endgame after the piece that makes `held' was obtained.
EndgameAfter(held) == is_endgame \/ NeedEndgame(held)

\* SliceCompleted, when RequestCompleted accepts the slice.  valid is the
\* answer of CheckPiece, asked when this was the last slice of the piece.
SliceCompleted(p, i, valid) ==
    /\ walk = Idle
    /\ p \in started
    /\ CanComplete(slice[p], i)
    /\ LET req == RequestCompleted(slice[p], i) IN
       IF ~IsCompleted(req)
       THEN /\ slice' = [slice EXCEPT ![p] = req]
            /\ UNCHANGED <<bitfield, state, started, index, is_endgame>>
       ELSE /\ slice' = [slice EXCEPT ![p] = Reset(SliceCount[p])]
            /\ started' = started \ {p}
            /\ IF valid
               THEN LET list == interests[have[p]] IN
                    /\ state' = [state EXCEPT ![p] = P_DONE]
                    /\ interests' = [interests EXCEPT ![have[p]] = SwapRemove(@, pos[p])]
                    /\ pos' = [pos EXCEPT ![list[Len(list)]] = pos[p], ![p] = NONE_POS]
                    /\ bitfield' = bitfield \cup {p}
                    /\ is_endgame' = EndgameAfter(bitfield')
                    /\ UNCHANGED top
               ELSE /\ state' = [state EXCEPT ![p] = P_FREE]
                    /\ UNCHANGED <<bitfield, index, is_endgame>>
    /\ UNCHANGED <<have, walk>>

\* Faulty variants: the piece is freed but stays in m_started_pieces, or it is
\* not freed at all.
AbortRequestKeepsStarted(p, i) ==
    /\ walk = Idle
    /\ p \in started
    /\ CanAbort(slice[p], i)
    /\ slice' = [slice EXCEPT ![p] = AbortRequests(@, {i})]
    /\ state' = [state EXCEPT ![p] = IF NotRequested(slice'[p]) THEN P_FREE ELSE @]
    /\ UNCHANGED <<bitfield, started, have, index, is_endgame, walk>>

AbortRequestNeverFrees(p, i) ==
    /\ walk = Idle
    /\ p \in started
    /\ CanAbort(slice[p], i)
    /\ slice' = [slice EXCEPT ![p] = AbortRequests(@, {i})]
    /\ UNCHANGED <<bitfield, state, started, have, index, is_endgame, walk>>

\* AbortRequest, when the slice is outstanding: a piece with nothing left
\* outstanding or received goes back to the free ones.
AbortRequest(p, i) ==
    /\ walk = Idle
    /\ p \in started
    /\ CanAbort(slice[p], i)
    /\ slice' = [slice EXCEPT ![p] = AbortRequests(@, {i})]
    /\ IF NotRequested(slice'[p])
       THEN /\ state' = [state EXCEPT ![p] = P_FREE]
            /\ started' = started \ {p}
       ELSE UNCHANGED <<state, started>>
    /\ UNCHANGED <<bitfield, have, index, is_endgame, walk>>

Next ==
    \/ \E bitf \in SUBSET Piece : IncreaseHave(bitf)
    \/ \E bitf \in SUBSET Piece : DecreaseHave(bitf)
    \/ WalkBit
    \/ \E own \in SUBSET Piece, want_num \in 1..MaxWant : GetRequest(own, want_num)
    \/ \E p \in Piece : \E i \in 1..SliceCount[p] :
          \/ \E valid \in BOOLEAN : SliceCompleted(p, i, valid)
          \/ AbortRequest(p, i)

Spec == Init /\ [][Next]_vars

----------------------------------------------------------------------------
(* Properties.                                                              *)

\* Every variable has the shape of the field it models.
TypeOK ==
    /\ bitfield \in SUBSET Piece
    /\ state \in [Piece -> {P_FREE, P_DOWNLOADING, P_DONE}]
    /\ have \in [Piece -> Nat]
    /\ DOMAIN slice = Piece
    /\ \A p \in Piece : slice[p] \in [1..SliceCount[p] -> SliceState]
    /\ started \in SUBSET Piece
    /\ top \in Nat
    /\ interests \in [0..top -> Seq(Piece)]
    /\ pos \in [Piece -> Nat]
    /\ is_endgame \in BOOLEAN
    /\ walk \in [op : {"none", "increase", "decrease"}, left : SUBSET Piece]

\* Every entry of the index is an unfinished piece, in the bucket of its have
\* count and at the position recorded for it ...
EntriesSound ==
    \A b \in 0..top : \A i \in 1..Len(interests[b]) :
        /\ state[interests[b][i]] # P_DONE
        /\ have[interests[b][i]] = b
        /\ pos[interests[b][i]] = i

\* ... and every unfinished piece is found where its record says.
EntriesComplete ==
    \A p \in Piece : state[p] # P_DONE =>
        /\ have[p] \in 0..top
        /\ pos[p] \in 1..Len(interests[have[p]])
        /\ interests[have[p]][pos[p]] = p

\* m_interests and m_pos_in_interests stay inverse to each other through every
\* swap-remove of shift_over and SliceCompleted (the assert of shift_over,
\* PieceManager.cpp 350-351, and the read of m_interests[have], 675).
IndexConsistent == EntriesSound /\ EntriesComplete

\* The asserts of PieceIsCompleted (816, 820) and of get_best_downloading (545,
\* 573): the bitfield is the set of the P_DONE pieces, m_started_pieces that of
\* the P_DOWNLOADING ones.
StatesAgree ==
    /\ bitfield = {p \in Piece : state[p] = P_DONE}
    /\ started = {p \in Piece : state[p] = P_DOWNLOADING}

\* A piece is under download exactly as long as something of it was asked for
\* or received and something is missing: none is left started with nothing
\* asked for (it could no longer be chosen by rarity) or with nothing missing
\* (no slice would ever arrive to finish it).
NoStuckPiece ==
    /\ \A p \in started : ~NotRequested(slice[p]) /\ ~IsCompleted(slice[p])
    /\ \A p \in Piece \ started : NotRequested(slice[p])

\* Endgame is on exactly when fewer than END_GAME_LINE pieces are missing,
\* whichever of ResetPiecesInfo and SliceCompleted brought that about.
EndgameExact == is_endgame <=> NeedEndgame(bitfield)

\* A piece newly started for a peer is one it owns and, among the free ones it
\* owns, has the fewest owners - or the most, while less than 5% is held: what
\* the index is for, stated on the have counts and not on the index.
StartsByRarity ==
    [][\A own \in SUBSET Piece, want_num \in 1..MaxWant :
         GetRequest(own, want_num) =>
           \A p \in started' \ started :
             /\ p \in own
             /\ \A q \in own : state[q] = P_FREE /\ have[q] > 0 =>
                   IF BarelyBegun(bitfield) THEN have[q] <= have[p] ELSE have[p] <= have[q]]_vars
=============================================================================
