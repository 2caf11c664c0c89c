---------------------------- MODULE SimpleBuffer ----------------------------
(***************************************************************************)
(* SimpleBuffer: one block of memory with a read and a write cursor.  What *)
(* is read leaves a hole before the read cursor; data is inserted behind   *)
(* the write cursor, after it was moved over the hole or to a larger block *)
(* when the block has no room there.  A cursor is its distance to m_first. *)
(***************************************************************************)
EXTENDS Naturals, Sequences

CONSTANT Junk    \* what memory holds that was allocated and not written

NewBuffer == [mem |-> <<>>, read_cursor |-> 0, write_cursor |-> 0]

Size(b) == b.write_cursor - b.read_cursor
Data(b) == SubSeq(b.mem, b.read_cursor + 1, b.write_cursor)
Room(b) == Len(b.mem) - b.write_cursor
Capacity(b) == Room(b) + b.read_cursor

\* The unread data at the start of a block of n bytes whose contents were mem.
AtStart(b, mem) ==
    [mem |-> Data(b) \o SubSeq(mem, Size(b) + 1, Len(mem)),
     read_cursor |-> 0, write_cursor |-> Size(b)]

CanMove(b, len) ==
    /\ b.mem # <<>>
    /\ b.read_cursor >= Size(b)      \* memcpy, so they must not overlap
    /\ Room(b) + b.read_cursor >= len

MoveInternal(b) == AtStart(b, b.mem)

IncreaseCapability(b, len) == AtStart(b, [i \in 1..Len(b.mem) + len |-> Junk])

WithRoom(b, len) ==
    IF b.write_cursor # Len(b.mem) /\ Room(b) >= len THEN b
    ELSE IF CanMove(b, len) THEN MoveInternal(b)
    ELSE IncreaseCapability(b, len)

Allocate(b, len) ==
    LET room == WithRoom(b, len)
    IN  [room EXCEPT !.write_cursor = @ + len]

\* Insert, and Allocate followed by a Recv into the place it returned.
Insert(b, bytes) ==
    LET place == Allocate(b, Len(bytes))
        start == place.write_cursor - Len(bytes)
    IN  [place EXCEPT !.mem =
            [i \in DOMAIN @ |-> IF i \in start + 1..start + Len(bytes)
                                THEN bytes[i - start] ELSE @[i]]]

Erase(b, n) == [b EXCEPT !.read_cursor = IF Size(b) < n THEN b.write_cursor ELSE @ + n]

Reserve(b, len) ==
    IF CanMove(b, len) THEN MoveInternal(b)
    ELSE IncreaseCapability(b, IF len < Capacity(b) THEN 0 ELSE len - Capacity(b))

\* What the assertions of the code say of the cursors.
CursorsInBlock(b) == b.read_cursor <= b.write_cursor /\ b.write_cursor <= Len(b.mem)
=============================================================================
