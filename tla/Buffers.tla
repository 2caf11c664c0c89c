------------------------------ MODULE Buffers -------------------------------
(***************************************************************************)
(* Three containers that grow or fill up: Buffer of Buffer.cpp, a ring;    *)
(* CBufferT of deelx.h, in which regular expressions are read, built and   *)
(* matched; TSDataFlow, a queue between threads.                           *)
(***************************************************************************)
EXTENDS Integers, Sequences

CONSTANTS
    Junk,       \* what memory holds that was allocated and not written
    MinSize,    \* the smallest block of a ring, 1024 in the code
    ToUpper(_)

-----------------------------------------------------------------------------
(* A block of memory used as a ring.  The data goes from the read cursor to*)
(* the write cursor or, when the write cursor has gone back to the start, to*)
(* read_end and on from the start.  A cursor is its distance to m_first; empty*)
(* tells an empty ring from a full one.                                    *)

Fresh(n) == [i \in 1..n |-> Junk]

\* mem with bytes at the distance at.
Put(mem, at, bytes) ==
    [i \in DOMAIN mem |-> IF i \in (at + 1)..(at + Len(bytes)) THEN bytes[i - at] ELSE mem[i]]
Part(b, from, to) == SubSeq(b.mem, from + 1, to)

Buffer(n) ==
    LET size == IF n >= MinSize THEN n ELSE MinSize
    IN  [mem |-> Fresh(size), read_cursor |-> 0, write_cursor |-> 0, read_end |-> size, empty |-> TRUE]

Capacity(b) == Len(b.mem)
InOnePart(b) == b.read_cursor < b.write_cursor

SpaceLeft(b) ==
    IF b.empty THEN Capacity(b)
    ELSE IF InOnePart(b) THEN (Capacity(b) - b.write_cursor) + b.read_cursor
    ELSE b.read_cursor - b.write_cursor

Size(b) ==
    IF InOnePart(b) THEN b.write_cursor - b.read_cursor
    ELSE IF b.empty THEN 0
    ELSE b.write_cursor + (b.read_end - b.read_cursor)

\* The one or two stretches of memory to read.
Data(b) ==
    IF InOnePart(b) THEN <<Part(b, b.read_cursor, b.write_cursor), <<>>>>
    ELSE IF b.read_cursor = b.read_end THEN <<Part(b, 0, b.write_cursor), <<>>>>
    ELSE <<Part(b, b.read_cursor, b.read_end), Part(b, 0, b.write_cursor)>>

\* A larger block; data in two parts is kept at its two ends.
Reserve(b, size) ==
    LET half == (Capacity(b) * 3) \div 2
        n == IF half < size THEN size ELSE half
        skip == n - Capacity(b)
        start == Put(Fresh(n), 0, Part(b, 0, b.write_cursor))
    IN  IF InOnePart(b)
        THEN [b EXCEPT !.mem = Put(Fresh(n), b.read_cursor, Part(b, b.read_cursor, b.write_cursor)),
                       !.read_end = b.write_cursor]
        ELSE [b EXCEPT !.mem = Put(start, b.read_cursor + skip, Part(b, b.read_cursor, Capacity(b))),
                       !.read_cursor = IF b.empty THEN b.write_cursor ELSE @ + skip,
                       !.read_end = IF b.empty THEN b.write_cursor ELSE @ + skip]

\* At the write cursor up to the end of the block, the rest at its start.
Insert(b, bytes) ==
    LET room == IF SpaceLeft(b) < Len(bytes) THEN Reserve(b, Capacity(b) + Len(bytes)) ELSE b
        left == Capacity(room) - room.write_cursor
        copied == IF left < Len(bytes) THEN left ELSE Len(bytes)
        rest == SubSeq(bytes, copied + 1, Len(bytes))
        write == room.write_cursor + copied
    IN  IF bytes = <<>> THEN b
        ELSE [room EXCEPT !.mem = Put(Put(@, room.write_cursor, SubSeq(bytes, 1, copied)), 0, rest),
                          !.write_cursor = IF rest = <<>> THEN write ELSE Len(rest),
                          !.read_end = IF write > @ THEN write ELSE @,
                          !.empty = FALSE]

\* n bytes in one part: behind the write cursor, at the start of the block, or
\* in a larger block.  The place ends at the new write cursor.
Allocate(b, n) ==
    LET Behind(c) == [c EXCEPT !.write_cursor = @ + n, !.read_end = c.write_cursor + n, !.empty = @ /\ n = 0]
        AtStart == [b EXCEPT !.write_cursor = n, !.read_end = b.write_cursor, !.empty = @ /\ n = 0]
        Between(c) == [c EXCEPT !.write_cursor = @ + n, !.empty = @ /\ n = 0]
        behind == Capacity(b) - b.write_cursor
        between == b.read_cursor - b.write_cursor
    IN  IF InOnePart(b) \/ b.empty
        THEN IF behind >= n THEN Behind(b)
             ELSE IF b.read_cursor >= n THEN AtStart
             ELSE Behind(Reserve(b, Capacity(b) + n - behind))
        ELSE IF between >= n THEN Between(b)
             ELSE Between(Reserve(b, Capacity(b) + n - between))

\* At most Size(b) bytes.
Erase(b, n) ==
    LET read == b.read_cursor + n
        around == IF read > b.read_end THEN read - b.read_end ELSE read
    IN  IF n = 0 THEN b ELSE [b EXCEPT !.read_cursor = around, !.empty = around = b.write_cursor]

\* What the assertions of the code say of the cursors.
CursorsInBlock(b) ==
    /\ b.write_cursor <= Capacity(b) /\ b.read_end <= Capacity(b)
    /\ b.read_cursor <= b.read_end \/ b.empty

-----------------------------------------------------------------------------
(* A sequence in a block of memory that grows, and a stack.  b is [mem, size],*)
(* of which the first size elements are the content.                       *)

Content(b) == SubSeq(b.mem, 1, b.size)

Empty == [mem |-> <<>>, size |-> 0]
TextBuffer(elements) == [mem |-> Append(elements, 0), size |-> Len(elements)]

\* A block of max elements that need more: twice as many, or a multiple of 8.
Grown(max, need) ==
    LET eight == IF max < 8 THEN 8 ELSE max
    IN  IF need <= eight THEN eight
        ELSE IF need <= 2 * eight THEN 2 * eight
        ELSE (need + 11) - ((need + 11) % 8)
WithRoom(b, n) ==
    IF n > Len(b.mem) THEN [b EXCEPT !.mem = Put(Fresh(n), 0, @)] ELSE b

Appended(b, elements, eol) ==
    LET room == WithRoom(b, Grown(Len(b.mem), b.size + Len(elements) + eol))
        end == IF eol > 0 THEN <<0>> ELSE <<>>
    IN  [room EXCEPT !.mem = Put(@, b.size, elements \o end), !.size = @ + Len(elements)]

Push(b, el) ==
    LET twice == IF Len(b.mem) * 2 < 8 THEN 8 ELSE Len(b.mem) * 2
        room == IF b.size >= Len(b.mem) THEN WithRoom(b, twice) ELSE b
    IN  [room EXCEPT !.mem = Put(@, b.size, <<el>>), !.size = @ + 1]
Pop(b) == IF b.size > 0 THEN [b EXCEPT !.size = @ - 1] ELSE b
Peek(b) == IF b.size > 0 THEN <<b.mem[b.size]>> ELSE <<>>

\* The element index is there from now on; what is new is fill.
Prepare(b, index, fill) ==
    LET room == IF index + 1 > Len(b.mem) THEN WithRoom(b, Grown(Len(b.mem), index + 1)) ELSE b
    IN  IF b.size > index THEN room
        ELSE [room EXCEPT !.mem = Put(@, b.size, [i \in 1..(index + 1 - b.size) |-> fill]), !.size = index + 1]
Restore(b, size) == [b EXCEPT !.size = size]
Detach(b) == Empty

\* The element at an index, or def behind the content.
At(b, index, def) == IF index >= b.size THEN def ELSE b.mem[index + 1]

\* With a text that ends with 0; 0 says that they are the same.
Same(x, y, nocase) == x = y \/ (nocase /\ ToUpper(x) = ToUpper(y))
nCompare(b, text, nocase) ==
    IF \A i \in 1..b.size : Same(b.mem[i], text[i], nocase) THEN 0 ELSE 1
Compare(b, text, nocase) == IF nCompare(b, text, nocase) # 0 THEN 1 ELSE text[b.size + 1]
CompareRef(b, c, nocase) == IF b.size = c.size THEN nCompare(b, c.mem, nocase) ELSE 1

-----------------------------------------------------------------------------
(* TSDataFlow has two marks: who takes waits until it holds lo items, who puts*)
(* waits while it holds hi.  The program does not use it.  A definition is what*)
(* one call does with the mutex held, until it returns or waits; woken counts*)
(* the threads that its signals let go on, one for each signal.            *)

NewFlow(hi_mark, lo_mark) ==
    LET lo == IF lo_mark = 0 THEN 1 ELSE lo_mark
    IN  [hi |-> IF hi_mark < lo THEN lo ELSE hi_mark, lo |-> lo, queue |-> <<>>,
         woken |-> [hi |-> 0, lo |-> 0], returned |-> TRUE]

Called(f) == [f EXCEPT !.woken = [hi |-> 0, lo |-> 0], !.returned = TRUE]

notify_dequeue(f) == IF Len(f.queue) >= f.lo THEN [f EXCEPT !.woken.lo = @ + 1] ELSE f
notify_enqueue(f) == IF Len(f.queue) < f.hi THEN [f EXCEPT !.woken.hi = @ + 1] ELSE f

LowWaterMark(f, mark) ==
    LET lo == IF mark < 1 THEN 1 ELSE mark
        moved == f.hi < lo
        kept == notify_dequeue([Called(f) EXCEPT !.lo = lo, !.hi = IF moved THEN lo ELSE @])
    IN  IF moved THEN notify_enqueue(kept) ELSE kept

HighWaterMark(f, mark) ==
    notify_enqueue([Called(f) EXCEPT !.hi = IF mark < f.lo THEN f.lo ELSE mark])

CanPut(f) == Len(f.queue) < f.hi
CanTake(f) == Len(f.queue) >= f.lo
PutItem(f, data) == notify_dequeue([f EXCEPT !.queue = Append(@, data)])
TakeItem(f) == notify_enqueue([f EXCEPT !.queue = Tail(@)])

\* Nothing leaves the loop: the item is put until the queue is full, and
\* items are taken until there are too few.
Enqueue(f, data) ==
    LET Filled[n \in Nat] == IF n = 0 THEN Called(f) ELSE PutItem(Filled[n - 1], data)
        room == IF CanPut(f) THEN f.hi - Len(f.queue) ELSE 0
    IN  [Filled[room] EXCEPT !.returned = FALSE]

Dequeue(f) ==
    LET Left[n \in Nat] == IF n = 0 THEN Called(f) ELSE TakeItem(Left[n - 1])
        found == IF CanTake(f) THEN Len(f.queue) - f.lo + 1 ELSE 0
    IN  [Left[found] EXCEPT !.returned = FALSE]

\* With a time to wait, as far as the wait; woken in time it is tried again.
EnqueueFor(f, data) ==
    IF CanPut(f) THEN PutItem(Called(f), data) ELSE [Called(f) EXCEPT !.returned = FALSE]
DequeueFor(f) ==
    IF CanTake(f) THEN TakeItem(Called(f)) ELSE [Called(f) EXCEPT !.returned = FALSE]

\* The time left of a wait that was woken, 0 when it was too late.
TimeLeft(left, elapsed) == IF elapsed >= left THEN 0 ELSE left - elapsed

Clear(f) == notify_enqueue([Called(f) EXCEPT !.queue = <<>>])
QueueSize(f) == Len(f.queue)
IsEmpty(f) == QueueSize(f) = 0
=============================================================================
