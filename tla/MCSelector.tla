----------------------------- MODULE MCSelector -----------------------------
(***************************************************************************)
(* The selector with two handlers and two handles; PeerIO, whose input it  *)
(* dispatches, with headers of two bytes; and the buffers of Buffers after *)
(* all sequences of a few calls: rings of three bytes and more, so that a  *)
(* few bytes go round, elements 0, 1 and 2 that grow a block of eight      *)
(* twice, and a queue with marks up to three.                              *)
(***************************************************************************)
EXTENDS Selector, Sequences

LOCAL INSTANCE SequencesExt

IO == INSTANCE PeerMessages WITH
          Junk <- "junk", Base <- 3, HeaderLength <- 2, MaxMessage <- 2, NBits <- 1, MaxRequest <- 1
Upper(x) == IF x = 2 THEN 1 ELSE x
B == INSTANCE Buffers WITH Junk <- 9, MinSize <- 3, ToUpper <- Upper

-----------------------------------------------------------------------------
(* PeerIO and its buffer.                                                  *)

\* The stream in reads that end after the bytes in cuts, and after the last one.
Reads(stream, cuts) ==
    LET ends == IO!SetToSortSeq(cuts \cup {Len(stream)}, <)
    IN  [k \in DOMAIN ends |->
            SubSeq(stream, 1 + (IF k = 1 THEN 0 ELSE ends[k - 1]), ends[k])]

\* However a stream is cut into reads, the link sends its task the same events:
\* the messages of the stream, none lost, split or made up; and it aborts at
\* the length that is too large and never else (PeerIO.cpp 71-105).
ASSUME FramingExact ==
    \A n \in 1..6 : \A stream \in [1..n -> 0..2], cuts \in SUBSET (1..n - 1) :
        IO!IsFramingOf(IO!Received(Reads(stream, cuts)), stream)

\* One call on the buffer, and on the queue of bytes it stands for: the bytes
\* inserted are new, n of them; n are erased, or room for n is reserved.
Operation == {"insert", "erase", "reserve"} \X {1, 2, 4}

Called(now, call) ==
    LET op == call[1]  n == call[2]
        bytes == [i \in 1..n |-> now.made + i]
    IN  CASE op = "insert"  -> [buf |-> IO!Insert(now.buf, bytes),
                                queue |-> now.queue \o bytes, made |-> now.made + n]
          [] op = "erase"   -> [now EXCEPT !.buf = IO!Erase(@, n),
                                           !.queue = SubSeq(@, n + 1, Len(@))]
          [] op = "reserve" -> [now EXCEPT !.buf = IO!Reserve(@, n)]

\* After any calls the buffer holds the bytes inserted and not erased, in
\* order, wherever they were moved in memory, and reserving makes the room
\* asked for (Buffer.cpp 374-516).
ASSUME BufferIsQueue ==
    \A calls \in [1..5 -> Operation] :
        LET now == IO!FoldLeft(Called,
                       [buf |-> IO!NewBuffer, queue |-> <<>>, made |-> 0], calls)
        IN  /\ IO!CursorsInBlock(now.buf)
            /\ IO!Data(now.buf) = now.queue
            /\ \A n \in {1, 2, 4} : IO!Room(IO!Reserve(now.buf, n)) >= n

-----------------------------------------------------------------------------
\* What is reached from the states of first in n steps of Steps.
Reached(Steps(_), first, n) ==
    FoldLeft(LAMBDA found, i : found \cup UNION {Steps(s) : s \in found}, first, [i \in 1..n |-> i])
Numbered(made, n) == [i \in 1..n |-> (made + i) % 4]

-----------------------------------------------------------------------------
(* The ring, and the queue of bytes it stands for.                         *)

InsertStep(s, n) ==
    LET bytes == Numbered(s.made, n)
    IN  [b |-> B!Insert(s.b, bytes), queue |-> s.queue \o bytes, made |-> (s.made + n) % 4]

\* Allocate, and what the caller writes into the place.
AllocateStep(s, n) ==
    LET bytes == Numbered(s.made, n)
        room == B!Allocate(s.b, n)
    IN  [b |-> [room EXCEPT !.mem = B!Put(@, room.write_cursor - n, bytes)],
         queue |-> s.queue \o bytes, made |-> (s.made + n) % 4]

EraseStep(s, n) == [s EXCEPT !.b = B!Erase(@, n), !.queue = SubSeq(@, n + 1, Len(@))]

RingSteps(s) ==
    {InsertStep(s, n) : n \in {1, 2, 4}} \cup {AllocateStep(s, n) : n \in {1, 2}}
    \cup {EraseStep(s, n) : n \in {1, 2, Len(s.queue)} \cap 0..Len(s.queue)}
    \cup {[s EXCEPT !.b = B!Reserve(@, B!Capacity(@) + 1)]}

\* After any calls the ring holds the bytes put into it and not erased, in
\* order, whichever way they lie round the block and however often it grew,
\* and it is empty when there are none (Buffer.cpp 61-344).  Data of an empty
\* ring may show the whole block (268-281).
ASSUME RingIsQueue ==
    \A s \in Reached(RingSteps, {[b |-> B!Buffer(0), queue |-> <<>>, made |-> 0]}, 5) :
        LET parts == B!Data(s.b)
        IN  /\ ~s.b.empty => parts[1] \o parts[2] = s.queue
            /\ B!Size(s.b) = Len(s.queue) /\ (s.b.empty <=> s.queue = <<>>)
            /\ B!SpaceLeft(s.b) + B!Size(s.b) <= B!Capacity(s.b)
            /\ B!CursorsInBlock(s.b)

-----------------------------------------------------------------------------
(* The growing block, and the sequence it stands for.                      *)

AppendStep(s, n, eol) ==
    [b |-> B!Appended(s.b, Numbered(0, n), eol), list |-> s.list \o Numbered(0, n)]
PrepareStep(s, index) ==
    [b |-> B!Prepare(s.b, index, 0),
     list |-> s.list \o [i \in 1..(IF index < Len(s.list) THEN 0 ELSE index + 1 - Len(s.list)) |-> 0]]
GrowSteps(s) ==
    {AppendStep(s, n, eol) : n \in {0, 1, 7, 20}, eol \in {0, 1}}
    \cup {PrepareStep(s, index) : index \in {0, 7, 8, 16}}
    \cup {[b |-> B!Push(s.b, 1), list |-> Append(s.list, 1)]}
    \cup {[b |-> B!Pop(s.b), list |-> IF s.list = <<>> THEN <<>> ELSE Front(s.list)]}
    \cup {[b |-> B!Restore(s.b, n), list |-> SubSeq(s.list, 1, n)] : n \in {0, Len(s.list) \div 2}}
    \cup {[b |-> B!Detach(s.b), list |-> <<>>]}
Starts == {[b |-> B!Empty, list |-> <<>>], [b |-> B!TextBuffer(<<1, 2>>), list |-> <<1, 2>>]}

\* After any calls the block holds what was put into it and not taken away, in
\* its room; the last one is what Peek shows; and no place outside the content
\* is read (deelx.h 119-127, 184-359).
ASSUME GrowsAsNeeded ==
    \A s \in Reached(GrowSteps, Starts, 4) :
        /\ s.b.size <= Len(s.b.mem) /\ B!Content(s.b) = s.list
        /\ B!Peek(s.b) = IF s.list = <<>> THEN <<>> ELSE <<Last(s.list)>>
        /\ \A index \in {0, 1, 8, 40} :
              B!At(s.b, index, 0) = IF index < Len(s.list) THEN s.list[index + 1] ELSE 0

Texts == UNION {[1..n -> 0..2] : n \in 0..3}

\* A buffer and a text compare as 0 when they are the same, or the same but for
\* the case, and the text of a buffer with a 0 in it is never that (74-117).
ASSUME ComparesText ==
    \A content, text \in Texts, nocase \in BOOLEAN :
        LET b == B!TextBuffer(content)
            same == Len(content) = Len(text)
                    /\ \A i \in DOMAIN text : IF nocase THEN Upper(content[i]) = Upper(text[i]) ELSE content[i] = text[i]
        IN  /\ B!CompareRef(b, B!TextBuffer(text), nocase) = 0 <=> same
            /\ 0 \notin ToSet(text) /\ 0 \notin ToSet(content) =>
                  (B!Compare(b, text \o <<0>>, nocase) = 0 <=> same)

-----------------------------------------------------------------------------
(* The queue with two marks.                                               *)

FlowSteps(f) ==
    {B!LowWaterMark(f, n) : n \in {0, 2, 3}} \cup {B!HighWaterMark(f, n) : n \in {1, 3}}
    \cup {B!EnqueueFor(f, 1), B!DequeueFor(f), B!Enqueue(f, 2), B!Dequeue(f), B!Clear(f)}
Flows == Reached(FlowSteps, {B!NewFlow(hi, lo) : hi \in {0, 2}, lo \in {0, 1, 2}}, 3)

\* Whatever is called, the marks stay in order, and when a call makes it
\* possible to put or to take, a thread that waits for that is woken
\* (TSDataFlow.cpp 23-97, 212-217).
ASSUME WaitersAreWoken ==
    \A f \in Flows : \A g \in FlowSteps(f) :
        /\ 1 <= g.lo /\ g.lo <= g.hi
        /\ ~B!CanTake(f) /\ B!CanTake(g) => g.woken.lo > 0
        /\ ~B!CanPut(f) /\ B!CanPut(g) => g.woken.hi > 0

\* Only one of them is: when a full queue is cleared one of the threads that
\* wait to put goes on, and the others wait on at an empty queue
\* (TSDataFlow.cpp 212-217).
ASSUME OneIsWoken ==
    \A f \in Flows : ~B!CanPut(f) => B!Clear(f).woken.hi = 1

\* Without a time to wait nothing returns: one Enqueue fills the queue with
\* the same item and one Dequeue loses all it took but the last
\* (TSDataFlow.cpp 99-134).
ASSUME NeverReturns ==
    \A f \in Flows :
        /\ LET g == B!Enqueue(f, 7) IN ~g.returned /\ B!QueueSize(g) >= f.hi
        /\ LET g == B!Dequeue(f) IN ~g.returned /\ B!QueueSize(g) < f.lo

\* A call with a time to wait moves one item and returns, or waits and leaves
\* the queue as it is; time spent in waits does not come back (136-210).
ASSUME OneAtATime ==
    /\ \A f \in Flows : \A g \in {B!EnqueueFor(f, 7), B!DequeueFor(f)} :
           IF g.returned THEN B!QueueSize(g) - B!QueueSize(f) \in {-1, 1} ELSE g.queue = f.queue
    /\ \A left \in 0..4, passed \in 0..5 : B!TimeLeft(left, passed) <= left
=============================================================================
