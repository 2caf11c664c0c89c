------------------------------- MODULE Streams -------------------------------
(***************************************************************************)
(* Streams of bytes and of items of a few bytes (ByteStream, DataStream)   *)
(* over a buffer in memory (MemStreamBuffer) or a file (FileStreamBuffer). *)
(*                                                                         *)
(* A stream is [of |-> "mem", buf] or [of |-> "file", sys, f].  Reading    *)
(* returns [s, got, throws].                                               *)
(***************************************************************************)
EXTENDS Integers, SequencesExt

CONSTANTS
    Junk,       \* what memory holds that was allocated and not written
    Wrap        \* 2^64: lengths have no sign

Mem == INSTANCE SimpleBuffer
File == INSTANCE FileSystem

OpenMem == [of |-> "mem", buf |-> Mem!NewBuffer]
OpenFile(sys, fname) ==
    LET r == File!Open(sys, File!Closed, fname, {"F_READ_WRITE", "F_OPEN_ALWAYS", "F_NOSHARED"})
    IN  [of |-> "file", sys |-> r.sys, f |-> r.f]

-----------------------------------------------------------------------------
(* The buffers.                                                            *)

MemPut(s, bytes) == [s EXCEPT !.buf = Mem!Insert(@, bytes)]
FilePut(s, bytes) == [s EXCEPT !.sys = File!Write(@, s.f, bytes).sys]
Put(s, bytes) == IF s.of = "mem" THEN MemPut(s, bytes) ELSE FilePut(s, bytes)

MemGet(s, n) ==
    LET len == IF n > Mem!Size(s.buf) THEN Mem!Size(s.buf) ELSE n
    IN  [s |-> [s EXCEPT !.buf = Mem!Erase(@, len)], got |-> SubSeq(Mem!Data(s.buf), 1, len)]
FileGet(s, n) ==
    LET r == File!Read(s.sys, s.f, n) IN [s |-> [s EXCEPT !.sys = r.sys], got |-> r.val]
Get(s, n) == IF s.of = "mem" THEN MemGet(s, n) ELSE FileGet(s, n)

FileAvailable(s) == (File!GetLength(s.sys, s.f) - File!GetPos(s.sys, s.f)) % Wrap
Available(s) == IF s.of = "mem" THEN Mem!Size(s.buf) ELSE FileAvailable(s)

MemSkip(s, n) == MemGet(s, n).s
\* A file skips nothing.
FileSkip(s, n) == s
Skip(s, n) == IF s.of = "mem" THEN MemSkip(s, n) ELSE FileSkip(s, n)

MemClear(s) == [s EXCEPT !.buf = Mem!NewBuffer]
FileClear(s) == LET r == File!Close(s.sys, s.f) IN [s EXCEPT !.sys = r.sys, !.f = r.f]
Clear(s) == IF s.of = "mem" THEN MemClear(s) ELSE FileClear(s)

SeekMethod(method) == IF method \in {"CURR", "END"} THEN method ELSE "BEG"
Seek(s, offset, method, forward) ==
    [s EXCEPT !.sys = File!Seek(@, s.f, offset, SeekMethod(method), forward).sys]
SeekToEnd(s) == Seek(s, 0, "END", TRUE)
SeekToBeg(s) == Seek(s, 0, "BEG", TRUE)

-----------------------------------------------------------------------------
(* The streams.  An item is [size, val]; in memory its lowest byte is      *)
(* first.                                                                  *)

ItemSize == [Bool |-> 1, WChar |-> 2, Char |-> 1, UChar |-> 1, Float |-> 4, Double |-> 8,
             Byte |-> 1, Int8 |-> 1, UInt8 |-> 1, Int16 |-> 2, UInt16 |-> 2,
             Int32 |-> 4, UInt32 |-> 4, Int64 |-> 8, UInt64 |-> 8]

InMemory(item) == [i \in 1..item.size |-> (item.val \div 256^(i - 1)) % 256]
ValueOf(bytes) == FoldRight(LAMBDA byte, val : 256 * val + byte, bytes, 0)

Write(s, bytes) == Put(s, bytes)
Read(s, n) == Get(s, n)

WriteItem(s, item) == Write(s, InMemory(item))
WriteArray(s, items) == Write(s, FlattenSeq([i \in DOMAIN items |-> InMemory(items[i])]))

Overflow(s) == [s |-> s, got |-> <<>>, throws |-> TRUE]
\* The bytes of tmp that nobody read keep what memory held.
ReadItem(s, size) ==
    LET r == Read(s, size)
        tmp == [i \in 1..size |-> IF i <= Len(r.got) THEN r.got[i] ELSE Junk]
    IN  IF Available(s) < size THEN Overflow(s)
        ELSE [s |-> r.s, got |-> <<ValueOf(tmp)>>, throws |-> FALSE]

ReadArray(s, size, len) ==
    LET Next(done, i) ==
            LET r == ReadItem(done.s, size) IN [r EXCEPT !.got = done.got \o @]
    IN  IF Available(s) < size * len THEN Overflow(s)
        ELSE FoldLeft(Next, [s |-> s, got |-> <<>>, throws |-> FALSE], [i \in 1..len |-> i])
=============================================================================
