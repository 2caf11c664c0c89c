------------------------------- MODULE Storage -------------------------------
(***************************************************************************)
(* The data of a task: pieces that lie across files one after the other,   *)
(* a write cache and a read cache of whole pieces over them, and the calls *)
(* the worker makes: slices are written, a complete piece is checked and   *)
(* flushed, pieces of the bitfield are read for peers, the cache size      *)
(* changes.                                                                *)
(*                                                                         *)
(* One call at a time, but each write to a file is a step: it may throw,   *)
(* or the program may die, and then only the files are left.  A block is   *)
(* the unit of all lengths and offsets.                                    *)
(***************************************************************************)
EXTENDS Integers, FiniteSets, SequencesExt

CONSTANTS
    FileLength,    \* the lengths of the files of the torrent, in order
    PieceLength,   \* GetPieceLength()
    SliceLength,   \* SLICE_LENGTH
    CacheSizes,    \* the values of the setting MaxCacheSize
    MinCacheSize,  \* MIN_STORAGE_CACHE_SIZE
    Data, Good     \* what a block may hold, and what it should

TotalSize == FoldSeq(+, 0, FileLength)

ASSUME StorageAssumption ==
    /\ FileLength \in Seq(Nat) /\ TotalSize \in Nat \ {0}
    /\ PieceLength \in Nat \ {0} /\ SliceLength \in Nat \ {0}
    /\ CacheSizes \subseteq Nat /\ MinCacheSize \in Nat /\ Good \in Data

VARIABLES
    disk,          \* the contents of the files, one after the other
    write_cache, read_cache,
    is_open,       \* is there a worker with an open Storage?
    call,          \* what the worker is doing
    flushing,      \* the piece FlushPiece writes, and the files still to write
    bitfield,      \* m_bitfield of PieceManager; of the Downloader when closed
    received,      \* the slices COMPLETED of started pieces
    answer         \* what the last ReadData returned, by block

caches == <<write_cache, read_cache>>
vars == <<disk, caches, is_open, call, flushing, bitfield, received, answer>>

Piece == 0..(TotalSize - 1) \div PieceLength

GetPieceLength(p) ==
    IF (p + 1) * PieceLength <= TotalSize THEN PieceLength ELSE TotalSize - p * PieceLength

Block == [p \in Piece |-> 0..GetPieceLength(p) - 1]
SliceAt(p, start) == {b \in Block[p] : b \in start..start + SliceLength - 1}
Slice == [p \in Piece |->
             {SliceAt(p, start) : start \in {b \in Block[p] : b % SliceLength = 0}}]

Idle == [op |-> "none"]
NoFlush == [op |-> "none"]
None == [b \in {} |-> Good]

-----------------------------------------------------------------------------
(* A cache: copies of whole pieces, the least recently used first, and the *)
(* room that is left; the length of a piece is that of its data.           *)

Length(data) == Cardinality(DOMAIN data)

\* SetMaxCacheSize, after Clear.
Cache(max_cache_size) ==
    LET size == IF max_cache_size < MinCacheSize THEN MinCacheSize ELSE max_cache_size
    IN  [max |-> size, left |-> size, caches |-> <<>>]

CachePieces(cache) == {cache.caches[k].piece : k \in DOMAIN cache.caches}
IsExisted(cache, p) == p \in CachePieces(cache)

Place(cache, p) == CHOOSE k \in DOMAIN cache.caches : cache.caches[k].piece = p
Others(cache, p) == RemoveAt(cache.caches, Place(cache, p))
DataOf(cache, p) == cache.caches[Place(cache, p)].data

\* GetCache: who asks for a piece makes it the most recently used one.  The
\* pointer it returns may be written through, which is what data is for.
GetCache(cache, p, data) ==
    [cache EXCEPT !.caches = Append(Others(cache, p), [piece |-> p, data |-> data])]

GetLFUCache(cache) == Head(cache.caches).piece

AllocateCache(cache, p, data) ==
    [cache EXCEPT !.caches = Append(@, [piece |-> p, data |-> data]),
                  !.left = @ - Length(data)]

\* Faulty variant: the room is not given back.
RemoveCacheKeepsRoom(cache, p) == [cache EXCEPT !.caches = Others(cache, p)]

RemoveCache(cache, p) ==
    [cache EXCEPT !.caches = Others(cache, p), !.left = @ + Length(DataOf(cache, p))]

----------------------------------------------------------------------------
(* Pieces and files: the pieces lie across the files one after the other.   *)

\* get_files_by_piece: a piece lies in the files of its blocks.  Where in its
\* file a block is follows, for the files are in disk in their order.
FileOf == FlattenSeq([f \in DOMAIN FileLength |-> [i \in 1..FileLength[f] |-> f]])
get_files_by_piece(p) == {FileOf[p * PieceLength + b + 1] : b \in Block[p]}

\* write_data_to_disk: the part of a piece that lies in a file.
WritePart(f, p, data) ==
    [n \in DOMAIN disk |-> LET b == n - p * PieceLength
                          IN  IF b \in Block[p] /\ FileOf[n + 1] = f THEN data[b] ELSE disk[n]]

read_data_from_disk(p) == [b \in Block[p] |-> disk[p * PieceLength + b]]

IsGood(data) == \A b \in DOMAIN data : data[b] = Good

----------------------------------------------------------------------------

Init ==
    /\ disk \in {[n \in 0..TotalSize - 1 |-> value] : value \in Data}
    /\ write_cache = Cache(0) /\ read_cache = Cache(0)
    /\ is_open = FALSE /\ call = Idle /\ flushing = NoFlush
    /\ bitfield = {} /\ received = [p \in Piece |-> {}] /\ answer = None

Rounded(cache_size) == (cache_size \div PieceLength) * PieceLength

\* SetCacheSize, the sizes.
NewCaches(cache_size) ==
    LET three == PieceLength * 3
        size == IF Rounded(cache_size) < three THEN three ELSE Rounded(cache_size)
    IN  write_cache' = Cache(size \div 3) /\ read_cache' = Cache((size \div 3) * 2)

\* download_thread begins.
Open(cache_size) ==
    /\ ~is_open
    /\ is_open' = TRUE
    /\ NewCaches(cache_size)
    /\ answer' = None
    /\ UNCHANGED <<disk, call, flushing, bitfield, received>>

\* The worker ends: it is stopped, an operation threw, or the process died.
\* The caches are lost.  The bitfield of the Downloader is that of some earlier
\* tick, and a tick never comes between a bit and the end of its FlushPiece.
\* Faulty variant: it may.
EndTorn ==
    /\ is_open /\ is_open' = FALSE
    /\ write_cache' = Cache(0) /\ read_cache' = Cache(0)
    /\ call' = Idle /\ flushing' = NoFlush /\ answer' = None
    /\ bitfield' \in SUBSET bitfield
    /\ received' = [p \in Piece |-> {}]
    /\ UNCHANGED disk

End ==
    /\ is_open /\ is_open' = FALSE
    /\ write_cache' = Cache(0) /\ read_cache' = Cache(0)
    /\ call' = Idle /\ flushing' = NoFlush /\ answer' = None
    /\ bitfield' \in SUBSET (IF call.op = "flush" THEN bitfield \ {call.piece} ELSE bitfield)
    /\ received' = [p \in Piece |-> {}]
    /\ UNCHANGED disk

\* hash_thread: CheckPiece over empty caches.
HashPiece(p) ==
    /\ ~is_open
    /\ bitfield' = IF IsGood(read_data_from_disk(p)) THEN bitfield \cup {p} ELSE bitfield \ {p}
    /\ answer' = None
    /\ UNCHANGED <<disk, caches, is_open, call, flushing, received>>

----------------------------------------------------------------------------
(* FlushPiece.  It is the only thing that writes to the files.              *)

BeginFlush(p) ==
    /\ flushing = NoFlush
    /\ flushing' = [op |-> "flush", piece |-> p, files |-> get_files_by_piece(p)]
    /\ write_cache' = GetCache(write_cache, p, DataOf(write_cache, p))

\* One file after the other.
FlushPart ==
    /\ flushing # NoFlush
    /\ \E f \in flushing.files :
          /\ \A g \in flushing.files : f <= g
          /\ disk' = WritePart(f, flushing.piece, DataOf(write_cache, flushing.piece))
          /\ flushing' = [flushing EXCEPT !.files = @ \ {f}]
    /\ answer' = None
    /\ UNCHANGED <<caches, is_open, call, bitfield, received>>

FlushEnd ==
    /\ flushing # NoFlush /\ flushing.files = {}
    /\ write_cache' = RemoveCache(write_cache, flushing.piece)
    /\ flushing' = NoFlush
    /\ answer' = None
    /\ UNCHANGED <<disk, read_cache, is_open, call, bitfield, received>>

----------------------------------------------------------------------------
(* PieceManager::SliceCompleted: WriteData, CheckPiece, FlushPiece.         *)

SliceCompleted(p, s, value) ==
    /\ is_open /\ call = Idle
    /\ p \notin bitfield /\ s \in Slice[p] \ received[p]
    /\ received' = [received EXCEPT ![p] = @ \cup {s}]
    /\ call' = [op |-> "write", piece |-> p, slice |-> s, value |-> value]
    /\ answer' = None
    /\ UNCHANGED <<disk, caches, is_open, flushing, bitfield>>

\* memcpy of the slice into the piece.
Patched(data) == [b \in DOMAIN data |-> IF b \in call.slice THEN call.value ELSE data[b]]

Written == call' = [op |-> "check", piece |-> call.piece]

WriteHit ==
    /\ call.op = "write" /\ flushing = NoFlush /\ IsExisted(write_cache, call.piece)
    /\ write_cache' =
           GetCache(write_cache, call.piece, Patched(DataOf(write_cache, call.piece)))
    /\ Written
    /\ answer' = None
    /\ UNCHANGED <<disk, read_cache, is_open, flushing, bitfield, received>>

\* Faulty variant: the least recently used piece is dropped as a read cache
\* drops it.
DropForWriteUnflushed ==
    /\ call.op = "write" /\ flushing = NoFlush /\ ~IsExisted(write_cache, call.piece)
    /\ write_cache.left < GetPieceLength(call.piece)
    /\ write_cache' = RemoveCache(write_cache, GetLFUCache(write_cache))
    /\ answer' = None
    /\ UNCHANGED <<disk, flushing, read_cache, is_open, call, bitfield, received>>

DropForWrite ==
    /\ call.op = "write" /\ flushing = NoFlush /\ ~IsExisted(write_cache, call.piece)
    /\ write_cache.left < GetPieceLength(call.piece)
    /\ BeginFlush(GetLFUCache(write_cache))
    /\ answer' = None
    /\ UNCHANGED <<disk, read_cache, is_open, call, bitfield, received>>

WriteMiss ==
    /\ call.op = "write" /\ flushing = NoFlush /\ ~IsExisted(write_cache, call.piece)
    /\ write_cache.left >= GetPieceLength(call.piece)
    /\ write_cache' =
           AllocateCache(write_cache, call.piece, Patched(read_data_from_disk(call.piece)))
    /\ Written
    /\ answer' = None
    /\ UNCHANGED <<disk, read_cache, is_open, flushing, bitfield, received>>

\* The copy CheckPiece looks at: the write cache before the read cache.
CheckedCopy(p) ==
    IF IsExisted(write_cache, p) THEN DataOf(write_cache, p)
    ELSE IF IsExisted(read_cache, p) THEN DataOf(read_cache, p)
    ELSE read_data_from_disk(p)

Touched(cache, p) ==
    IF IsExisted(cache, p) THEN GetCache(cache, p, DataOf(cache, p)) ELSE cache

\* A slice of a piece that is not complete yet.
NotComplete ==
    /\ call.op = "check" /\ received[call.piece] # Slice[call.piece]
    /\ call' = Idle
    /\ answer' = None
    /\ UNCHANGED <<disk, caches, is_open, flushing, bitfield, received>>

CheckPiece ==
    /\ call.op = "check" /\ received[call.piece] = Slice[call.piece]
    /\ received' = [received EXCEPT ![call.piece] = {}]
    /\ IF IsGood(CheckedCopy(call.piece))
       THEN /\ bitfield' = bitfield \cup {call.piece}
            /\ call' = [op |-> "flush", piece |-> call.piece]
       ELSE /\ call' = Idle
            /\ UNCHANGED bitfield
    /\ write_cache' = Touched(write_cache, call.piece)
    /\ read_cache' = Touched(read_cache, call.piece)
    /\ answer' = None
    /\ UNCHANGED <<disk, is_open, flushing>>

FlushCompleted ==
    /\ call.op = "flush" /\ flushing = NoFlush
    /\ answer' = None
    /\ UNCHANGED <<disk, read_cache, is_open, bitfield, received>>
    /\ IF IsExisted(write_cache, call.piece)
       THEN BeginFlush(call.piece) /\ UNCHANGED call
       ELSE call' = Idle /\ UNCHANGED <<flushing, write_cache>>

----------------------------------------------------------------------------
(* SetCacheSize, when the settings changed.                                 *)

SetCacheSize(cache_size) ==
    /\ is_open /\ call = Idle
    /\ call' = [op |-> "resize", size |-> cache_size]
    /\ answer' = None
    /\ UNCHANGED <<disk, caches, is_open, flushing, bitfield, received>>

FlushForResize ==
    /\ call.op = "resize" /\ flushing = NoFlush /\ write_cache.caches # <<>>
    /\ BeginFlush(GetLFUCache(write_cache))
    /\ answer' = None
    /\ UNCHANGED <<disk, read_cache, is_open, call, bitfield, received>>

Resized ==
    /\ call.op = "resize" /\ flushing = NoFlush /\ write_cache.caches = <<>>
    /\ NewCaches(call.size)
    /\ call' = Idle
    /\ answer' = None
    /\ UNCHANGED <<disk, is_open, flushing, bitfield, received>>

----------------------------------------------------------------------------
(* ReadData, for a request of a peer.                                       *)

\* do_pieces_send: only pieces of the bitfield are served.
PeerRequests(p, s) ==
    /\ is_open /\ call = Idle /\ p \in bitfield
    /\ call' = [op |-> "read", piece |-> p, slice |-> s]
    /\ answer' = None
    /\ UNCHANGED <<disk, caches, is_open, flushing, bitfield, received>>

Answer(data) == answer' = [b \in call.slice |-> data[b]] /\ call' = Idle

ReadHit ==
    /\ call.op = "read" /\ IsExisted(read_cache, call.piece)
    /\ read_cache' = GetCache(read_cache, call.piece, DataOf(read_cache, call.piece))
    /\ Answer(DataOf(read_cache, call.piece))
    /\ UNCHANGED <<disk, write_cache, is_open, flushing, bitfield, received>>

DropForRead ==
    /\ call.op = "read" /\ ~IsExisted(read_cache, call.piece)
    /\ read_cache.left < GetPieceLength(call.piece)
    /\ read_cache' = RemoveCache(read_cache, GetLFUCache(read_cache))
    /\ answer' = None
    /\ UNCHANGED <<disk, write_cache, is_open, call, flushing, bitfield, received>>

ReadMiss ==
    /\ call.op = "read" /\ ~IsExisted(read_cache, call.piece)
    /\ read_cache.left >= GetPieceLength(call.piece)
    /\ LET data == read_data_from_disk(call.piece)
       IN  read_cache' = AllocateCache(read_cache, call.piece, data) /\ Answer(data)
    /\ UNCHANGED <<disk, write_cache, is_open, flushing, bitfield, received>>

----------------------------------------------------------------------------

Next ==
    \/ End \/ FlushPart \/ FlushEnd
    \/ WriteHit \/ DropForWrite \/ WriteMiss
    \/ NotComplete \/ CheckPiece \/ FlushCompleted
    \/ FlushForResize \/ Resized
    \/ ReadHit \/ DropForRead \/ ReadMiss
    \/ \E size \in CacheSizes : Open(size) \/ SetCacheSize(size)
    \/ \E p \in Piece :
          \/ HashPiece(p)
          \/ \E s \in Slice[p] :
                \/ PeerRequests(p, s)
                \/ \E value \in Data : SliceCompleted(p, s, value)

Spec == Init /\ [][Next]_vars

----------------------------------------------------------------------------
(* Properties.                                                              *)

\* Types.
TypeOK ==
    /\ disk \in [0..TotalSize - 1 -> Data]
    /\ is_open \in BOOLEAN
    /\ bitfield \subseteq Piece
    /\ \A p \in Piece : received[p] \subseteq Slice[p]
    /\ call.op \in {"none", "write", "check", "flush", "resize", "read"}
    /\ flushing # NoFlush => IsExisted(write_cache, flushing.piece)

\* Each piece the program takes for complete is good on the disk, whenever it
\* may die: only while FlushPiece has not returned (PieceManager.cpp 687-690)
\* the newest one may still be in the write cache.
OwnedIsGood ==
    \A p \in bitfield : IsGood(read_data_from_disk(p)) \/ (call.op = "flush" /\ call.piece = p)

\* The blocks in a cache.
Cached(cache) ==
    UNION {{entry.piece} \X DOMAIN entry.data : entry \in Range(cache.caches)}

\* The room left is what the entries do not take, no piece is cached twice, and
\* a cache in use has room for at least one piece: the asserts on the way to an
\* uncached write or read (Storage.cpp 434-437, 480-483) are never reached.
LimitsKept ==
    \A cache \in {write_cache, read_cache} :
        /\ cache.left >= 0
        /\ cache.max = cache.left + Cardinality(Cached(cache))
        /\ IsInjective([k \in DOMAIN cache.caches |-> cache.caches[k].piece])
        /\ is_open => cache.max >= PieceLength

\* The caches are sound between any two writes to the files.
CachesSound == TypeOK /\ LimitsKept

\* The caches over the files are the store of PieceStore: what the task sees is
\* the write cache over the disk.  An eviction, a flush, a change of the cache
\* size change none of it, a piece begun, evicted and continued keeps its other
\* slices, and ReadData returns what was written last although the read cache
\* is never told of a write.
Store == INSTANCE PieceStore WITH
    data <- [p \in Piece |-> IF IsExisted(write_cache, p) THEN DataOf(write_cache, p)
                             ELSE read_data_from_disk(p)],
    durable <- [p \in Piece |-> read_data_from_disk(p)],
    owned <- bitfield

ImplementsStore == Store!Spec
=============================================================================
