# TLA+ models of the Rage BitTorrent client

This directory models the client under `src/`: what happens to the pieces of a
torrent and their data, to the requests two peers make of each other, to the
connections of a task, to its trackers, to the threads that serve it, and to a
task as it is started, stopped, saved and restored; and the libraries it is
built from, as operators. TLC checks the models on small instances; for all
components but the trackers TLAPS proves the central invariants for every value
of the constants.

`X.cpp:n` below means line n of `src/Library/Rage/src/X.cpp`; headers are in
`src/Library/Rage/include`; other names are of `src/Library/Foundation`. The comments of the sources are in GBK.

## 1. The system

A Windows program, `src/DieHard` (MFC), drives a library, `src/Library/Rage`,
that stands on `src/Library/Foundation`.

```
 window thread     DieHard -> DownloaderManager -> Downloader (one per task)
                                    |                  | StartDownload: thread + Barrier(2)
                                    | resume file      | StopDownload: m_state, Join
                                    v                  v
 worker thread,    message loop: timer, net, storage, tracker, system events
 one per task        PeerManager --< PeerLink          TrackerManager --< Tracker
                          |            |                     |
                          |        PieceManager -> Storage + read/write cache
                          v                                  v
 3 selector        PeerConnector, OutConnValidator,    3 pool threads (AsyncService):
 threads           InConnValidator, PeerIO, Acceptor   the HTTP requests of trackers
                          | post NetEvents
                          +--> message queue of the worker, found by its thread id
 timer thread      TimerEvent to each worker every second
 shared            DownloaderRecorder (info hash -> worker), IPFilter, GlobalSetting
```

| Part | State | Operations | What makes it correct |
|---|---|---|---|
| `Pieces`, `PieceManager` | bitfield, piece states, have counts, the rarity index (`m_interests`, `m_pos_in_interests`), the request table of each started piece, endgame | IncreaseHave, DecreaseHave, GetRequest, SliceCompleted, AbortRequest | the index and its inverse agree; no piece is stuck half started; endgame exactly at its threshold; rarity decides |
| `PeerLink` | `m_local_req_list`, `m_remote_req_list`, four choke and interest flags, the peer's bitfield | one handler per message, SecondTick, NotifyHavePiece, ChokePeer, AbortAllRequest | no slice lost or asked twice; nothing listed at a peer that chokes; have counts exact; no request of the peer lost |
| `PeerManager` | unused, connecting, connected peers, failure counts | AddUnusedPeer, check_peers, check_need_disconnect_peers, check_peers_choke, the net events, broadcasts | one link per peer and a socket per link; limits kept; events reach the link they are about; loops end |
| selector handlers | a socket and its stage | connect, validate, receive, abort | every dial is reported once, to the task that made it |
| message queue | messages per thread id | PostMessageEx, GetMessageEx | a queue lives as long as somebody uses it; no message is lost from one that lives; those of one priority come in any order |
| `Downloader` | `m_state`, `m_work_thd`, `m_barrier`, `m_bitfield` | StartDownload, StopDownload, hash checking, the two thread functions | start and stop return; the state tells the truth; no thread is left |
| `DownloaderManager`, `ResumeInfo` | the tasks, the resume map and file, the torrent copies | Init, AddTask, RemoveTask, SaveResumeInfo, UnInit | what is believed owned is on the disk; what is listed is recorded |
| `Storage`, `ReadCache`, `WriteCache` | slices cached, files | ReadData, WriteData, FlushPiece, CheckPiece | a read sees the last write; a failed write is not taken for done |
| `TrackerManager`, `Tracker` | announce state, timers, a context shared with the pool | SecondTick, the asynchronous request and its answer | at most one request at a time; an answer after deletion is harmless |
| `NetService`, `Selector`, `TimerService`, `AsyncService` | handlers and their timeouts, timers, jobs | register, remove, modify, the loops | a handler removed is not called; a timeout is not early |
| `DownloaderRecorder`, `IPFilter`, `GlobalSetting` | maps under a mutex | lookup, ban, settings | read by several threads |
| torrents, bencoding, URLs, messages of peers and trackers | - | read, write | what was written is read as it was, what was cut or is wrong is refused |
| statistics, digests, bit sets, buffers, streams, files, paths, numbers, regular expressions | - | - | they do what their names say |

### Where it is hard

* **Shared pieces, many links.** A handler of one link calls into the piece
  manager, which calls a broadcast, which calls every link, each of which may
  cancel, ask anew and change the tables the next one reads (`PeerLink.cpp:701`,
  `PeerManager.cpp:794`).
* **Undoing.** A choke, a reset, a hash failure, an end of a link each give back
  what a link had asked for, and no more (`PieceManager.cpp:782`).
* **Four threads and names instead of references.** Sockets are handed from
  handler to handler and to the worker; events name a peer by its address and a
  task by a thread id (`PeerManager.cpp:751`, `AuxFunc.cpp:100`).
* **Start and stop.** Two threads meet in a barrier that the worker must reach
  on each of its exits; `m_state` is written by both (`Downloader.cpp:443-627`).
* **Persistence.** The resume file is truncated and then written, torrent copies
  and records are separate, data are written through a cache.
* **A queue without an order.** The message queue is a heap of messages of one
  priority (`TSDataPriorityQueue.cpp:44`): a report of an earlier connection may
  come after that of a later one.
* **Readers, writers, signals.** The map of queues is read and changed by all
  threads under a lock of the library's own (`ReaderWriterMutex.cpp:97`).
* **Limits.** Pending counts, slots, outgoing connections, failure counts, caches.

The hazards in `PROJECT.json` give each of these its line and the properties
that watch over it.

## 2. The modules

### Components

| Module | Models | Built on |
|---|---|---|
| `Pieces` | the request table of one piece (`DownloadingPiece`), the pieces of a torrent, the endgame condition, the 5% condition, `get_best_downloading` | - |
| `PieceManager` | all of `PieceManager`, with the rarity index, called in any order | `Pieces` |
| `PeerLink` | every link of a task over one piece manager: the download half | `Pieces` |
| `Upload` | every link of a task: choke decisions and answers, the upload half | - |
| `PeerManager` | lists, handlers of the selector threads, queue, bans, stop and restart | - |
| `Task` | `DownloaderManager`, `Downloader`, barrier, worker, resume file, and the timer service with its spin lock | - |
| `PieceStore` | what a store of pieces promises: abstract | - |
| `Storage` | `Storage`, its files and its two caches; implements `PieceStore` | - |
| `Tracker` | `TrackerManager`, `Tracker`, the requests of HTTP and UDP trackers, and the pool of `AsyncService` that runs them | - |
| `Selector` | the loop of a selector thread and the calls of other threads | - |
| `ReaderWriterMutex` | the lock of the map of queues | - |
| `Messages` | message queues, who posts and who reads, over the lock | `ReaderWriterMutex` |

### Algorithms, as operators

| Module | Models | Checked in |
|---|---|---|
| `Manager` | the calls of `DownloaderManager`, `ServiceManager` and `Downloader` one after the other, with everything they may fail at | `MCTask` |
| `Bencoding`, `SavedFiles`, `TorrentFile` | the format; the record of the tasks and the settings; torrents | `MCTask` |
| `BitSet`, `Numbers` | `ReverseBitSet` and `Sha1Hash`; numbers as text | `MCTask` |
| `FileSystem`, `Streams` | paths and directories, files, the files of a torrent; byte and item streams | `MCTask` |
| `TrackerMessages` | announcements over HTTP and UDP, `HttpResponse::Parse`, `parse_response` | `MCTracker` |
| `Url` | encoding and splitting of URLs | `MCTracker` |
| `RegexpBuilder`, `Regexp` | the expressions of `deelx.h`: read, matched, replaced | `MCTracker` |
| `SimpleBuffer`, `PeerMessages` | the buffer of `PeerIO`; framing, messages, handshake | `MCSelector`, `MCUpload` |
| `Buffers` | `Buffer` (a ring), `CBufferT`, `TSDataFlow` | `MCSelector` |
| `Statistics` | bytes and rates, peer counts and status | `MCUpload` |
| `BlockHash`, `Hashes` | the buffering of digests; SHA-1, SHA-2, MD2, MD4, MD5 | `MCStorage` |

An `MC*` module extends a component for TLC, with constants too large for a
`.cfg`, and states in named `ASSUME`s what the algorithms near it compute,
against a reference over all small inputs; TLC evaluates them in every run of
that module. `*Proofs` hold the theorems about the module of that name,
`DownloaderProofs` those about `PieceManager` and `Tracker`, the parts of a `Downloader`
that need neither a link nor a file.

`Bencoding` and the modules on it, `TrackerMessages`, `Regexp`, `RegexpBuilder`,
`Url` and `FileSystem` have RECURSIVE operators or reach one; no proof module
extends any of them.

### How they fit together

Three modules look at a task from different sides, and leave to each other what
the other decides. `PeerLink` takes links to come and go at any time, which
`PeerManager` explains; `PeerManager` takes a link to be its socket, and any
message to be accepted or refused, which `PeerLink` and `Upload` explain; `Task`
knows of a piece only that it is complete. `PieceManager` and `PeerLink` both use
the operators of `Pieces`; `PeerLink` leaves the rarity index out, and chooses a
new piece directly by the have counts, which `PieceManager`'s property
`StartsByRarity` shows to be what the index does.

Below a task, `Storage` is what `Task` has as `disk` and as a flush that fails;
`PieceStore` is the abstraction both rest on. `Task` contains the timer service,
because a worker that ends races with the timer on its stack. `Tracker` contains
the pool. `Selector` and `Messages` are what `PeerManager` has as one step of a
handler and as `queue`. `Manager` has the calls of the window thread with all
their arguments and failures but one after the other, `Task` has the threads
between them with arguments left out; `LoadsSaved` and `CutIsRefused` justify
that a resume file of `Task` holds either a whole record or none.

Operators whose comment says "faulty variant" (such as `ShiftOverForgets`) are
plausible mistakes in the operator after them. No specification uses them; put in
its place, they violate the property they were written for, which shows that the
property depends on that piece of the code.

### PieceManager and Pieces

The variables are the fields; `m_pieces_info` is split into `state` and `have`,
and `slice[p]` is the table of a started piece (its reset value otherwise).
`Init` is the constructor and `ResetPiecesInfo`, with any bitfield and any
shuffle. A bitfield is walked bit by bit (`walk`): `IncreaseHave`, `DecreaseHave`
start it and `WalkBit` is one turn, so invariants hold in the middle of the loop
too. `GetRequest`, `SliceCompleted` and `AbortRequest` are whole calls.

`GetRequest` of the code is a loop over `GetOneSlice`; `GetBatch` is what it
yields in one expression. `BatchIsLoop`, an `ASSUME` of `MCPieceManager`,
executes the loop on every table of four slices and compares.

The peer and the caller are constrained as in the code: `DecreaseHave` of what
was increased, `SliceCompleted` and `AbortRequest` of slices that are requested
(or copies of them).

### PeerLink

The worker handles one event at a time, but a handler is not one step: `agenda`
holds the calls it has still to make, in an order chosen among those a map
ordered by address may have. `RequestLoop` is one turn of `do_pieces_request`,
`NotifyHavePiece` one link of a broadcast, `PieceEnd` the broadcast itself. A new
handler starts when `agenda` is empty. `req[l][s]` counts how often
`m_local_req_list` of `l` has `s` (in endgame more than once).

Peers send bitfields, HAVEs, chokes, unchokes and data that complete a slice,
with a good or a bad hash or of a wrong length, at any time, and the queue gives
them out in any order: a bitfield may come after a HAVE. Two history variables say
what that does: `overtaken` counts the HAVEs handled before the bitfield of their
peer, `lost` has the slices taken out of their list by data of a wrong length and
not asked for since. No guard reads them.

### Upload

`Tick` is `PeerManager::SecondTick` with `do_pieces_send` for each link and, in
the ticks where it is due, `check_peers_choke`: `ChokeUninterested` (the count),
`FillSlots`, `Rotate`. Rates are chosen anew at each decision. The loops of
`check_peers_choke` search the fastest n times; here they are sets: the n fastest are
those with fewer than n before them (`Faster`, `Fastest`), and `ChokePeer` takes all
links it is called for. `toPeer` is in order; `toLocal` is what the peer sent and
the worker has not handled, of which `OnRequest` and `OnCancel` take any message,
as the queue does. The history variable `overtook` has the slices whose request was
handled before a CANCEL sent earlier. `Asks`, `Cancels`, `Receives` are the peer,
who keeps to the protocol, and are external.

### PeerManager

`sock` maps each socket alive to its stage: `connector`, `out` (outgoing
handshake), `in`, `replying` (incoming), `posted` (owned by an event in the
queue), `io` (a `PeerIO` of a link). Handlers run under the mutex of their
selector, and `RemoveHandler` takes it too, so a call of a handler is one step,
and so is the removal; what is not atomic is the way from the handler to the
worker, which is `queue`, a set of events without an order. `check_need_disconnect_peers` is one step per turn of
its loop (`closing`). `check_peers` is one step that takes any set of at most
`PerCall` unused peers, of which some cannot be dialled.

Events carry the number of their socket (`conn`), which the code does not have,
so that a property can say that an event reached the link it is about; no guard
reads it except to close the socket an event owns, as the code does. A link that
an event of an earlier connection has deleted leaves its `PeerIO` registered:
that is the stage `orphan`. `refused` is a history variable: addresses whose own
established dial was refused.

### Task

`ui` is where the window thread is: `idle` or in a call of `DownloaderManager`.
The worker's `pc` follows `download_thread` and `hash_thread` through barrier,
context, loop test, message, flush, exception, handler and exit. `Pass`, `Wait`,
`Leave` are `Barrier::Acquire`. `resume_file`, `copies`, `disk` survive `Crash`,
which may come at any time. The timer thread takes its spin lock, comes to each
timer and posts an event; a worker registers and removes its timer under the same
lock. `Truncate` and `Write` are the two halves of
`ResumeInfo::Save`; the write may fail, as nobody looks at its result. A write
cache that evicts an incomplete piece is `Evict`. Two history variables follow the
records that outlive their task: `outdated` is what the file said of a torrent when
it was added once more, `believed` what of that a later start took for owned.

### Storage and PieceStore

The torrent is blocks in files; a piece may lie across files, and a file may be
empty. `disk` is the files one after the other, and `get_files_by_piece(p)` the
files in which a piece has blocks; that the loop of the code finds these, with the
place of each block, is `PartsAreLoop` of `MCStorage`. `write_cache` and `read_cache` are lists of whole pieces, the least
recently used first, with the room left. A call of the worker (`WriteData`,
`ReadData`, `CheckPiece`, `FlushPiece`, a new cache size) is a step unless it
writes to files: then each file of the piece is one (`flushing`), in their order, and
may throw, or the program may die in between. `PieceStore` is what a task relies on:
`data`, what it would read; `durable`, what a restart finds; `owned`, the pieces it
claims; `answer`, what the last call gave. A read is allowed for an owned piece
only, blocks become durable at any time, a restart loses the others, and a piece is
owned after its hash was found right. In the refinement `Store`, `data` is the
write cache over the files, `durable` the files and `owned` the bitfield.

### Tracker

Requests are objects counted by their users: the tracker, the queue, the thread
that runs it. `queue` is the `TSDataQueue` whose `Dequeue` hands an item to a
waiting thread (`handed`) or gives up after a time; `Stop` sets a flag and joins
the threads. The worker inserts, asks (`SecondTick`), clears; a
thread runs `http`, with redirections, or `udp`, with two exchanges of datagrams
in `wire`, which may be lost, late or repeated. `m_is_done` is set after the
answer; the tracker looks at it from its tick.

### Selector

One selector thread: `Run` waits in `select` with a mask made from its handlers,
then calls the handlers of the ready handles and those whose time is up. Other
threads register, modify and remove handlers under the mutex, close handles and
open new ones, which may get the number of one that was closed (`rd_set` is then
stale). A handler called may remove itself or another. `time_left` and `elapsed`
are the code's. `Stop` may come at any time, before `Begin` too. `recycled` and
`failed` are histories for the properties.

### ReaderWriterMutex and Messages

The lock is its two counts, its mutex and its semaphores, one step per operation
on one of them. `Messages` is the global map of queues over it: a worker makes
its queue, reads, deletes it; posters look an id up, take the queue by its
reference count, put a message and let go. The carrier is the counted object,
and what is deleted can be used again under the same address.

## 3. The runs

| Run | Instance | Asks | Shows |
|---|---|---|---|
| `piece_manager` | 3 pieces of 1, 1 and 2 slices, have up to 2 | the index, states, endgame, rarity under every sequence of calls | `IndexConsistent`, `StatesAgree`, `NoStuckPiece`, `EndgameExact`, `StartsByRarity` |
| `links` | 2 links, 2 pieces, pending count 2, any messages in any order | is any slice lost, asked twice or asked in vain, is any owner miscounted? | `NoLostSlice`, `Exclusive`, `OwedIsDue`, `ObtainedIsQuiet`, `HaveExact` |
| `have_count` | the same | is the have count the number of owners? | violation, see 6 |
| `connections` | 2 listening and 1 ephemeral address, 3 ids with our own, 2 thread ids, 3 sockets | interleavings of dials, accepts, aborts, stop and restart, with events in any order | `NoneForgotten`, `PeersMetOnce` |
| `connections_live` | 1 thread id that is reused, 2 sockets | do the loop and the dials end? | `DisconnectEnds`, `DialSettles` |
| `upload` | 2 peers, 1 slot, 2 and no slices, 2 rates, 2 messages in a queue | chokes, requests, cancels and data under way at once, messages taken in any order | `ChokingSound`, `SlotsUsed`, `NoLostRequest`, `RequestsAnswered` |
| `tasks` | 1 task, 2 pieces, its timer | every order of calls, ticks, failures and crashes | `ThreadsAgree`, `OwnedIsOnDisk`, `ListedIsRecorded`, `CallsReturn` |
| `stop_race` | the same, 1 piece | - | violation, see 6 |
| `storage` | 3 pieces over files of 1, 0, 5 and 2 blocks, slices of 2, caches of 2 and 17 blocks | every order of writes, reads, checks, flushes that fail, crashes | `CachesSound`, `OwnedIsGood`, `ImplementsStore` |
| `trackers` | 2 threads, 2 trackers, 3 requests | deletion while a request runs, stop, lost and repeated datagrams | `RequestsOwned`, `TrackersAreTold`, `StopReturns` |
| `selector` | 2 handlers, 2 handles, intervals of 2 | calls of other threads and handles reused while `select` waits | `HandlersOwned`, `InputIsReal`, `TimerInTime`, `DataIsSent`, `StopReturns` |
| `messages` | 1 worker, 2 posters, 2 queues | lookups and posts while the queue is deleted and made again | `CountsExact`, `QueueStays`, `NothingLeft`, `CallsReturn` |

Some invariants are conjunctions, so that one fault that breaks a part breaks
the property:

* `OwedIsDue`: what is asked of a peer is asked of one that does not choke us, and
  is no more than the pending count. `ObtainedIsQuiet`: what is owned is listed
  nowhere, and with all pieces owned nobody is asked or kept interested.
* `NoneForgotten`: a link has its socket and an event of a socket finds its link,
  a connecting address has its dial. `PeersMetOnce`: one link for a peer, an
  address is in one list, dials within their bound.
* `ChokingSound`: the slots, and data arrive only at peers that are unchoked.
* `ThreadsAgree`: a task shown as running has its thread at work, and the timer
  thread calls only timers of workers that live.
* `CachesSound`: types, and the room left is the size less what is cached.
* `RequestsOwned`: a request's count is the number of its users, it is delivered
  once, and what is done has an answer.
* `HandlersOwned`: only registered handlers are called, and counts are exact.

Five name an exception, which is what the code does, by a history variable, so
that the exception is no wider than its cause:

* `NoLostSlice` but for `lost`; `HaveExact` says by how much the counts differ from
  the owners (`overtaken`).
* `NoLostRequest` and `RequestsAnswered` but for `overtook`.
* `OwnedIsOnDisk` but for `outdated` and `believed`: what a restart believes wrongly
  is part of what the old record claimed, and only of a torrent that was added over
  such a record.

`StopReturns` of `Selector` is of a `Stop` after the thread began; one that comes
before is in the run, and never returns.

The other named parts are in the modules. `CallsReturn` of `Task` is that starts
and stops return; of `Messages` that no post and no read hangs.

### What the ASSUMEs state

* `MCPieceManager`: `BatchIsLoop`.
* `MCStorage`: `PartsAreLoop` (`get_files_by_piece`, for all lengths of up to three
  files of up to three blocks), `DigestsAreRight`, `DigestsByLength`, `LongDigestsAreRight` (all
  seven digests, on the vectors of their standards), `PartsDoNotMatter` (however
  data are cut, the blocks compiled are those of the padded message).
* `MCUpload`: `MessagesUnderstood`, `HandshakeUnderstood`, `WrongLengthRefused`,
  `CountedByOne` (what is sent is read; who counts which bytes), `TotalsAddUp`,
  `HalfOfStatusIsEmpty`.
* `MCSelector`: `FramingExact` (however a stream is cut into reads, the messages
  are the same), `BufferIsQueue`, `RingIsQueue`, `GrowsAsNeeded`, `ComparesText`;
  of `TSDataFlow` `WaitersAreWoken`, `OneIsWoken`, `NeverReturns`, `OneAtATime`.
* `MCTask`. Formats: `DecodesEncoded`, `CutIsRefused`, `DecodedIsCanonical`,
  `LoadsSaved`, `LoadsSettings`, `LoadedMayBeSmall`, `LoadsTorrent`,
  `CutTorrentIsRefused`, `LoadKeepsTheLast`, `StatusPiecesKnown`, `BitSetIsSet`.
  Paths: `PathParts`, `MakesThePath`, `FileHereNotMade`, `RemovesWhatIsBelow`,
  `RenamesThePath`, `VisitsEverything`. Files: `OpenLeavesTheRest`,
  `WriterIsAlone`, `SeeksThere`, `AllocatedIsThere`, `BlocksAreRead`,
  `CutsAndEnds`, `CopyIsTheSame`, `NamesTheFile`. Streams: `ItemsAreRead`,
  `SkipsInMemory`, `PastTheEnd`. Numbers: `PrintedIsRead`, `WidthIsKept`,
  `CutNumbers`, `HashesOrdered`, `NamesDiffer`. Calls of the manager:
  `InitAllOrNothing`, `FailedInitStays`, `RecordsForgotten`,
  `TasksAddedAndRemoved`, `HandlersSpread`, `PortReset`, `TaskCalls`.
* `MCTracker`: `EventIsNotRead`, `LongUrlIsEmpty`, `PacketIsRead`, `ResponseRead`,
  `FieldLostWithoutReason`, `CutResponse`, `ListedPeersRead`,
  `CompactPeersMisread`, `EncodedIsDecoded`, `UrlSplit`; expressions:
  `MatchesAreReal`, `MatchesAreFound` (against the set of places where a match may
  end), `GreedyMisses`, `ExactGivesUp`, `SyntaxRead`, `SyntaxMisread`,
  `ReplacedByItself`, `ReplacesTheFirst`, `ReferencesRead`.

### Bounds, and why they are enough

* `END_GAME_LINE` is 3 in the code and 2 here, with 2 or 3 pieces: a torrent then
  starts outside endgame and passes the line, and with all but one held it starts
  inside. With 3 and two pieces everything would be endgame.
* `SliceCount`: pieces of one and of two slices, so that "last slice", "only
  slice" and "one of several" occur.
* Two links: every property of `PeerLink` relates one link to one other; a third
  adds owners. `PendingCount` 2: less than, equal to and more than what a piece
  has left. The setter asks for 5 and more, loading does not.
* `ResetLine` is 95 in the code; with two pieces the line is crossed by the first
  at 30.
* `PeerManager`: `Reserve` and `MaxConnection` stand for 20 and at least 21; 1 and
  2 keep the order of the two and let the loop close a link while another stays.
  `MaxError` 1 stands for 10: it takes two failures to be banned. `PerCall` 2
  stands for 5. Three sockets let an old dial, an old report and a new link of one
  address coexist. `MaxIO` bounds messages not yet handled; an abort may come
  before or after one.
* `Upload`: `MaxUpload` 1 and two peers make slots scarce, so each of fill,
  rotation and loss of interest happens with a waiting competitor. Two rates give
  all orders of two links, ties included. `MaxSent` 1 lets a request, a choke and
  data cross on the wire, and with `MaxWire` 2 a message overtakes another in the
  queue. One peer asks, for two slices, so that one waits while the other is sent;
  the other peer competes for the slot, which is all that two peers share.
* `Task`: tasks share only the window thread, the map and the file. Two pieces: one
  owned while the other fails.
* `Storage`: pieces of 3, 3 and 2 blocks over files of 1, 0, 5 and 2, so that a
  piece lies on both sides of an empty file and a slice is cut by a file and by the
  end of its piece. A cache size is shared out one to two between the write and the
  read cache, and raised to three pieces before. With 0 the write cache has room for
  one piece and the read cache for two, so that both evict often; with 17 the write
  cache holds a piece and the short one, the read cache all. That a cache always has
  room for a piece is `LimitsKept`, for which reason the calls past a cache that is
  too small (`Storage.cpp:434-437, 480-483`) are never made.
* `Tracker`: three requests for two trackers, so that a tracker inserted again asks
  while the request of its predecessor runs.
* `Selector`: two handles and two handlers, so that a handle is given to another
  handler between `select` and the call. Intervals of 2 let time pass before, at
  and after the end of one.
* `Messages`: two posters meet the worker at the lock and at the count, which makes
  reader, writer and waiting reader at once. The case of four threads, in which a
  semaphore's turn is taken by a newcomer, is not reached.

No run switches the deadlock check off.

### Fairness

* `PeerManager!FairSpec`: each connection's events are handled (strong fairness,
  for the queue has no order but runs empty) and the loop goes on
  (`DisconnectOne`): it is a thread that runs. A dial ends (`Dialling`), because
  `PeerConnector` and `OutConnValidator` are registered with timeouts and report
  them. Nothing is assumed of incoming connections, of peers, of the window or of
  stopping.
* `Upload!FairSpec`: ticks without choke decisions (`Tick(FALSE)`) happen: the
  timer sends one a second and decisions are due in every tenth. What was sent
  arrives and each message that arrived is handled, whatever is taken before it
  (weak fairness per message: the queue has no order but runs empty), as long as the
  connection lives. Nobody is assumed to decide, to ask or to disconnect.
* `Task!FairSpec`: the threads run (`Progress`, `Joined`, `UIAcquires`,
  `TimerThread`), and what waits for the spin lock gets it (strong fairness of
  initialising, unwinding and `OnTimer`): the lock is not fair, but its holder
  sleeps 20 ms between turns. Without the timer `StopReturns` fails: the worker
  looks at `m_state` only after a message. No fairness for the user, failures,
  data or crashes.
* `Tracker`: threads run and are joined, the tick looks at a request (`Handle`), and
  an HTTP request ends (strong fairness of `HttpEnds`): every wait has a timeout,
  and hosts are assumed not to redirect for ever.
* `Selector`: the thread runs; time passes and `select` does not fail for ever
  (strong fairness of its returns).
* `Messages`: posters and the worker take their steps, who waits for the mutex of
  the lock gets it, and each message is reached (strong fairness per message: the
  queue has no order but runs empty).
* `Storage` has none: everything in it is safety.

## 4. What is proved

TLAPS proves these for all values of the constants that satisfy the assumptions
named in the modules (finite positive sizes).

* `DownloaderProofs`, the pieces. `TypeCorrect`, `IndexIsConsistent`, `StatesDoAgree`,
  `RarityIsRespected`, `EndgameIsExact`, `NoPieceIsStuck`. The inductive invariant
  is `Inv == TypeOK /\ IndexConsistent /\ StatesAgree`. None of the parts is
  inductive alone: `shift_over` reads the position recorded for a piece in the
  bucket of its have count, so it stays within its bucket only by
  `IndexConsistent`, and whether a piece is in the index at all depends on its
  state, which `SliceCompleted` and `AbortRequest` change by `StatesAgree`. The
  heart is `SwapRemoveFacts` and `RemoveKeepsIndex`: moving the last entry of a
  bucket into a hole leaves index and positions inverse, also when the hole is
  the last entry. From `Inv` follow rarity (the first free piece of the buckets
  in order has the fewest owners) and, with one more conjunct each, endgame and
  `NoStuckPiece`. `BatchNotEmpty`: `GetRequest` returns a slice when `HasFreeSlice`
  held; with `BatchWithinWant` of `PeerLinkProofs`, at most `want_num` of them, these
  are the two asserts of `do_pieces_request`.
* `DownloaderProofs`, the trackers: `RequestsAreOwned`, for any number of threads,
  trackers and requests. Counting is avoided until the end: `HeldOnce` says that a
  request is in one place of the service, so its count is 1 if it is held and 1 if it
  has a tracker (`CountOK`). `WaitersOK` says that a thread is in the queue of the
  waiters as long as it waits, its wait timed out or not, and nothing was handed to it:
  so `Enqueue` overwrites nothing it handed out before. `StopOK` says that the service
  runs while there are trackers, or `Joined` would take requests from under them.
  `ResultsOK` orders the end of a request: its response, `m_is_done`, and the release
  by the thread.
* `PeerLinkProofs`, for any number of links, pieces, slices and any pending count.
  * `TypeCorrect`, and `RequestsAreExclusive`: outside endgame no slice is asked of
    two peers or twice of one, whatever peers send. `Inv == TypeOK /\ Exclusive`: an abort may free a slice because
    nobody else has it listed, which is `Exclusive` itself; endgame is never left,
    so what it lets into the lists does no harm.
  * The other four need `Core`: the calls that wait in the agenda are of connected
    links and in the order the code makes them, a link that is gone has no
    requests, and started, free and obtained pieces are apart.
  * `NoSliceIsLost`: `NoneLost` says it of the request tables; abort and choke give
    back exactly what the list of the link names, and data of a wrong length leave
    their one slice in `lost`.
  * `OwedStaysDue`: `Owed` adds that a link that chokes us has an empty list, and
    that the loop asks for no more than what is left of the pending count.
  * `ObtainedStaysQuiet`: `Quiet` adds the notifications still to be made. Between
    the completion of a piece and its last notification, a slice of it may be
    listed only at links not told yet.
  * `HaveIsExact`: the owners of a piece are counted as a set, and each message
    changes the set by one link, or leaves it and is counted in `overtaken`.
* `PeerManagerProofs`, for any addresses, sockets, tasks and limits. `TypeCorrect`;
  `PeersAreMetOnce`; `NobodyIsForgotten`. The inductive invariant adds
  `Connections`: without a worker nothing is connected or dialled; a socket handed
  to the worker is of the task that runs; the event of an established connection
  owns a socket that waits for it; an abort comes from a socket that is gone and
  from no link but its own; only addresses where peers listen are dialled. Without
  the event's ownership, one socket could become two links; without the abort's,
  a delayed event could end a link and leave its `PeerIO`. That the limit of
  outgoing connections is kept needs how many addresses `check_peers` takes:
  `RankBijective` and `FirstRanks` show that taking the members of a set in order
  up to n takes n or all of them.
* `TaskProofs`, for any number of tasks and pieces.
  * `ThreadsAgreeHolds`. `TaskOf` ties thread, state, record and barrier of a task
    together: `BarrierOf` says which side of the barrier each thread is on while the
    window starts the task and that neither is there otherwise, so that nobody waits
    for one who came already.
  * `ListedIsRecordedHolds`: list, map and copies agree except while `UnInit` closes.
  * `OwnedIsOnDiskHolds`. `Data` adds what lies between: but for records older than
    their task (`outdated`, `believed`), the map never claims more than `m_bitfield`,
    nor does the file of a task in the list, so that what a worker overwrites is
    claimed nowhere; and what a worker has loaded or checked is on the disk
    before `m_bitfield` names it. That a torrent is added anew only when no worker has
    it comes from `Listed`.
* `SelectorProofs`, for any handles, handlers and interval. `HandlersOwnedHolds`
  (from `Core`: no two handlers have one handle, the map is exact, a count is its
  owners), `InputIsRealHolds` (`Input`: what is still to be dispatched has input or
  was closed since), `TimerInTimeHolds` (`Time`: what has elapsed and what is left
  fit in the interval).
* `MessagesProofs`, for any number of posters, workers and carriers. `QueueIsThere`
  rests on the exclusion of `ReaderWriterMutex`, proved as `WriterIsAlone`. Its
  invariant counts: the readers and writers let in are those inside, plus those
  whose turn is in a semaphore or owed by the one thread that is still signalling
  (`HandedOver`). `MutexOK` alone is not inductive: it does not see a turn that was
  given and not yet taken. `CountsAreExact` and `NothingIsLeft` rest on `Ledger`:
  a carrier is in at most one place, at most one sender waits for it, and its count
  is the number of both.
* `StorageProofs`, for any lengths of files, pieces, slices and caches.
  `CachesAreSound`, `OwnedPiecesAreGood`, and `StorageImplementsStore`, the whole
  refinement: `Spec => Store!Spec`. A cache is first a list (`CacheOK`: no piece
  twice, the room exact), and the lemmas on its operations (`GetCacheFacts`,
  `AllocateFacts`, `RemoveFacts`) say what each does to the set of pieces, to the data
  and to the room. The inductive invariant is about copies: `CopiesOK` says that a
  complete piece is good where the task sees it (`View`), that it is in the write
  cache only while `FlushPiece` writes it from there, and that what the read cache
  has is complete and equal to the disk, which is why nobody needs to tell the read
  cache of a write. `FlushOK` says that of the piece being flushed all files written
  so far are equal to the cache, so that the cache may be dropped after the last.
  Each step then writes, reads, accepts, syncs or restarts the store, or is none of
  its business (`NextStore`); that one file is written for one piece only is
  `WriteFacts`, from `PiecesApart`.

* `UploadProofs`, for any number of peers, slots and slices and all rates.
  `ChokingIsSound`, `NoRequestIsLost`, and of the timer tick `SlotsAreUsed`. A
  connection is a `Conversation` of what both ends know. `Beliefs` says that the
  chokes under way lead from what the peer believes to what we decided, and that
  none of the data under way comes after a choke: this is why data never find a
  choked peer, and why a request may be dropped by `on_request` while we choke (a
  choke is then still under way, `ChokeUnderWay`). `AskedAgain` says that of what a
  peer waits for, no cancel not yet handled can erase the request, unless that overtook it:
  without it `NoLostRequest` is not
  inductive, since `on_cancel` could take the request from the list. The slots rest
  on `FirstCount`: of a finite set in some order the first n are n or all of it.

Only model-checked: all liveness, and the algorithms of section 2.
Liveness under fairness and ENABLED are beyond the prover and stay with TLC, as
does induction over data, which is why `BatchIsLoop`, the equality of a loop and
its closed form, is checked over all tables of a size, and the parsers over all
small inputs. No module that is proved about, and none it uses, has RECURSIVE
operators, which would take the SMT backend away.

## 5. What is not modelled

The map in `PROJECT.json` gives each definition its lines. What it leaves out is
mostly the windows of `DieHard`, wrappers of Windows and of sockets, code under
`#if 0`, and library classes nothing uses.

* **The window application and the tests.** `DieHard` calls `DownloaderManager`
  and shows what it returns; its one thread is `ui` of `Task`.
* **Sockets, threads, locks of Windows** are their documented effects, marked
  external in the map.
* **Time**: keep-alive (90 s, 240 s), timeouts and rates are events that may come
  whenever they are possible, except in `Selector`.
* **Widths**: 64-bit lengths, offsets and counters have no bound. `Numbers`,
  `SavedFiles` and `Hashes` do cut their words.
* **Settings** are constants in the components; changes while a task runs are in
  `Storage` (the cache) and `Manager`.
* **Abstractions of single modules.** `Selector`: one selector, the others are
  other threads; connectors and acceptors are handlers like others; output sockets
  are always writable; the exception mask is left out. `Tracker`: the scheme of a
  tracker is chosen for each request; a reply is its kind; `RemoveTrackerUrl`,
  which nothing calls, is left out. `Messages`: priorities are left out, since all
  are equal where it matters; `IsExisted` is called once. `Task`: timer events of a
  task in the queue count as one. `Bencoding`: the info value is a dictionary and
  unchecked casts find what they expect. `Url`: decoding of what the encoder may
  have written. `FileSystem`: names are case-sensitive. `Numbers`: fractions are
  left out. `Regexp`: a call of the whole expression inside itself is left out.
  `Manager`: records of equal size, calls one after the other; addresses of
  listening sockets may be used twice. `LockRange` and the file mapping are left out.

## 6. What the models found

Two disagreements between the code and what it says of itself are runs:

* `have_count`, `PeerLink.cpp:394`: a bitfield replaces the set of the peer and adds
  to the counts, without taking back what HAVEs handled before it added. Nothing
  checks that the bitfield comes first, and of a peer that sends it first the queue
  may swap the two. `PieceManager.h:131` says that the value records how many haves
  a piece has; it stays too high, and the piece is asked for too late.
* `stop_race`, `Downloader.cpp:622`: an exception in the worker between the
  assignment of `DS_STOP` and the join sets `DS_DOWN_ABORT` over it. The task has
  then no thread, and the next stop or removal asserts there is one (99, 140).

The rest are cases that a property or its assumptions had to leave out, or that an
`ASSUME` states as they are.

Links and pieces:

* Data of a wrong length take the slice out of the list before the connection is
  closed, so that nobody gives it back, and the piece never completes outside
  endgame (`PeerLink.cpp:625`; `PieceManager.h:177-178` says unfinished requests of
  a broken link are put back). `NoLostSlice` is but for these.
* In endgame, `m_local_req_list` keeps copies of a slice until it is complete or
  cancelled; `do_pieces_request` waits meanwhile.
* `Rotate` picks the best choked peer by whether it chokes us (`PeerManager.cpp:221`);
  the comment (214) speaks of its interest. The slots do not depend on it.
* Messages 0 to 3 are read without a look at their length (`PeerLink.cpp:797-808`);
  keep-alives (788) and requests while choking (506) are counted only by the sender.

Connections:

* The message queue gives messages of one priority in any order
  (`TSDataPriorityQueue.cpp:21-24, 44-61`): CHOKE and UNCHOKE, HAVE and bitfield,
  REQUEST and CANCEL of one peer may be swapped. A REQUEST handled before an earlier
  CANCEL of its slice is erased by that and never answered, while the peer waits
  (`PeerLink.cpp:552-575`).
* An abort of an earlier connection may reach the next link of its address, which
  is deleted while its `PeerIO` stays registered (`PeerManager.cpp:670-707`).
* With a maximum of 20 connections the loop that closes slow peers runs until there
  are fewer than 0, that is for ever (`PeerManager.cpp:389`); the setter allows 20
  (`Setting.cpp:141-144`), as does the assertion before the loop (388).
* A dial that is established and refused (the peer is connected already under
  another address) stays in `m_connecting_peers` (`PeerManager.cpp:574`;
  `PeerManager.h:142` says addresses without a link can be added).
* When a new worker gets the thread id of an earlier one while a dial of that one is
  under way (`ReuseId`), an event of the old dial is taken for one of the new task.
* Status calls make a vector of n and append n more, so the first half is empty
  (`PeerManager.cpp:884-895`, `TrackerManager.cpp:91-102`). Bytes a connection moved
  since the last tick are lost from the totals when it closes
  (`PeerManager.cpp:446-452`).

Tasks and what survives:

* `RemoveTask` deletes the torrent copy (`DownloaderManager.cpp:405-409`) before it
  saves (414). After a crash in between, the torrent can be added again, for
  `AddTask` looks at the map only (334); if the program ends before the next save,
  the old record revives and claims pieces that were overwritten since.
* `AddTask` saves nothing (343): after a crash the copy is there without a record,
  and the torrent cannot be added again. Nor can two torrents of one name.
* What is posted to a worker between the barrier (`Downloader.cpp:506`) and its
  `MsgContext` (509) is dropped; a dial cannot be among it, an incoming connection
  can.
* Pieces completed in the last second before a stop are on the disk but not in the
  saved bitfield: `m_bitfield` follows at the tick.
* While the default save path names no directory, no saved setting is loaded
  (`Setting.cpp:262`), and all recorded tasks are forgotten at `Init` although each
  has a path of its own (`Downloader.cpp:208`). Loading does not raise small values
  as the setters do (208-285).
* A resume file larger than 2 MB is written but not read (`Resume.cpp:120-123, 262`).
* A torrent copy whose reading throws ends `Init` with services, acceptor and opened
  tasks left behind; a second `Init` has them twice
  (`DownloaderManager.cpp:131-181`).
* When `PeerAcceptor::Start` fails, the services are stopped before their threads may
  have come to `Run`, which then starts anew (`Selector.cpp:46`), and the join hangs
  (`DownloaderManager.cpp:125-129`).
* `MapFileToPieces` counts its end inclusively (`TorrentFile.cpp:595`):
  `GetFilesStatus` counts one piece too many, and for a file that ends with a full
  last piece `IsSet` asserts (`Bit.cpp:101-105`). `TorrentFile.cpp:186` checks the
  wrong length. `Load` does not compare the number of hashes with the length.
* `ResetSavePath` accepts any path and then refuses, since it looks at the old one
  (`Downloader.cpp:283`).

Trackers:

* The event of an announcement is never read: an `&` is missing
  (`HttpTracker.cpp:24`). A URL that is too long becomes an empty request (60-76).
  Over UDP, what was uploaded and the event are not turned into network order
  (`UDPTracker.cpp:149-153`), nothing is sent again, and a repeated reply to the
  connection fails the announcement (193).
* Of peers in the compact form six bytes are read and four left behind
  (`HttpTracker.cpp:376-383`): half of the peers are lost, others made up.
* A response without a reason loses its first header line (`HttpResponse.cpp:128`),
  an empty value takes the next line (42), a cut value is accepted (55, 77).
  Redirections have no limit (`HttpTracker.cpp:250`).
* Without a port the host keeps the path up to its last slash (`URL.cpp:168,
  203-205`), a path of one character becomes a slash (170). `URLDecoder`, unused,
  loses the byte zero.

Selector and library:

* A timer comes early on a busy socket, since the elapsed time is taken off without
  a new start of the watch (`Selector.cpp:112-121`; the comment at 107 says
  otherwise), and late after errors of `select` (153-157). A handle that was closed
  and given again may be called for the readiness of the old one (176;
  `Selector.h:26`), which ends a healthy link.
* `TSDataFlow`, unused: `Clear` wakes one of the producers that wait (212-217);
  without a timeout `Enqueue` fills the queue with one item and never returns, and
  `Dequeue` loses all but the last (99-134).
* An empty ring shows its block (`Buffer.cpp:268-281`).
* Numbers too large are cut silently, text behind a number is ignored.
* A stream over a file skips nothing and has one position for reading and writing
  (`FileStreamBuffer.h:190-194`); a read behind a seek past the end does not throw
  and gives what memory held (`FileStreamBuffer.cpp:77-80`, `DataStream.cpp:52-59`).
  `STD_READ` cannot open what is being written.
* A file in the working directory cannot be made, for `.\` is no valid path; the root
  of a drive is refused as save path (`Setting.cpp:87`); renaming a root loses its
  path (`PathImpl.cpp:197-218`).
* `deelx.h`: `(a|ab)*` misses "aba" (3778-3793), `MatchExact` gives up after two empty
  matches (3123), a stale group index after an independent part was given up, a
  bracket inside a set makes all behind it plain (1943-1950), an unclosed comment
  repeats the last token (1865-1889). In `Replace`, unused, `$&` and its like are
  replaced and also kept (3326-3334), and from the right the place of the last
  replacement is counted behind the text (3563-3564).

## 7. Plan

Done, most important first: piece manager and its proofs, links and the proof of
`Exclusive`, connections, upload, tasks; storage and its refinement, trackers,
selector, messages and the lock, timers; the formats and the library.

Proved: every invariant and every action property the runs check, and the refinement
of `PieceStore` by `Storage`. What the runs check and no theorem states are the
liveness properties: `DisconnectEnds`, `DialSettles`, `RequestsAnswered`,
`CallsReturn`, `TrackersAreTold`, `StopReturns`, `DataIsSent`.

Next: facts about the buffers and formats that need no induction over data
(`SimpleBuffer`, the ring of `Buffers`, `BlockHash`), and an abstract specification
of the pool of `Tracker` that its queue refines.

## 8. Running

    tlc -config PeerLink.cfg MCPeerLink            # likewise the other runs
    tlapm DownloaderProofs.tla

`PROJECT.json` lists module and configuration of every run. The longest
(`connections`, `storage`, `selector`, `upload`, `trackers`) take one to two minutes
each with two workers.
