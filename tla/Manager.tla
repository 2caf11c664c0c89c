------------------------------- MODULE Manager -------------------------------
(***************************************************************************)
(* DownloaderManager (DownloaderManager.cpp) and what its calls do to the  *)
(* objects it has: GlobalSetting, ResumeInfo, ServiceManager, the          *)
(* PeerAcceptor and the Downloaders, one call after the other and with     *)
(* what can fail in the middle of one.  Task has the threads that run in   *)
(* between.                                                                *)
(*                                                                         *)
(* The world is [kind, disk, settings, resume, refused]: what a path is,   *)
(* the torrents on the disk, Bad or Broken where there is none to be read, *)
(* the contents of the two files, and the ports nobody may listen on.      *)
(***************************************************************************)
EXTENDS Integers, SequencesExt, FiniteSetsExt

CONSTANTS Workers, MaxResume    \* WORKER_THREAD_SIZE; 2*MB, in records

Bad == [hash |-> "bad"]         \* no torrent
Broken == [hash |-> "broken"]   \* reading it throws

-----------------------------------------------------------------------------
(* ResumeInfo, a map from info hashes.                                     *)

IsRecorded(map, hash) == hash \in DOMAIN map
AddRecord(map, info) ==
    IF IsRecorded(map, info.infohash) THEN map
    ELSE [h \in DOMAIN map \cup {info.infohash} |-> IF h = info.infohash THEN info ELSE map[h]]
DropRecord(map, hash) == Restrict(map, DOMAIN map \ {hash})
UpdateRecord(map, info) ==
    IF IsRecorded(map, info.infohash) THEN [map EXCEPT ![info.infohash] = info] ELSE map

\* What Save writes; a record takes about as much as another.
ResumeFile(map) == [size |-> Cardinality(DOMAIN map), map |-> map]
\* A file that is too large is cut to nothing.
OpenResume(file) == IF file.size > MaxResume THEN Restrict(file.map, {}) ELSE file.map

-----------------------------------------------------------------------------
(* IPFilter, a set of peers.                                               *)

BandAddress(filter, pe) == filter \cup {pe}
UnBandAddress(filter, pe) == filter \ {pe}
IsBand(filter, pe) == pe \in filter
ClearFilter(filter) == {}

-----------------------------------------------------------------------------
(* NetService: the handlers of each selector.                              *)

StartNet(count) == [i \in 1..(IF count < 1 THEN 1 ELSE count) |-> {}]
StopNet == <<>>

\* The first of those that have the fewest.
LeastLoaded(net) ==
    CHOOSE i \in DOMAIN net :
        /\ \A j \in DOMAIN net : Cardinality(net[i]) <= Cardinality(net[j])
        /\ \A j \in 1..i - 1 : Cardinality(net[i]) < Cardinality(net[j])
RegisterHandler(net, handler) == [net EXCEPT ![LeastLoaded(net)] = @ \cup {handler}]
RemoveHandler(net, handler) ==
    LET has == {i \in DOMAIN net : handler \in net[i]}
    IN  IF has = {} THEN [ok |-> FALSE, net |-> net]
        ELSE [ok |-> TRUE, net |-> [net EXCEPT ![Min(has)] = @ \ {handler}]]

-----------------------------------------------------------------------------
(* PeerAcceptor: its handler, by its port.  A port may be listened on      *)
(* twice, since addresses are reused.                                      *)

NoAcceptor == [port |-> 0]
Listens(port, net) ==
    [port |-> port, n |-> Cardinality({h \in UNION ToSet(net) : h.port = port})]
StartAcceptor(net, world, port) ==
    LET handler == Listens(port, net)
    IN  IF port \in world.refused THEN [ok |-> FALSE, net |-> net, acceptor |-> NoAcceptor]
        ELSE [ok |-> TRUE, net |-> RegisterHandler(net, handler), acceptor |-> handler]
StopAcceptor(net, acceptor) ==
    IF acceptor = NoAcceptor THEN net ELSE RemoveHandler(net, acceptor).net

-----------------------------------------------------------------------------
(* Downloader.                                                             *)

NBytes(n) == (n + 7) \div 8
NewDownloader(setting) ==
    [open |-> FALSE, state |-> "stop", save_path |-> setting.save_path, torrent |-> Bad, bits |-> {}]

\* The path that is looked at is the one the object has, not the one given.
Open(pd, world, torrent_path, save_path) ==
    LET torrent == IF torrent_path \in DOMAIN world.disk THEN world.disk[torrent_path] ELSE Bad
        no(is) == [is |-> is, pd |-> pd]
    IN  CASE pd.open \/ world.kind[pd.save_path] # "dir" \/ torrent = Bad -> no("refused")
          [] ~pd.open /\ world.kind[pd.save_path] = "dir" /\ torrent = Broken -> no("thrown")
          [] OTHER -> [is |-> "open",
                       pd |-> [pd EXCEPT !.open = TRUE, !.torrent = torrent,
                                         !.save_path = save_path, !.bits = {}]]

SetOwnPieces(pd, bits) == IF pd.open /\ pd.state = "stop" THEN [pd EXCEPT !.bits = bits] ELSE pd
ResetSavePath(pd, world, save_path) ==
    IF ~pd.open \/ pd.state # "stop" \/ world.kind[pd.save_path] # "dir"
    THEN [ok |-> FALSE, pd |-> pd]
    ELSE [ok |-> TRUE, pd |-> [pd EXCEPT !.save_path = save_path]]
Stopped(pd) == [pd EXCEPT !.state = "stop"]
Close(pd, setting) ==
    IF ~pd.open \/ pd.state # "stop" THEN pd ELSE NewDownloader(setting)
\* Of so many pieces so many are there.
GetFinishedDegree(pd) == <<Cardinality(pd.bits), pd.torrent.pieces>>
\* Whether a message is posted.
ReLoadSetting(pd) == pd.open /\ pd.state = "running"

-----------------------------------------------------------------------------
(* DownloaderManager: [initialized, path, setting, resume, net, acceptor,  *)
(* filter, list].                                                          *)

NewManager ==
    [initialized |-> FALSE, path |-> "", setting |-> [save_path |-> "", port |-> 0], resume |-> [h \in {} |-> Bad],
     net |-> StopNet, acceptor |-> NoAcceptor, filter |-> {}, list |-> <<>>]

torrent_to_save_name(torrent) == torrent.name
SavedAs(d, torrent) == <<d.path, torrent_to_save_name(torrent)>>
RecordOf(pd) ==
    [infohash |-> pd.torrent.hash, nbytes |-> NBytes(pd.torrent.pieces), own_pieces |-> pd.bits,
     save_path |-> pd.save_path, torrent_name |-> torrent_to_save_name(pd.torrent)]

IsExisted(d, hash) == \E i \in DOMAIN d.list : d.list[i].torrent.hash = hash

\* One recorded task: it is opened, or it is bad data, or everything ends.
TaskOpened(d, world, info) ==
    LET r == Open(NewDownloader(d.setting), world, <<d.path, info.torrent_name>>, info.save_path)
        fits == r.is = "open" /\ info.nbytes = NBytes(r.pd.torrent.pieces)
        own == SetOwnPieces(r.pd, info.own_pieces \cap 0..r.pd.torrent.pieces - 1)
    IN  CASE r.is = "thrown" -> [d EXCEPT !.thrown = TRUE]
          [] r.is # "thrown" /\ ~fits -> [d EXCEPT !.bad = @ \cup {info.infohash}]
          [] OTHER -> [d EXCEPT !.list = Append(@, own)]

\* order is the order of the info hashes in the map.
Opened(d, world, order) ==
    FoldLeft(LAMBDA e, hash : IF e.thrown THEN e ELSE TaskOpened(e, world, d.resume[hash]),
             [thrown |-> FALSE, bad |-> {}] @@ d, order)

Refuse(d) == [ok |-> FALSE, d |-> d]

\* The services were started; when the acceptor cannot be, they are stopped
\* by the destructor of ServiceManager.  After that nothing is taken back.
Init(d, world, resume_path, config_path, torrent_path, order) ==
    LET named == [d EXCEPT !.path = torrent_path]
        a == StartAcceptor(StartNet(Workers), world, world.settings.port)
        released == [named EXCEPT !.setting = world.settings, !.resume = OpenResume(world.resume),
                                  !.filter = {}, !.net = a.net, !.acceptor = a.acceptor]
        e == Opened(released, world, SelectSeq(order, LAMBDA h : IsRecorded(released.resume, h)))
        after == [released EXCEPT !.list = e.list]
    IN  IF d.initialized \/ world.kind[torrent_path] # "dir" THEN Refuse(d)
        ELSE IF world.kind[resume_path] # "file" \/ world.kind[config_path] # "file" \/ ~a.ok
        THEN Refuse(named)
        ELSE IF e.thrown THEN Refuse(after)
        ELSE [ok |-> TRUE,
              d |-> [after EXCEPT !.initialized = TRUE,
                                  !.resume = Restrict(@, DOMAIN @ \ e.bad)]]

ResumeDataUpdate(d) ==
    [d EXCEPT !.resume = FoldLeft(LAMBDA map, pd : UpdateRecord(map, RecordOf(pd)), @, d.list)]

\* The world has what was saved.
UnInit(d, world) ==
    LET saved == ResumeDataUpdate(d)
    IN  IF ~d.initialized THEN [d |-> d, world |-> world]
        ELSE [d |-> [NewManager EXCEPT !.path = d.path],
              world |-> [world EXCEPT !.settings = d.setting,
                                      !.resume = ResumeFile(saved.resume)]]

AddTask(d, world, torrent_path) ==
    LET no == [ok |-> FALSE, d |-> d, world |-> world]
        r == Open(NewDownloader(d.setting), world, torrent_path, d.setting.save_path)
        copy == SavedAs(d, r.pd.torrent)
    IN  IF ~d.initialized \/ d.setting.save_path = "" \/ r.is # "open" THEN no
        ELSE IF IsRecorded(d.resume, r.pd.torrent.hash) \/ copy \in DOMAIN world.disk THEN no
        ELSE [ok |-> TRUE,
              d |-> [d EXCEPT !.resume = AddRecord(@, RecordOf(r.pd)), !.list = Append(@, r.pd)],
              world |-> [world EXCEPT !.disk =
                  [p \in DOMAIN @ \cup {copy} |-> IF p = copy THEN r.pd.torrent ELSE @[p]]]]

RemoveTask(d, world, hash) ==
    LET first == SelectInSeq(d.list, LAMBDA pd : pd.torrent.hash = hash)
        copy == SavedAs(d, d.list[first].torrent)
        map == DropRecord(d.resume, hash)
    IN  IF ~d.initialized \/ ~IsExisted(d, hash) THEN [ok |-> FALSE, d |-> d, world |-> world]
        ELSE [ok |-> TRUE,
              d |-> [d EXCEPT !.resume = map, !.list = RemoveAt(@, first)],
              world |-> [world EXCEPT !.disk = Restrict(@, DOMAIN @ \ {copy}),
                                      !.resume = ResumeFile(map)]]

\* The new acceptor is started before the old one is stopped.
ResetListenPort(d, world) ==
    LET a == StartAcceptor(d.net, world, d.setting.port)
    IN  IF d.setting.port = d.acceptor.port THEN [ok |-> TRUE, d |-> d]
        ELSE IF ~a.ok THEN Refuse(d)
        ELSE [ok |-> TRUE, d |-> [d EXCEPT !.acceptor = a.acceptor,
                                           !.net = StopAcceptor(a.net, d.acceptor)]]
GetCurrListenPort(d) == d.acceptor.port

CopyTorrentFileTo(d, world, path, torrent) ==
    LET from == SavedAs(d, torrent)
        to == <<path, torrent_to_save_name(torrent)>>
    IN  IF world.kind[path] # "dir" \/ from \notin DOMAIN world.disk \/ to = from
        THEN [ok |-> FALSE, world |-> world]
        ELSE [ok |-> TRUE, world |-> [world EXCEPT !.disk =
                 [p \in DOMAIN @ \cup {to} |-> IF p = to THEN @[from] ELSE @[p]]]]

ClearIPFilter(d) == [d EXCEPT !.filter = ClearFilter(@)]

\* The tasks that are told.
ReloadSetting(d) == {d.list[i].torrent.hash : i \in {i \in DOMAIN d.list : ReLoadSetting(d.list[i])}}
=============================================================================
