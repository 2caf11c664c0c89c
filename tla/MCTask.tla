------------------------------- MODULE MCTask -------------------------------
(***************************************************************************)
(* The tasks of Task, and on small inputs what they are made of: the       *)
(* record and the settings are bencoded dictionaries (Bencoding,           *)
(* SavedFiles), the copy of the torrent is read as one (TorrentFile), the  *)
(* pieces of a task are a bit set (BitSet), its files have paths           *)
(* (FileSystem) and bytes (Streams), numbers and infohashes have texts     *)
(* (Numbers); the calls of the manager come one after the other (Manager). *)
(* Hashes in files have one byte here.                                     *)
(***************************************************************************)
EXTENDS Task, Sequences

LOCAL INSTANCE FiniteSetsExt
LOCAL INSTANCE SequencesExt

B == INSTANCE Bencoding
T == INSTANCE TorrentFile WITH HashLength <- 1
BS == INSTANCE BitSet WITH NBits <- 12
F == INSTANCE FileSystem
St == INSTANCE Streams WITH Junk <- 77, Wrap <- 1000
N == INSTANCE Numbers WITH Bits <- 8
M == INSTANCE Manager WITH Workers <- 2, MaxResume <- 1

Keys == {<<"P">>, <<"D">>, <<"U">>, <<"L">>, <<"R">>, <<"C">>, <<"M">>}
MCMinimum == [key \in Keys |->
    CASE key \in {<<"L">>, <<"R">>} -> 5 [] key = <<"C">> -> 20 [] OTHER -> 0]
S == INSTANCE SavedFiles WITH
         HashLength <- 1,
         Default <- [key \in Keys |-> IF key = <<"C">> THEN 40 ELSE MCMinimum[key]],
         Width <- [key \in Keys |-> IF key = <<"P">> THEN 4 ELSE 6],
         Minimum <- MCMinimum, Directory <- {<<"d">>, <<"d", "e">>}

-----------------------------------------------------------------------------
(* Bencoding.                                                               *)

Bytes == {"d", "e", "i", ":", "1"}
Texts == {<<>>, <<"e">>, <<"1", ":">>}
Leaves == {B!Integer(n) : n \in {0, 7, 10, 905}} \cup {B!String(s) : s \in Texts}
Lists == {B!List(l) : l \in {<<>>} \cup [1..1 -> Leaves] \cup [1..2 -> Leaves]}
Values == Leaves \cup Lists \cup {B!Dict(<<<<s, v>>>>) : s \in Texts, v \in Leaves}
Entries ==
    {<<>>} \cup {<<<<s, v>>>> : s \in Texts, v \in Values} \cup
    {<<<<<<>>, v>>, <<s, w>>>> : s \in Texts \ {<<>>}, v \in Values, w \in Leaves}

Cuts(text) == {SubSeq(text, 1, n) : n \in 0..Len(text) - 1}

\* What was encoded is decoded, whatever stands behind it (BencodingEncoder.cpp
\* 77-140, BencodingDecoder.cpp 82-229), and a key is found where its value is.
ASSUME DecodesEncoded ==
    \A entries \in Entries : LET text == B!GenContent(entries) IN
        /\ \A more \in Texts : B!ReadDict(text \o more, 1) =
              [read |-> Len(text), value |-> B!Dict(entries)]
        /\ \A i \in DOMAIN entries :
              LET pos == B!LocateKey(text, 1, entries[i][1])
                  value == B!Write(entries[i][2])
              IN  SubSeq(text, pos, pos + Len(value) - 1) = value

\* A text that was cut anywhere is refused: the decoder never takes what a
\* crash left of a file for all of it.
ASSUME CutIsRefused ==
    \A entries \in Entries : \A text \in Cuts(B!GenContent(entries)) :
        B!ReadDict(text, 1).read = 0

\* Any text the decoder takes for a dictionary lies in the file and has every
\* key once; encoded and decoded again it is the same.
ASSUME DecodedIsCanonical ==
    \A n \in 1..6 : \A text \in [1..n -> Bytes] :
        LET dict == B!ReadDict(text, 1)  entries == dict.value.dict IN
        dict.read # 0 =>
            /\ dict.read <= n
            /\ \A i, j \in DOMAIN entries : entries[i][1] = entries[j][1] => i = j
            /\ B!ReadDict(B!GenContent(entries), 1).value = dict.value

-----------------------------------------------------------------------------
(* The record of the tasks.                                                 *)

Infos == [infohash : {<<"d">>, <<"2">>}, own_pieces : {<<"e">>, <<"1", ":">>},
          save_path : {<<>>, <<"e">>}, torrent_name : {<<":">>}]
Records ==
    {<<>>} \cup [1..1 -> Infos] \cup
    {r \in [1..2 -> Infos] : r[1].infohash # r[2].infohash}

\* A saved record is loaded as it was, and of one that a crash cut nothing is
\* loaded: so Task's Write leaves all of the record or none (Resume.cpp
\* 148-268).
ASSUME LoadsSaved ==
    \A tasks \in Records : LET file == S!SaveTasks(tasks) IN
        /\ S!LoadTasks(file) = {tasks[i] : i \in DOMAIN tasks}
        /\ \A cut \in Cuts(file) : S!LoadTasks(cut) = {}

-----------------------------------------------------------------------------
(* The settings.                                                            *)

Numbers == {0, 4, 15}
Settings ==
    {S!SetDefaultSavePath(S!SetNumber(S!SetNumber(S!NewSetting, k, m), l, n), path) :
        k, l \in Keys, m, n \in Numbers, path \in {<<"d">>, <<"e">>}}

\* Saved settings are loaded as they were if the default path names a directory,
\* and are all dropped while it names none, as it does until it was set
\* (Setting.cpp 262); a cut file leaves the defaults.
ASSUME LoadsSettings ==
    \A setting \in Settings : LET file == S!SaveSetting(setting) IN
        /\ S!LoadSetting(file) = IF setting.save_path = <<"d">> THEN setting ELSE S!NewSetting
        /\ S!LoadSetting(SubSeq(file, 1, Len(file) - 1)) = S!NewSetting

\* What is set is no smaller than the setters allow; what is loaded is what the
\* file says, cut to the width (208-285), so a file that was edited may give a
\* task fewer connections than check_need_disconnect_peers expects.
ASSUME LoadedMayBeSmall ==
    /\ \A setting \in Settings, key \in Keys : setting.number[key] >= MCMinimum[key]
    /\ \A key \in Keys, n \in Numbers :
          LET edited == [S!NewSetting EXCEPT !.number[key] = n, !.save_path = <<"d">>]
          IN  S!LoadSetting(S!SaveSetting(edited)).number[key] = n

-----------------------------------------------------------------------------
(* Torrents.                                                                *)

\* A torrent of files and the pieces they need; keys before and behind info.
Info(lengths, piece_length) ==
    LET total == T!FoldLeft(+, 0, lengths)
        File(n) == T!Dict(<<<<T!KEY_LENGTH, T!Integer(n)>>>>)
    IN  << <<T!KEY_PIECES, T!String([i \in 1..(total - 1) \div piece_length + 1 |->
                                        T!Digit[(i % 2) + 1]])>>,
           IF Len(lengths) = 1 THEN <<T!KEY_LENGTH, T!Integer(lengths[1])>>
           ELSE <<T!KEY_FILES, T!List([i \in DOMAIN lengths |-> File(lengths[i])])>>,
           <<T!KEY_PIECE_LENGTH, T!Integer(piece_length)>> >>

Url == <<"d">>
Torrent(info) ==
    T!GenContent(<< <<T!KEY_ANNOUNCE_LIST, T!List(<<T!List(<<T!String(Url)>>)>>)>>,
                    <<T!KEY_INFO, T!Dict(info)>>,
                    <<T!KEY_ANNOUNCE, T!String(<<>>)>> >>)

FileLengths == {l \in (0..5) \X (0..5) \X (0..5) : l # <<0, 0, 0>>} \cup {<<n>> : n \in 1..9}

\* What Load finds: the lengths, a hash for each piece, the hash of just the
\* bytes of the info dictionary; the lengths of the pieces, all positive, add
\* up to the whole.  A cut torrent is refused.
ASSUME LoadsTorrent ==
    \A lengths \in FileLengths, piece_length \in 1..4 :
        LET info == Info(lengths, piece_length)
            tf == T!Load(Torrent(info))
            all == 0..tf.piece_count - 1
        IN  /\ tf.loaded /\ tf.announces = <<Url>> /\ tf.files = lengths
            /\ tf.infohash = T!Write(T!Dict(info))
            /\ \A p \in all : T!GetPieceLength(tf, p) \in 1..piece_length
            /\ T!MapThenSumSet(LAMBDA p : T!GetPieceLength(tf, p), all) = tf.total_length

ASSUME CutTorrentIsRefused ==
    \A lengths \in {<<3>>, <<1, 0, 2>>} :
        \A cut \in Cuts(Torrent(Info(lengths, 2))) : ~T!Load(cut).loaded

\* A file is loaded when it can be opened, is not too large and is read to its
\* end; what does not load leaves what was loaded before (63-351), and an index
\* out of range throws.
ASSUME LoadKeepsTheLast ==
    \A n \in 0..4 :
        LET text == Torrent(Info(<<1, 2>>, 2))
            tf == T!Load(Torrent(Info(<<3>>, 1)))
            tries == {T!LoadFile(tf, [opens |-> opens, bytes |-> text, read |-> read], limit) :
                         opens \in BOOLEAN, read \in {n, Len(text)}, limit \in Len(text) - 1..Len(text)}
        IN  /\ \A r \in tries : IF r.ok THEN r.tf = T!Load(text) ELSE r.tf = tf
            /\ \E r \in tries : r.ok
            /\ \A i \in 0..3 : /\ T!GetFileInfo(T!Load(text), i) = T!Invalid <=> i >= 2
                              /\ T!GetAnnounce(tf, i) = T!Invalid <=> i >= 1

\* The pieces of which GetFilesStatus counts the owned ones cover the file; one
\* is too many where the file ends with a piece (TorrentFile.cpp 595), and for
\* a file that ends with the last piece, when it is full, this is no piece of
\* the torrent: IsSet asserts and throws (Bit.cpp 101-105).
ASSUME StatusPiecesKnown ==
    \A lengths \in FileLengths, piece_length \in 1..4 :
        LET tf == T!Load(Torrent(Info(lengths, piece_length))) IN
        \A f \in 0..Len(lengths) - 1 :
            LET start == T!FileStart(tf, f)  end == start + lengths[f + 1]
                touched == {byte \div piece_length : byte \in start..end - 1}
            IN  /\ touched \subseteq T!StatusPieces(tf, f)
                /\ T!StatusPieces(tf, f) \ touched =
                      IF end % piece_length = 0 \/ touched = {}
                      THEN {end \div piece_length} ELSE {}
                /\ T!StatusPieces(tf, f) \subseteq 0..tf.piece_count - 1 <=>
                      end < tf.piece_count * piece_length

-----------------------------------------------------------------------------
(* Bit sets.                                                                *)

LastBytes == {0, 64, 129, 200, 255}
SetOf(bs) == {n \in 0..bs.nbits - 1 : BS!IsSet(bs, n)}
BitSets == {BS!Reset(raw, n) : raw \in LastBytes \X LastBytes, n \in {3, 8, 9, 15, 16}}

\* A bit set is the set of the bits in its bytes and has no other bits, so
\* equal sets have equal contents whatever stood behind the last bit; each
\* operation is one on sets (Bit.cpp 99-447).
ASSUME BitSetIsSet ==
    \A bs \in BitSets :
        LET all == 0..bs.nbits - 1
            set == SetOf(bs)
            Of(bits) == BS!WithBits(bs.nbits, bits)
        IN  /\ bs = Of(set) /\ BS!Reset(bs.bytes, bs.nbits) = bs
            /\ BS!Flip(bs) = Of(all \ set)
            /\ BS!IsEmpty(bs) <=> set = {}
            /\ BS!IsAllSet(bs) <=> set = all
            /\ \A n \in all :
                  /\ BS!Set(bs, n) = Of(set \cup {n})
                  /\ BS!UnSet(bs, n) = Of(set \ {n})
                  /\ BS!ShiftLeft(bs, n) = Of({i - n : i \in set} \cap all)
                  /\ BS!ShiftRight(bs, n) = Of({i + n : i \in set} \cap all)
            /\ \A other \in {o \in BitSets : o.nbits = bs.nbits} :
                  /\ BS!And(bs, other) = Of(set \cap SetOf(other))
                  /\ BS!Or(bs, other) = Of(set \cup SetOf(other))
                  /\ BS!Xor(bs, other) =
                        Of((set \cup SetOf(other)) \ (set \cap SetOf(other)))

-----------------------------------------------------------------------------
(* Paths on small disks: two drives' worth of names, directories two deep, the*)
(* working directory, and every set of busy files.                         *)

Codes(string) == F!B!Codes(string)
Root == Codes("c:\\")
Here == Codes(".\\")
PathNames == {Codes("a"), Codes("b "), Codes("ab")}
Dirs(above) == {dir \o name \o <<F!SP>> : dir \in above, name \in PathNames}
Files(above) == {dir \o name : dir \in above, name \in PathNames}

\* The type of a path is what was built, and a directory and a name make it up
\* again (PathImpl.cpp 245-285, 386-444).
ASSUME PathParts ==
    LET Ok(path, type) ==
            LET p == F!Reset(path) IN
            p.type = type /\ p.path = path /\
            p.parent \o p.name \o (IF type = "PATH_DIR" THEN <<F!SP>> ELSE <<>>) = path
    IN  /\ \A above \in {Dirs({Root}), Dirs({Here})} :
              /\ \A path \in above \cup Dirs(above) : Ok(path, "PATH_DIR")
              /\ \A path \in Files(above \cup {Root, Here}) : Ok(path, "PATH_FILE")
        /\ F!Reset(Root).type = "PATH_ROOT"
        /\ \A text \in {"", "a", ".\\", "c:", "c:\\a\\\\b", "c:\\a?", "c:\\b\\a\\ \\"} :
              F!Reset(Codes(text)).type = "INVALID_PATH"

----------------------------------------------------------------------------
(* Disks: what is below a directory of the volume is on it.                   *)

D1 == Root \o Codes("a\\")
D2 == Root \o Codes("ab\\")
D3 == D1 \o Codes("a\\")
F1 == D1 \o Codes("ab")
F2 == D3 \o Codes("ab")
F3 == Root \o Codes("b ")
Above(p) == {F!ToLast(Front(q)) : q \in {SubSeq(p, 1, n) : n \in 1..Len(p)}} \ {<<>>}
Parent(p) == F!ToLast(IF p[Len(p)] = F!SP THEN Front(p) ELSE p)
Rooted(volume) == \A p \in volume : p \in {Root, Here} \/ Parent(p) \in volume
Everything == {Root, Here, D1, D2, D3, F1, F2, F3}
Disks == {volume \in SUBSET Everything : {Root, Here} \subseteq volume /\ Rooted(volume)}
PathsOn == Everything \cup {Here \o Codes("a\\"), Here \o Codes("a\\b")}

\* Make leaves what was there and adds the path with the directories above it
\* and nothing else; TRUE says that the path is there (PathImpl.cpp 116-147,
\* 456-481).
ASSUME MakesThePath ==
    \A path \in PathsOn : LET p == F!Reset(path) IN \A volume \in Disks :
        LET r == F!Make(volume, p)
            new == r.disk \ volume
        IN  /\ volume \subseteq r.disk /\ new \subseteq {path} \cup Above(path) /\ Rooted(r.disk)
            /\ path # Here => r.ok /\ path \in r.disk

\* A file of the working directory itself is not made: its directory is no
\* path by the expressions.
ASSUME FileHereNotMade ==
    LET path == Here \o Codes("a") IN
    F!Make({Here}, F!Reset(path)) = [disk |-> {Here}, ok |-> FALSE]

\* Remove takes a directory with all that is in it and nothing else, but for
\* busy files and the directories they are in; TRUE says that the path is gone
\* (28-70, 492-507).
ASSUME RemovesWhatIsBelow ==
    \A path \in Everything \ {Root, Here} : LET p == F!Reset(path) IN
    \A volume \in Disks : \A busy \in SUBSET (volume \cap {F1, F2, F3}) :
        LET r == F!Removed(volume, busy, p)
            gone == volume \ r.disk
        IN  /\ r.disk \subseteq volume /\ Rooted(r.disk) /\ busy \subseteq r.disk
            /\ gone \subseteq F!Below(volume, path)
            /\ r.ok <=> path \in volume /\ path \notin r.disk
            /\ F!Below(busy, path) = {} => F!Below(r.disk, path) = {}

\* Rename keeps the number of files and all that is not below the path, and
\* the object then stands for the new path, unless the name is taken.  A drive
\* is not renamed, and its object is left without a path (197-218).
ASSUME RenamesThePath ==
    \A path \in Everything \ {Here} : LET p == F!Reset(path) IN
    \A volume \in Disks, name \in PathNames :
        LET r == F!Rename(volume, p, name)
        IN  /\ Rooted(r.disk) /\ Cardinality(r.disk) = Cardinality(volume)
            /\ volume \ F!Below(volume, path) \subseteq r.disk
            /\ r.ok => r.p = F!Reset(r.p.path) /\ r.p.name = name /\ r.p.parent = p.parent
            /\ ~r.ok => r.disk = volume
            /\ p.type # "PATH_ROOT" => (~r.ok <=> path \notin volume \/ F!IsExisted(volume, p.parent \o name))
            /\ p.type = "PATH_ROOT" => r.p.type = "INVALID_PATH"

\* A tree iterator comes once to everything below its root, to a directory
\* before what is in it (TreeIterator.cpp 102-183).
ASSUME VisitsEverything ==
    \A volume \in Disks, path \in {Root, D1, F1} :
        path \in volume =>
            LET seen == F!Visited(volume, F!First(volume, F!Reset(path))) IN
            /\ F!IsInjective(seen)
            /\ ToSet(seen) = F!Below(volume, path) \ {p \in {path} : p[Len(p)] = F!SP}
            /\ \A i, j \in DOMAIN seen : F!Within(seen[j], seen[i]) => i <= j

-----------------------------------------------------------------------------
(* Files on disks of one or two files of at most three bytes, and streams of*)
(* items of one to three bytes in memory and on a disk.                    *)

File1 == <<99, 58, 92, 97>>
File2 == <<99, 58, 92, 98, 92, 97>>
FileBytes == {1, 2}
Contents == UNION {[1..n -> FileBytes] : n \in 0..3}
System(volume, room) == [disk |-> volume, opened |-> [i \in {} |-> 0], room |-> room]
OneFile(data, room) == System([p \in {File1} |-> data], room)
OpenModes == {{a[1], d[1], s[1]} : a \in ToSet(F!Accesses), d \in ToSet(F!Dispositions), s \in ToSet(F!Shares)}
\* The modes the program uses: files of a torrent (Storage.cpp 183), settings
\* and records (Setting.cpp 164, Resume.cpp 115), torrents (TorrentFile.cpp 69).
ModesUsed == {F!STD_READ, F!STD_WRITE, {"F_READ_WRITE", "F_OPEN_ALWAYS", "F_SHARED_READ"}}
Written(data, room) == F!Open(OneFile(data, room), F!Closed, File1, F!STD_WRITE)

\* Opening changes the volume only when a file is made or emptied, and what
\* cannot be opened is left alone (FileImpl.cpp 43-65, 305-378).
ASSUME OpenLeavesTheRest ==
    \A data \in Contents, mode \in OpenModes, path \in {File1, File2} :
        LET sys == OneFile(data, 9)
            r == F!Open(sys, F!Closed, path, mode)
            creates == {"F_CREATE_NEW", "F_CREATE_ALWAYS", "F_OPEN_ALWAYS"} \cap mode # {}
            empties == {"F_CREATE_ALWAYS", "F_TRUNC"} \cap mode # {}
        IN  /\ r.val = F!IsOpen(r.f) /\ (~r.val => r.sys = sys)
            /\ path = File2 => (r.val <=> creates)
            /\ r.val => /\ r.sys.disk[path] = IF path = File2 \/ empties THEN <<>> ELSE data
                        /\ path = File2 => r.sys.disk[File1] = data
                        /\ F!Close(r.sys, r.f).sys.opened = sys.opened

\* Whoever may write a file has it alone: of two objects that have a file open
\* at a time, neither writes.
ASSUME WriterIsAlone ==
    \A first, second \in ModesUsed :
        LET a == F!Open(OneFile(<<1>>, 9), F!Closed, File1, first)
            b == F!Open(a.sys, F!Closed, File1, second)
        IN  a.val /\ (b.val <=> first = F!STD_READ /\ second = F!STD_READ)

\* A seek comes to its place, there and back again is no move, and a place
\* before the start throws and moves nothing (150-198).
ASSUME SeeksThere ==
    \A data \in Contents, pos, offset \in 0..4, method \in {"BEG", "CURR", "END"} :
        LET open == Written(data, 9)
            s == F!Seek(open.sys, open.f, pos, "BEG", TRUE)
            there == F!Seek(s.sys, s.f, offset, method, TRUE)
            back == F!Seek(there.sys, there.f, offset, "CURR", FALSE)
            before == F!Seek(s.sys, s.f, offset, "CURR", FALSE)
        IN  /\ F!GetPos(there.sys, there.f) = there.val
            /\ back.val = there.val - offset
            /\ IF offset > pos THEN before.throws /\ before.sys = s.sys ELSE before.val = pos - offset
            /\ F!SeekToEnd(s.sys, s.f).val = Len(data) /\ F!SeekToBeg(s.sys, s.f).val = 0

\* A file is given its whole length or keeps its data, and after that no write
\* within the length fails for want of room or changes the length, whatever
\* else fills the volume (Storage.cpp 117-168, 99-114).
ASSUME AllocatedIsThere ==
    \A data \in Contents, need \in 0..4, room \in 0..4 :
        Len(data) <= need /\ Len(data) <= room =>
            LET open == Written(data, room)
                r == F!FullAllocate(open.sys, open.f, need)
                full == [r.sys EXCEPT !.room = need]
            IN  /\ r.val <=> need <= room \/ need = Len(data)
                /\ IsPrefix(data, F!Data(r.sys, r.f)) /\ F!GetLength(r.sys, r.f) = IF r.val THEN need ELSE Len(data)
                /\ r.val => \A offset \in 0..need : \A buf \in Contents :
                        offset + Len(buf) <= need =>
                            LET w == F!WriteAt(full, r.f, buf, offset) IN
                            w.val = Len(buf) /\ F!GetLength(w.sys, w.f) = need

\* Blocks written at their places, in whatever order, are read back, and are
\* the bytes of the file (80-114).
ASSUME BlocksAreRead ==
    \A order \in {<<0, 1, 3>>, <<0, 3, 1>>, <<1, 0, 3>>, <<1, 3, 0>>, <<3, 0, 1>>, <<3, 1, 0>>} :
    \A value \in [{0, 1, 3} -> FileBytes] :
        LET Block(offset) == IF offset = 1 THEN <<value[1], 3>> ELSE <<value[offset]>>
            open == Written(<<>>, 4)
            start == F!FullAllocate(open.sys, open.f, 4).sys
            end == FoldLeft(LAMBDA sys, offset : F!WriteAt(sys, open.f, Block(offset), offset).sys, start, order)
        IN  /\ \A offset \in {0, 1, 3} : F!ReadAt(end, open.f, Len(Block(offset)), offset).val = Block(offset)
            /\ F!Data(end, open.f) = Block(0) \o Block(1) \o Block(3)

\* What was added is cut again; a cut takes no more than there is; a read takes
\* what is there, and a closed file gives and takes nothing (138-158; FileImpl.cpp
\* 89-118).
ASSUME CutsAndEnds ==
    \A data \in Contents, size \in 0..4 :
        LET open == Written(data, 9)
            longer == F!IncreaseFileSize(open.sys, open.f, 9, size)
            cut == F!TruncateFileSize(longer.sys, open.f, size)
            less == F!TruncateFileSize(open.sys, open.f, size)
            closed == F!Close(open.sys, open.f)
        IN  /\ F!Data(cut.sys, cut.f) = data
            /\ F!Data(less.sys, less.f) = SubSeq(data, 1, Len(data) - size)
            /\ F!ReadAt(open.sys, open.f, size, 0).val = SubSeq(data, 1, IF size < Len(data) THEN size ELSE Len(data))
            /\ F!ReadAt(closed.sys, closed.f, size, 0).val = <<>> /\ F!Write(closed.sys, closed.f, data).val = 0

\* A copy has the bytes of its source, which stays, unless the copy is there
\* and being written or there is no room (283-295).
ASSUME CopyIsTheSame ==
    \A data, old \in Contents, writing \in {"none", "source", "copy"} :
        LET sys == System([p \in {File1, File2} |-> IF p = File1 THEN data ELSE old], 4)
            path == IF writing = "source" THEN File1 ELSE File2
            now == IF writing = "none" THEN sys ELSE F!Open(sys, F!Closed, path, F!STD_WRITE).sys
            r == F!FileCopyTo(now, File1, File2)
        IN  /\ r.val => r.sys.disk = [p \in {File1, File2} |-> data]
            /\ ~r.val => r.sys = now
            /\ r.val <=> writing # "copy" /\ 2 * Len(data) <= 4

\* The name and the directory of an open file make up its path (265-281).
ASSUME NamesTheFile ==
    \A path \in {File1, File2} :
        LET f == F!Open(System([p \in {path} |-> <<>>], 9), F!Closed, path, F!STD_READ).f IN
        F!GetFilePath(f) \o F!GetFileName(f) = path /\ F!GetFileName(f) = <<97>>

-----------------------------------------------------------------------------
(* Streams.                                                                *)

Items == {[size |-> St!ItemSize[type], val |-> v] : type \in {"Byte", "UInt16", "Int32"}, v \in {0, 7, 255}}
           \cup {[size |-> St!ItemSize[type], val |-> 258] : type \in {"UInt16", "Int32"}}
Streams == {St!OpenMem, St!OpenFile(System([i \in {} |-> 0], 40), File1)}
AtBegin(s) == IF s.of = "mem" THEN s ELSE St!SeekToBeg(s)
ReadAll(s, sizes) ==
    FoldLeft(LAMBDA r, size : LET one == St!ReadItem(r.s, size) IN [one EXCEPT !.got = r.got \o @],
             [s |-> s, got |-> <<>>, throws |-> FALSE], sizes)

\* Items written are read as they were, in order, one by one or as an array,
\* from memory and, after a seek to the start, from a file; then there is
\* nothing, and reading on throws and takes nothing (DataStream.cpp 49-137).
ASSUME ItemsAreRead ==
    \A s \in Streams : \A list \in UNION {[1..n -> Items] : n \in 1..3} :
        LET start == AtBegin(FoldLeft(St!WriteItem, s, list))
            sizes == [i \in DOMAIN list |-> list[i].size]
            r == ReadAll(start, sizes)
            uniform == \A i \in DOMAIN sizes : sizes[i] = sizes[1]
            array == AtBegin(St!WriteArray(s, list))
            over == St!ReadArray(array, sizes[1], Len(list) + 1)
        IN  /\ r.got = [i \in DOMAIN list |-> list[i].val] /\ ~r.throws
            /\ St!Available(r.s) = 0 /\ St!ReadItem(r.s, 1).throws
            /\ uniform => /\ St!ReadArray(array, sizes[1], Len(list)).got = r.got
                          /\ over.throws /\ over.s = array

\* To skip an item in memory is to read it, on a file it is nothing; a closed
\* file has nothing (FileStreamBuffer.h 178-194, MemStreamBuffer.cpp 80-89).
ASSUME SkipsInMemory ==
    \A s \in Streams, x, y \in Items :
        LET start == AtBegin(St!WriteItem(St!WriteItem(s, x), y))
            skipped == St!Skip(start, x.size)
        IN  /\ IF s.of = "mem" THEN St!ReadItem(skipped, y.size).got = <<y.val>> ELSE skipped = start
            /\ St!Available(St!Clear(start)) = 0

\* A file has one position: behind what was written there is nothing to read;
\* behind a seek past the end the bytes available are counted as less than
\* none, which is very many, and what is read is what memory held
\* (FileStreamBuffer.cpp 77-80, DataStream.cpp 52-59).
ASSUME PastTheEnd ==
    \A x \in Items, far \in 1..3 :
        LET s == St!WriteItem(St!OpenFile(System([i \in {} |-> 0], 40), File1), x)
            r == St!ReadItem(St!Seek(s, far, "CURR", TRUE), 1)
        IN  /\ St!ReadItem(s, 1).throws /\ St!SeekToEnd(St!SeekToBeg(s)) = s
            /\ ~r.throws /\ r.got = <<77>>

-----------------------------------------------------------------------------
(* Numbers of eight bits and hashes of twelve.                             *)

\* What is printed is read back as it was, with whatever width and whatever
\* stands behind the number; a negative number in hexadecimal comes back as the
\* number with the same bits (NumberFormatter.cpp 28-287, NumberParser.cpp 28-133).
ASSUME PrintedIsRead ==
    \A n \in N!Signed \cup N!Unsigned, width \in {1, 3, 5} :
        /\ \A text \in {N!Format(n), N!FormatWidth(n, width), N!Format0(n, width), N!Format(n) \o <<101>>} :
              /\ n \in N!Signed => N!TryParseInt(text) = [ok |-> TRUE, val |-> n]
              /\ n \in N!Unsigned => N!TryParseUInt(text) = [ok |-> TRUE, val |-> n]
        /\ \A text \in {N!FormatHex(n), N!FormatHexWidth(n, width)} :
              N!TryParseHex(text) = [ok |-> TRUE, val |-> N!AsUnsigned(n)]

\* A text is at least as wide as asked and wider only for the number's sake, and
\* is all number but for its blanks.
ASSUME WidthIsKept ==
    \A n \in N!Signed \cup N!Unsigned, width \in {1, 3, 5} :
        LET plain == Len(N!Format(n)) IN
        \A text \in {N!FormatWidth(n, width), N!Format0(n, width)} :
            Len(text) = IF plain < width THEN width ELSE plain

\* Only a text with a digit in front is a number, and a number too large is
\* cut to its low bits without a word (NumberParser.cpp 40-60, 113-116).
ASSUME CutNumbers ==
    /\ \A text \in {<<>>, <<32, 32>>, <<45>>, <<101, 49>>, <<45, 45, 49>>} :
          ~N!TryParseInt(text).ok /\ ~N!TryParseUInt(text).ok
    /\ \A n \in 0..700 : N!TryParseUInt(N!Format(n)) = [ok |-> TRUE, val |-> n % 256]

Hashes == {BS!Sha1Reset(<<a, b>>) : a \in {0, 1, 127, 128, 255}, b \in {0, 16, 128, 240}}
ValueOf(hash) == 256 * hash.bytes[1] + hash.bytes[2]

\* Hashes are ordered as the numbers their bytes are; exactly one of smaller,
\* equal and greater holds; and the highest bit of a distance says how far
\* apart two hashes are (Sha1Hash.cpp 51-176).
ASSUME HashesOrdered ==
    \A x, y \in Hashes :
        /\ BS!LessThan(x, y) <=> ValueOf(x) < ValueOf(y)
        /\ BS!GreaterThan(x, y) <=> ValueOf(x) > ValueOf(y)
        /\ BS!Equal(x, y) <=> ValueOf(x) = ValueOf(y)
        /\ BS!Log2N(BS!Distance(x, y)) = -1 <=> BS!Equal(x, y)
        /\ BS!LessThan(x, y) => LET n == BS!Log2N(BS!Distance(x, y)) + 4 IN
               ValueOf(x) \div 2^n + 1 = ValueOf(y) \div 2^n /\ ValueOf(y) \div 2^n % 2 = 1

\* Two hashes have the same name only when they are the same (179-190).
ASSUME NamesDiffer ==
    \A x, y \in Hashes :
        /\ Len(BS!ToHexString(x)) = 4
        /\ BS!ToHexString(x) = BS!ToHexString(y) <=> BS!Equal(x, y)

-----------------------------------------------------------------------------
(* The calls of Manager for three torrents, of which two have one name, three*)
(* handlers for two selectors, and every way the program may begin.        *)

Torrent1 == [hash |-> 1, name |-> "x", pieces |-> 9]
Torrent2 == [hash |-> 2, name |-> "y", pieces |-> 1]
Torrent3 == [hash |-> 3, name |-> "x", pieces |-> 2]
Sources == [p \in {<<"web", "1">>, <<"web", "2">>, <<"web", "3">>} |->
    CASE p[2] = "1" -> Torrent1 [] p[2] = "2" -> Torrent2 [] p[2] = "3" -> Torrent3]

PathKinds == [p \in {"save", "torrents", "web", "resume", "config", "nowhere", ""} |->
    CASE p \in {"save", "torrents", "web"} -> "dir" [] p \in {"resume", "config"} -> "file" [] OTHER -> "invalid"]
NoResume == M!ResumeFile([h \in {} |-> 0])
World(volume, resume, save_path, refused) ==
    [kind |-> PathKinds, disk |-> volume, refused |-> refused, resume |-> resume,
     settings |-> [save_path |-> save_path, port |-> 6]]
InitIn(d, world) == M!Init(d, world, "resume", "config", "torrents", <<1, 2, 3>>)
Fresh == World(Sources, NoResume, "save", {})
Begun == InitIn(M!NewManager, Fresh).d

Record(torrent, nbytes, own) ==
    [infohash |-> torrent.hash, nbytes |-> nbytes, own_pieces |-> own, save_path |-> "save",
     torrent_name |-> torrent.name]
TasksOf(d) == {d.list[i].torrent.hash : i \in DOMAIN d.list}

\* The copies and records of the first two torrents, whole or not, and where
\* the program cannot listen.
Copies(one, two) ==
    [p \in {<<"torrents", "x">>, <<"torrents", "y">>} |-> IF p[2] = "x" THEN one ELSE two]
Beginnings ==
    {World(Copies(one, two), [size |-> size, map |-> [h \in hashes |->
               IF h = 1 THEN Record(Torrent1, nbytes, {0, 8}) ELSE Record(Torrent2, 1, {0})]],
           "save", refused) :
        one \in {Torrent1, M!Bad, M!Broken}, two \in {Torrent2, M!Bad, M!Broken},
        size \in {1, 2}, hashes \in SUBSET {1, 2}, nbytes \in {1, 2}, refused \in {{}, {6}}}
Throws(world) ==
    LET map == M!OpenResume(world.resume)
    IN  \E h \in DOMAIN map : world.disk[<<"torrents", map[h].torrent_name>>] = M!Broken

\* Init succeeds with the recorded tasks that can be read in the list, and no
\* other record is kept; or it fails and nothing runs: unless a torrent copy
\* cannot be read to its end, which leaves the services, the acceptor and the
\* tasks opened so far behind, and a second Init has them twice
\* (DownloaderManager.cpp 69-183).
ASSUME InitAllOrNothing ==
    \A world \in Beginnings :
        LET r == InitIn(M!NewManager, world)
            map == M!OpenResume(world.resume)
            readable == {h \in DOMAIN map :
                            /\ world.disk[<<"torrents", map[h].torrent_name>>] \notin {M!Bad, M!Broken}
                            /\ map[h].nbytes = M!NBytes(IF h = 1 THEN 9 ELSE 1)}
        IN  /\ r.ok <=> world.refused = {} /\ ~Throws(world)
            /\ r.ok => TasksOf(r.d) = readable /\ DOMAIN r.d.resume = readable
            /\ ~r.ok /\ world.refused # {} => r.d = [M!NewManager EXCEPT !.path = "torrents"]
            /\ ~r.ok /\ world.refused = {} => r.d.acceptor # M!NoAcceptor /\ ~r.d.initialized
ASSUME FailedInitStays ==
    LET broken == World(Copies(Torrent1, M!Broken), [size |-> 1, map |->
                      [h \in {1, 2} |-> IF h = 1 THEN Record(Torrent1, 2, {}) ELSE Record(Torrent2, 1, {})]],
                      "save", {})
        again == InitIn(InitIn(M!NewManager, broken).d, [broken EXCEPT !.disk = Copies(Torrent1, Torrent2)])
    IN  again.ok /\ [i \in 1..3 |-> again.d.list[i].torrent] = <<Torrent1, Torrent1, Torrent2>>

\* Without the default save path no recorded task can be opened, although each
\* has a path of its own, and all are forgotten (Downloader.cpp 208); and
\* records that were saved are too many to be read (Resume.cpp 120, 262).
ASSUME RecordsForgotten ==
    LET file == M!ResumeFile([h \in {1} |-> Record(Torrent1, 2, {0, 8})])
        one == World(Copies(Torrent1, Torrent2), file, "nowhere", {})
        many == M!UnInit(M!AddTask(M!AddTask(Begun, Fresh, <<"web", "1">>).d, Fresh, <<"web", "2">>).d, Fresh).world
    IN  /\ InitIn(M!NewManager, one).ok /\ InitIn(M!NewManager, one).d.resume = NoResume.map
        /\ InitIn(M!NewManager, [one EXCEPT !.settings.save_path = "save"]).d.list[1].bits = {0, 8}
        /\ DOMAIN many.resume.map = {1, 2} /\ InitIn(M!NewManager, many).d.list = <<>>

\* A task is added once; two torrents of one name cannot be there together;
\* what was removed leaves nothing and can be added again; and what is there at
\* the end is there at the next start.
ASSUME TasksAddedAndRemoved ==
    \A first, second \in DOMAIN Sources :
        LET a == M!AddTask(Begun, Fresh, first)
            b == M!AddTask(a.d, a.world, second)
            hash == Sources[first].hash
            r == M!RemoveTask(a.d, a.world, hash)
            owned == [a.d EXCEPT !.list[1] = M!SetOwnPieces(@, {0})]
            saved == M!UnInit(owned, a.world).world
            next == InitIn(M!NewManager, saved).d
        IN  /\ a.ok /\ (b.ok <=> Sources[first].name # Sources[second].name)
            /\ r.ok /\ r.d = Begun /\ r.world = [Fresh EXCEPT !.resume = NoResume]
            /\ ~M!RemoveTask(r.d, r.world, hash).ok
            /\ next.list = owned.list
            /\ ~M!AddTask(next, saved, first).ok

\* A handler is given to a selector that has the fewest and taken from the one
\* that has it (Service.cpp 113-149).
ASSUME HandlersSpread ==
    \A order \in {<<1, 2, 3>>, <<3, 1, 2>>} : \A gone \in 1..3 :
        LET full == FoldLeft(M!RegisterHandler, M!StartNet(2), order)
            r == M!RemoveHandler(full, gone)
        IN  /\ {Cardinality(full[i]) : i \in DOMAIN full} = {1, 2}
            /\ r.ok /\ \A i \in DOMAIN full : r.net[i] = full[i] \ {gone}
            /\ ~M!RemoveHandler(r.net, gone).ok
            /\ \A i \in DOMAIN full : Cardinality(M!RegisterHandler(r.net, 4)[i]) \in {1, 2}

\* The port is changed for good or not at all, and one acceptor is left
\* (DownloaderManager.cpp 186-210).
ASSUME PortReset ==
    \A port \in {6, 7, 8} :
        LET d == [Begun EXCEPT !.setting.port = port]
            r == M!ResetListenPort(d, [Fresh EXCEPT !.refused = {8}])
        IN  /\ r.ok <=> port # 8
            /\ M!GetCurrListenPort(r.d) = IF port = 8 THEN 6 ELSE port
            /\ UNION ToSet(r.d.net) = {r.d.acceptor}
            /\ M!StopAcceptor(r.d.net, r.d.acceptor) = M!StartNet(2)

\* Only a task that is stopped gets another save path, and that may be none
\* (Downloader.cpp 275-287); only running tasks are told of new settings; a
\* copy is made of the torrent of a task, but not on itself; a filter without
\* addresses keeps nobody out.
ASSUME TaskCalls ==
    LET a == M!AddTask(Begun, Fresh, <<"web", "1">>)
        pd == a.d.list[1]
        moved == M!ResetSavePath(pd, Fresh, "nowhere")
        ran == [a.d EXCEPT !.list[1].state = "running"]
        copied == M!CopyTorrentFileTo(a.d, a.world, "web", Torrent1)
    IN  /\ moved.ok /\ ~M!ResetSavePath(ran.list[1], Fresh, "web").ok
        /\ ~M!ResetSavePath(moved.pd, Fresh, "web").ok
        /\ M!ReloadSetting(ran) = {1} /\ M!ReloadSetting(a.d) = {}
        /\ M!Close(ran.list[1], Fresh.settings) = ran.list[1]
        /\ M!Close(M!Stopped(ran.list[1]), Fresh.settings) = M!NewDownloader(Fresh.settings)
        /\ M!GetFinishedDegree(M!SetOwnPieces(pd, {1, 8})) = <<2, 9>>
        /\ M!SetOwnPieces(ran.list[1], {1}) = ran.list[1]
        /\ copied.ok /\ copied.world.disk[<<"web", "x">>] = Torrent1
        /\ ~M!CopyTorrentFileTo(a.d, a.world, "torrents", Torrent1).ok
        /\ ~M!CopyTorrentFileTo(a.d, a.world, "config", Torrent1).ok
        /\ ~M!CopyTorrentFileTo(a.d, a.world, "web", Torrent2).ok
        /\ LET banned == [a.d EXCEPT !.filter = M!BandAddress(M!BandAddress({}, 1), 2)]
           IN  /\ M!IsBand(banned.filter, 2) /\ ~M!IsBand(M!UnBandAddress(banned.filter, 2), 2)
               /\ ~\E pe \in {1, 2} : M!IsBand(M!ClearIPFilter(banned).filter, pe)
=============================================================================
