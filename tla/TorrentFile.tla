----------------------------- MODULE TorrentFile -----------------------------
(***************************************************************************)
(* TorrentFile: what Load takes from a torrent, of which the names and     *)
(* comments are left out, and where its pieces and files lie.  A key is    *)
(* one character.  Values that Load casts without looking at their type    *)
(* (the address, the nodes, the comments) have the type they should, and   *)
(* the value of the key info is a dictionary.                              *)
(***************************************************************************)
EXTENDS Bencoding

CONSTANT HashLength    \* the size of the hash of a piece, 20

KEY_ANNOUNCE == <<"A">>
KEY_ANNOUNCE_LIST == <<"B">>
KEY_INFO == <<"I">>
KEY_PIECE_LENGTH == <<"L">>
KEY_PIECES == <<"P">>
KEY_FILES == <<"F">>
KEY_LENGTH == <<"N">>

NoTorrent == [loaded |-> FALSE]

\* m_announces: the addresses of all tiers, or the one address.
AllOf(list, type) == \A i \in DOMAIN list : IsA(list[i], type)
TiersRead(dict) ==
    Casts(dict, KEY_ANNOUNCE_LIST, "list") =>
        LET tiers == GetValue(dict, KEY_ANNOUNCE_LIST).list
        IN  /\ AllOf(tiers, "list")
            /\ \A i \in DOMAIN tiers : AllOf(tiers[i].list, "str")
Announces(dict) ==
    IF Casts(dict, KEY_ANNOUNCE_LIST, "list")
    THEN FoldLeft(LAMBDA urls, tier : urls \o [i \in DOMAIN tier.list |-> tier.list[i].str],
                  <<>>, GetValue(dict, KEY_ANNOUNCE_LIST).list)
    ELSE IF HasKey(dict, KEY_ANNOUNCE) THEN <<GetValue(dict, KEY_ANNOUNCE).str>> ELSE <<>>

\* m_files, their lengths: one of the info dictionary, or those of its list.
FilesRead(info) ==
    IF HasKey(info, KEY_FILES)
    THEN /\ Casts(info, KEY_FILES, "list")
         /\ AllOf(GetValue(info, KEY_FILES).list, "dict")
         /\ \A i \in DOMAIN GetValue(info, KEY_FILES).list :
               Casts(GetValue(info, KEY_FILES).list[i].dict, KEY_LENGTH, "int")
    ELSE Casts(info, KEY_LENGTH, "int")
Files(info) ==
    IF HasKey(info, KEY_FILES)
    THEN LET files == GetValue(info, KEY_FILES).list
         IN  [i \in DOMAIN files |-> GetValue(files[i].dict, KEY_LENGTH).int]
    ELSE <<GetValue(info, KEY_LENGTH).int>>

TotalLength(files) == FoldLeft(LAMBDA sum, length : sum + length, 0, files)

\* The hash of the torrent is that of the bytes of its info dictionary as they
\* are in the file: infohash stands for these bytes.
Load(file) ==
    LET bfile == SetContent(file)
        read == ReadDict(bfile, 1)
        dict == read.value.dict
        info_pos == LocateKey(bfile, 1, KEY_INFO)
        info_read == ReadDict(bfile, info_pos)
        info == info_read.value.dict
        pieces == GetValue(info, KEY_PIECES).str
    IN  IF bfile = <<>> \/ read.read = 0 \/ ~TiersRead(dict) \/ info_pos = 0
              \/ ~Casts(info, KEY_PIECE_LENGTH, "int") \/ ~Casts(info, KEY_PIECES, "str")
        THEN NoTorrent
        ELSE IF Len(pieces) < HashLength \/ Len(pieces) % HashLength # 0 \/ ~FilesRead(info)
        THEN NoTorrent
        ELSE [loaded |-> TRUE,
              announces |-> Announces(dict),
              infohash |-> SubSeq(bfile, info_pos, info_pos + info_read.read - 1),
              piece_length |-> GetValue(info, KEY_PIECE_LENGTH).int,
              pieces_hash_val |-> pieces,
              piece_count |-> Len(pieces) \div HashLength,
              files |-> Files(info),
              total_length |-> TotalLength(Files(info))]

\* Load of a file, [opens, bytes, read] with read the number of bytes that can
\* be read; limit is 5 MB.  What does not load leaves the object as it was.
LoadFile(tf, file, limit) ==
    LET loaded == Load(file.bytes)
    IN  IF ~file.opens \/ Len(file.bytes) > limit \/ file.read # Len(file.bytes) \/ ~loaded.loaded
        THEN [ok |-> FALSE, tf |-> tf]
        ELSE [ok |-> TRUE, tf |-> loaded]

Invalid == [throws |-> TRUE]
GetFileInfo(tf, idx) == IF idx < Len(tf.files) THEN [length |-> tf.files[idx + 1]] ELSE Invalid
GetAnnounce(tf, idx) == IF idx < Len(tf.announces) THEN [url |-> tf.announces[idx + 1]] ELSE Invalid

----------------------------------------------------------------------------
(* Pieces and files; both are numbered from 0.                              *)

GetPieceLength(tf, idx) ==
    IF idx = tf.piece_count - 1
    THEN tf.total_length - (tf.piece_count - 1) * tf.piece_length
    ELSE tf.piece_length

GetPieceHash(tf, idx) ==
    SubSeq(tf.pieces_hash_val, idx * HashLength + 1, (idx + 1) * HashLength)

FileStart(tf, file_idx) ==
    FoldLeft(LAMBDA sum, length : sum + length, 0, SubSeq(tf.files, 1, file_idx))

\* From piece_beg to piece_end, with both; the end is that of the first byte
\* behind the file.
MapFileToPieces(tf, file_idx) ==
    [piece_beg |-> FileStart(tf, file_idx) \div tf.piece_length,
     piece_end |-> (FileStart(tf, file_idx) + tf.files[file_idx + 1]) \div tf.piece_length]

\* GetFilesStatus looks these pieces up in the bit set, which throws outside it.
StatusPieces(tf, file_idx) ==
    LET map == MapFileToPieces(tf, file_idx) IN map.piece_beg..map.piece_end
=============================================================================
