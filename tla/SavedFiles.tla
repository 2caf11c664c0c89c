----------------------------- MODULE SavedFiles -----------------------------
(***************************************************************************)
(* The two files the program keeps about itself, each a bencoded           *)
(* dictionary: ResumeInfo, the record of the tasks, and GlobalSetting,     *)
(* what the user set.  A key is one character.                             *)
(***************************************************************************)
EXTENDS Bencoding

CONSTANTS
    HashLength,   \* the size of an infohash, 20
    Default,      \* what the constructor gives the numbers, by key
    Width,        \* the width of their types
    Minimum,      \* what their setters raise them to
    Directory     \* the paths that name a directory

-----------------------------------------------------------------------------
(* ResumeInfo.  A record holds its paths as the file does, in UTF-8.       *)

KEY_TASK == <<"K">>
INFOHASH == <<"I">>
OWN_PIECES == <<"O">>
SAVE_PATH == <<"S">>
TORRENT_FILE_PATH == <<"T">>

\* SaveTasks, what it writes; the tasks in the order of the map.
SaveTasks(task_map) ==
    LET task(info) == Dict(<< <<INFOHASH, String(info.infohash)>>,
                              <<OWN_PIECES, String(info.own_pieces)>>,
                              <<SAVE_PATH, String(info.save_path)>>,
                              <<TORRENT_FILE_PATH, String(info.torrent_name)>> >>)
    IN  GenContent(<< <<KEY_TASK, List([i \in DOMAIN task_map |-> task(task_map[i])])>> >>)

\* One turn of the loop of LoadTasks: thrown ends it, with the tasks read so far.
LoadTask(loaded, entry) ==
    LET dict == entry.dict
        Bytes(key) == GetValue(dict, key).str
        Has(key) == Casts(dict, key, "str")
        thrown == [loaded EXCEPT !.thrown = TRUE]
    IN  IF loaded.thrown THEN loaded
        ELSE IF ~IsA(entry, "dict") \/ ~Has(INFOHASH) THEN thrown
        ELSE IF Len(Bytes(INFOHASH)) # HashLength THEN loaded
        ELSE IF ~Has(OWN_PIECES) THEN thrown
        ELSE IF Bytes(OWN_PIECES) = <<>> THEN loaded
        ELSE IF ~Has(TORRENT_FILE_PATH) \/ ~Has(SAVE_PATH) THEN thrown
        ELSE [loaded EXCEPT !.tasks =
                 {t \in @ : t.infohash # Bytes(INFOHASH)} \cup
                 {[infohash |-> Bytes(INFOHASH), own_pieces |-> Bytes(OWN_PIECES),
                   save_path |-> Bytes(SAVE_PATH),
                   torrent_name |-> Bytes(TORRENT_FILE_PATH)]}]

\* The tasks LoadTasks finds in a file.
LoadTasks(file) ==
    LET bfile == SetContent(file)
        read == ReadDict(bfile, 1)
        dict == read.value.dict
    IN  IF file = <<>> \/ bfile = <<>> \/ read.read = 0 \/ ~Casts(dict, KEY_TASK, "list")
        THEN {}
        ELSE FoldLeft(LoadTask, [thrown |-> FALSE, tasks |-> {}],
                      GetValue(dict, KEY_TASK).list).tasks

-----------------------------------------------------------------------------
(* GlobalSetting: its numbers, by key, and the default path, set by the user,*)
(* saved to a file and loaded at the next start.                           *)

\* In the order of the file: the listen port, the rates, the counts of peers
\* uploaded to, of requests and of connections, the size of the cache.
Keys == <<<<"P">>, <<"D">>, <<"U">>, <<"L">>, <<"R">>, <<"C">>, <<"M">>>>
KEY_SETTING == <<"K">>
DEF_SAVE_PATH == <<"S">>

NewSetting == [number |-> Default, save_path |-> <<>>]

\* The setters.
SetNumber(setting, key, n) == [setting EXCEPT !.number[key] = Max({n, Minimum[key]})]
SetDefaultSavePath(setting, path) ==
    [setting EXCEPT !.save_path = IF path \in Directory THEN path ELSE @]

SaveSetting(setting) ==
    GenContent(<<<<KEY_SETTING, Dict(
        [i \in DOMAIN Keys |-> <<Keys[i], Integer(setting.number[Keys[i]])>>]
            \o <<<<DEF_SAVE_PATH, String(setting.save_path)>>>>)>>>>)

\* All of a file or nothing: one value that is not there, or a path that names
\* no directory, and the defaults stay.
LoadSetting(file) ==
    LET bfile == SetContent(file)
        read == ReadDict(bfile, 1)
        setting == GetValue(read.value.dict, KEY_SETTING).dict
        path == GetValue(setting, DEF_SAVE_PATH).str
    IN  IF file = <<>> \/ bfile = <<>> \/ read.read = 0 THEN NewSetting
        ELSE IF \/ ~Casts(read.value.dict, KEY_SETTING, "dict")
                \/ \E i \in DOMAIN Keys : ~Casts(setting, Keys[i], "int")
                \/ ~Casts(setting, DEF_SAVE_PATH, "str")
        THEN NewSetting
        ELSE IF path \notin Directory THEN NewSetting
        ELSE [number |-> [key \in ToSet(Keys) |->
                             GetValue(setting, key).int % 2^Width[key]],
              save_path |-> path]
=============================================================================
