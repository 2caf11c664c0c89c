----------------------------- MODULE FileSystem -----------------------------
(***************************************************************************)
(* Paths and what is done with the directories and files they name         *)
(* (PathImpl.cpp, TreeIterator.cpp), files (FileImpl.cpp, TypeDef.h) and   *)
(* the files of a torrent on them (FileHandle of Storage.cpp). A path is   *)
(* the sequence of the numbers of its characters.                          *)
(***************************************************************************)
EXTENDS Integers, SequencesExt, FiniteSetsExt

(* Paths.  The type of a path is found by regular expressions.  The disk is*)
(* the set of the paths of its directories, which end with a backslash, and*)
(* of its files.  Busy files cannot be removed.                            *)

R == INSTANCE Regexp
B == INSTANCE RegexpBuilder

SP == 92
Compiled(pattern) == B!Build(B!Codes(pattern), {}, 2)
is_valid_path(re, path) == R!Search(re, R!PrepareMatch(re, path, -1)).ok

\* A name has none of these.
NAME == "[^\\\\/\\?\\*\\|<>:\\t\\v\\n]+"
DIRS == "(" \o NAME \o "\\\\[ ]*)+"
DRIVE == "^[a-z.A-Z]+:\\\\"
DOTS == "^(^\\.{1,2})+\\\\"

\* In the order in which they are tried.
Expressions ==
    << <<"PATH_ROOT", Compiled(DRIVE \o "$")>>,
       <<"PATH_DIR", Compiled(DRIVE \o DIRS \o "$")>>,
       <<"PATH_FILE", Compiled(DRIVE \o DIRS \o NAME \o "$|" \o DRIVE \o NAME \o "$")>>,
       <<"PATH_DIR", Compiled(DOTS \o DIRS \o "$")>>,
       <<"PATH_FILE", Compiled(DOTS \o DIRS \o NAME \o "$|" \o DOTS \o NAME \o "$")>> >>
detect_path_type(path) ==
    LET i == SelectInSeq(Expressions, LAMBDA e : is_valid_path(e[2], path)) IN
    IF i = 0 THEN "INVALID_PATH" ELSE Expressions[i][1]

\* Up to its last backslash, which a path of these types has.
ToLast(path) == SubSeq(path, 1, SelectLastInSeq(path, LAMBDA ch : ch = SP))
Behind(path, start) == SubSeq(path, Len(start) + 1, Len(path))

separate_path(type, path) ==
    LET above == ToLast(Front(ToLast(path))) IN
    CASE type = "PATH_DIR" -> [parent |-> above, name |-> Front(Behind(ToLast(path), above))]
      [] type = "PATH_FILE" -> [parent |-> ToLast(path), name |-> Behind(path, ToLast(path))]
      [] OTHER -> [parent |-> <<>>, name |-> <<>>]

Reset(path) ==
    LET type == detect_path_type(path)
        parts == separate_path(type, path)
    IN  [type |-> type, path |-> IF type = "INVALID_PATH" THEN <<>> ELSE path,
         parent |-> parts.parent, name |-> parts.name]

-----------------------------------------------------------------------------
(* The disk.                                                               *)

\* A directory is found without its backslash too.
IsExisted(disk, path) == path \in disk \/ Append(path, SP) \in disk
Within(p, path) == p = path \/ (Last(path) = SP /\ IsPrefix(path, p))
Below(disk, path) == {p \in disk : Within(p, path)}

\* CreateDirectoryW: in a directory, under a name that is free.
CreateDirectory(disk, path) ==
    IF ToLast(Front(path)) \in disk /\ ~IsExisted(disk, Front(path)) THEN disk \cup {path} ELSE disk

\* The directories on the way to path, which ends with a backslash, one after
\* the other until one cannot be made.
Ways(path) == SetToSortSeq({i \in DOMAIN path : path[i] = SP}, <)
make_sure_dir_path_exists(disk, path) ==
    LET ways == Ways(path)
        step(made, i) ==
            LET dir == SubSeq(path, 1, i)
                disk2 == IF IsExisted(made.disk, dir) THEN made.disk ELSE CreateDirectory(made.disk, dir)
            IN  IF made.ok THEN [ok |-> dir \in disk2, disk |-> disk2] ELSE made
    IN  IF Len(ways) <= 1 THEN disk ELSE FoldLeft(step, [ok |-> TRUE, disk |-> disk], ways).disk

\* Make of a path p that Reset returned; a file is made with its directory.
MakeDir(disk, p) ==
    IF p.type = "PATH_DIR" /\ ~IsExisted(disk, p.path) THEN make_sure_dir_path_exists(disk, p.path)
    ELSE disk
Made(disk, path) == [disk |-> disk, ok |-> IsExisted(disk, path)]
Make(disk, p) ==
    LET tmp == Reset(p.parent)
        disk2 == MakeDir(disk, tmp)
    IN  CASE p.type = "INVALID_PATH" -> [disk |-> disk, ok |-> FALSE]
          [] p.type \in {"PATH_ROOT", "PATH_DIR"} -> Made(MakeDir(disk, p), p.path)
          [] p.type = "PATH_FILE" /\ IsExisted(disk, p.path) -> [disk |-> disk, ok |-> TRUE]
          [] p.type = "PATH_FILE" /\ ~IsExisted(disk, p.path) ->
                IF IsExisted(disk2, tmp.path) THEN Made(disk2 \cup {p.path}, p.path)
                ELSE [disk |-> disk2, ok |-> FALSE]

\* Removed is Remove; remove_dir goes down first; a directory with a busy file in it remains.
remove_dir(disk, busy, path) ==
    disk \ {p \in Below(disk, path) : Below(busy, p) = {}}
Removed(disk, busy, p) ==
    LET disk2 == CASE p.type = "PATH_FILE" -> disk \ ({p.path} \ busy)
                   [] p.type = "PATH_DIR" -> remove_dir(disk, busy, p.path)
                   [] OTHER -> disk
    IN  IF IsExisted(disk, p.path) THEN [disk |-> disk2, ok |-> ~IsExisted(disk2, p.path)]
        ELSE [disk |-> disk, ok |-> FALSE]

\* MoveFileW takes all that is below along, to a name that is free.  The path
\* of a drive gets an empty one.
MoveFile(disk, from, to) ==
    {IF Within(p, from) THEN to \o Behind(p, from) ELSE p : p \in disk}
Rename(disk, p, name) ==
    LET to == CASE p.type = "PATH_DIR" -> p.parent \o name \o <<SP>>
                [] p.type = "PATH_FILE" -> p.parent \o name
                [] OTHER -> <<>>
        taken == IsExisted(disk, p.parent \o name)
        disk2 == IF to = <<>> THEN disk ELSE MoveFile(disk, p.path, to)
    IN  CASE ~IsExisted(disk, p.path) \/ p.type = "INVALID_PATH" \/ taken ->
                [disk |-> disk, p |-> p, ok |-> FALSE]
          [] OTHER -> [disk |-> disk2, p |-> Reset(to), ok |-> IsExisted(disk2, Reset(to).path)]

\* The directory iterator lists the entries of a directory in some order; the
\* tree iterator puts those of the path it leaves behind the others it has.
Entries(disk, path) ==
    {p \in Below(disk, path) \ {path} : ToLast(IF Last(p) = SP THEN Front(p) ELSE p) = path}
Listed(disk, path) == SetToSeq(Entries(disk, path))
First(disk, root) == IF root.type = "PATH_FILE" THEN <<root.path>> ELSE Listed(disk, root.path)
Next(disk, queue) ==
    Tail(queue) \o IF Last(Head(queue)) = SP THEN Listed(disk, Head(queue)) ELSE <<>>
RECURSIVE Visited(_, _)
Visited(disk, queue) ==
    IF queue = <<>> THEN <<>> ELSE <<Head(queue)>> \o Visited(disk, Next(disk, queue))

-----------------------------------------------------------------------------
(* Files.  The system is [disk, opened, room]: the bytes of every file, the*)
(* open handles and the number of bytes that fit.  A File object is [fhdl, *)
(* fname]; fhdl is 0 while it is closed.  An operation returns [sys, f, val,*)
(* throws].  A mode is the set of its flags.                               *)

Undefined == -1    \* a byte nobody wrote
Closed == [fhdl |-> 0, fname |-> <<>>]
Result(sys, f, val) == [sys |-> sys, f |-> f, val |-> val, throws |-> FALSE]
Throws(sys, f) == [sys |-> sys, f |-> f, val |-> 0, throws |-> TRUE]

\* The first flag of a mode in the order in which the code asks for them.
Accesses == << <<"F_READ_ONLY", {"read"}>>, <<"F_WRITE_ONLY", {"write"}>>,
               <<"F_READ_WRITE", {"read", "write"}>> >>
Dispositions == << <<"F_CREATE_NEW", "new">>, <<"F_CREATE_ALWAYS", "empty">>, <<"F_OPEN_EXISTED", "existing">>,
                   <<"F_OPEN_ALWAYS", "any">>, <<"F_TRUNC", "existing empty">> >>
Shares == << <<"F_SHARED_READ", {"read"}>>, <<"F_SHARED_WRITE", {"write"}>>,
             <<"F_SHARED_READ_WRITE", {"read", "write"}>>, <<"F_NOSHARED", {}>> >>
FirstFlag(table, mode) == SelectInSeq(table, LAMBDA e : e[1] \in mode)
STD_READ == {"F_READ_ONLY", "F_OPEN_EXISTED", "F_SHARED_READ"}
STD_WRITE == {"F_READ_WRITE", "F_OPEN_EXISTED", "F_SHARED_READ"}

-----------------------------------------------------------------------------
(* What Windows does.                                                      *)

Used(disk) == FoldSet(LAMBDA p, n : n + Len(disk[p]), 0, DOMAIN disk)
Put(disk, path, data) == [p \in DOMAIN disk \cup {path} |-> IF p = path THEN data ELSE disk[p]]
Resized(data, len) == [i \in 1..len |-> IF i <= Len(data) THEN data[i] ELSE Undefined]

\* Two handles of a file each share what the other one does.
Clash(h, g) == h.path = g.path /\ ~(h.access \subseteq g.share /\ g.access \subseteq h.share)

CreateFile(sys, path, access, disposition, share) ==
    LET h == [path |-> path, access |-> access, share |-> share, pos |-> 0]
        exists == path \in DOMAIN sys.disk
        kept == IF exists /\ disposition \in {"existing", "any"} THEN sys.disk[path] ELSE <<>>
        fails == \/ \E id \in DOMAIN sys.opened : Clash(sys.opened[id], h)
                 \/ disposition = "new" /\ exists
                 \/ disposition \in {"existing", "existing empty"} /\ ~exists
                 \/ disposition = "existing empty" /\ "write" \notin access
        id == Max({0} \cup DOMAIN sys.opened) + 1
    IN  IF fails THEN [fhdl |-> 0, sys |-> sys]
        ELSE [fhdl |-> id, sys |-> [sys EXCEPT !.disk = Put(@, path, kept),
                                               !.opened = [i \in DOMAIN @ \cup {id} |-> IF i = id THEN h ELSE @[i]]]]

CloseHandle(sys, id) == [sys EXCEPT !.opened = [i \in DOMAIN @ \ {id} |-> @[i]]]
SetPointer(sys, id, pos) == [sys EXCEPT !.opened[id].pos = pos]

\* The data of the handle's file become data, if they fit.
Replaced(sys, id, data) ==
    LET h == sys.opened[id]
        disk == Put(sys.disk, h.path, data)
    IN  [ok |-> "write" \in h.access /\ (Used(disk) <= sys.room \/ Len(data) <= Len(sys.disk[h.path])),
         sys |-> [sys EXCEPT !.disk = disk]]

-----------------------------------------------------------------------------
(* FileImpl.                                                               *)

IsOpen(f) == f.fhdl # 0

Open(sys, f, path, mode) ==
    LET a == FirstFlag(Accesses, mode)
        d == FirstFlag(Dispositions, mode)
        s == FirstFlag(Shares, mode)
        made == CreateFile(sys, path, Accesses[a][2], Dispositions[d][2], Shares[s][2])
    IN  IF 0 \in {a, d, s} THEN Throws(sys, f)
        ELSE IF IsOpen(f) \/ made.fhdl = 0 THEN Result(sys, f, FALSE)
        ELSE Result(made.sys, [fhdl |-> made.fhdl, fname |-> path], TRUE)

Close(sys, f) ==
    IF IsOpen(f) THEN Result(CloseHandle(sys, f.fhdl), Closed, TRUE) ELSE Result(sys, f, TRUE)

GetPos(sys, f) == IF IsOpen(f) THEN sys.opened[f.fhdl].pos ELSE 0
Data(sys, f) == sys.disk[sys.opened[f.fhdl].path]
GetLength(sys, f) == IF IsOpen(f) THEN Len(Data(sys, f)) ELSE 0

\* A place before the start is a negative one for SetFilePointerEx.
Seek(sys, f, offset, method, forward) ==
    LET way == IF forward THEN offset ELSE -offset
        pos == CASE method = "CURR" -> GetPos(sys, f) + way
                 [] method = "END" -> GetLength(sys, f) + way
                 [] OTHER -> offset
    IN  IF ~IsOpen(f) THEN Result(sys, f, 0)
        ELSE IF pos < 0 THEN Throws(sys, f)
        ELSE Result(SetPointer(sys, f.fhdl, pos), f, pos)
SeekToEnd(sys, f) == Seek(sys, f, 0, "END", FALSE)
SeekToBeg(sys, f) == Seek(sys, f, 0, "BEG", FALSE)

Read(sys, f, len) ==
    LET h == sys.opened[f.fhdl]
        got == SubSeq(Data(sys, f), h.pos + 1, Min({h.pos + len, GetLength(sys, f)}))
    IN  IF ~IsOpen(f) THEN Result(sys, f, <<>>)
        ELSE IF "read" \notin h.access THEN Throws(sys, f)
        ELSE Result(SetPointer(sys, f.fhdl, h.pos + Len(got)), f, got)

Write(sys, f, buf) ==
    LET pos == GetPos(sys, f)
        end == pos + Len(buf)
        long == Resized(Data(sys, f), Max({end, GetLength(sys, f)}))
        put == Replaced(sys, f.fhdl, [i \in DOMAIN long |-> IF i \in (pos + 1)..end THEN buf[i - pos] ELSE long[i]])
    IN  IF ~IsOpen(f) THEN Result(sys, f, 0)
        ELSE IF ~put.ok THEN Throws(sys, f)
        ELSE Result(SetPointer(put.sys, f.fhdl, end), f, Len(buf))

\* The handle then stands at the new end, also when there is no room for it.
SetLength(sys, f, newlen) ==
    LET there == Seek(sys, f, newlen, "BEG", TRUE)
        put == Replaced(there.sys, f.fhdl, Resized(Data(sys, f), newlen))
    IN  IF put.ok THEN Result(put.sys, f, TRUE) ELSE Throws(there.sys, f)

GetFileName(f) == SubSeq(f.fname, SelectLastInSeq(f.fname, LAMBDA ch : ch = SP) + 1, Len(f.fname))
GetFilePath(f) == SubSeq(f.fname, 1, SelectLastInSeq(f.fname, LAMBDA ch : ch = SP))

\* CopyFileW reads the one file and writes the other anew.
FileCopyTo(sys, sour, dest) ==
    LET from == CreateFile(sys, sour, {"read"}, "existing", {"read", "write"})
        to == CreateFile(sys, dest, {"write"}, "empty", {})
        disk == Put(to.sys.disk, dest, sys.disk[sour])
    IN  IF 0 \in {from.fhdl, to.fhdl} \/ Used(disk) > sys.room THEN Result(sys, Closed, FALSE)
        ELSE Result([sys EXCEPT !.disk = disk], Closed, TRUE)

-----------------------------------------------------------------------------
(* FileHandle: a file of the torrent of need bytes.                        *)

IncreaseFileSize(sys, f, need, size) ==
    LET r == SetLength(sys, f, Min({GetLength(sys, f) + size, need})) IN Result(r.sys, f, ~r.throws)

TruncateFileSize(sys, f, size) ==
    LET r == SetLength(sys, f, Max({GetLength(sys, f) - size, 0})) IN Result(r.sys, f, ~r.throws)

FullAllocate(sys, f, need) == IncreaseFileSize(sys, f, need, need - GetLength(sys, f))

OpenHandle(sys, f, path) == IF IsOpen(f) THEN Result(sys, f, FALSE) ELSE Open(sys, f, path, STD_WRITE)
ReadAt(sys, f, len, offset) == Read(Seek(sys, f, offset, "BEG", TRUE).sys, f, len)
WriteAt(sys, f, buf, offset) == Write(Seek(sys, f, offset, "BEG", TRUE).sys, f, buf)
=============================================================================
