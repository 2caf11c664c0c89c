------------------------------ MODULE MCStorage ------------------------------
(***************************************************************************)
(* Three pieces of 3, 3 and 2 blocks over four files, of which one is      *)
(* empty, one ends inside a slice, and one ends with a piece; and the      *)
(* digests that CheckPiece is built on.                                    *)
(***************************************************************************)
EXTENDS Storage

Files == <<1, 0, 5, 2>>

-----------------------------------------------------------------------------
(* Where a piece lies.                                                      *)

\* get_files_by_piece as the code has it: the file in which a position lies,
\* then what lies in this file and in the next ones, from the start of the
\* buffer; parts of no length are skipped when they are used.
PartsByLoop(lengths, piece_len, p, need_len) ==
    LET Seek[f \in Nat, pos \in Nat] ==
            IF pos < lengths[f] THEN <<f, pos>> ELSE Seek[f + 1, pos - lengths[f]]
        Parts[f \in Nat, start_pos \in Nat, from \in Nat] ==
            IF from = need_len THEN <<>>
            ELSE LET remain == lengths[f] - start_pos
                     len == IF remain < need_len - from THEN remain ELSE need_len - from
                 IN  <<[file |-> f, start_pos |-> start_pos, len |-> len, from |-> from]>>
                         \o Parts[f + 1, 0, from + len]
        at == Seek[1, p * piece_len]
    IN  SelectSeq(Parts[at[1], at[2], 0], LAMBDA part : part.len # 0)

Layout(lengths, piece_len) ==
    INSTANCE Storage WITH FileLength <- lengths, PieceLength <- piece_len

\* For all lengths of files and pieces: the parts of a piece are in the files
\* get_files_by_piece has, in order, and a block is at the place in its file
\* that its part says, when the files are one after the other.
ASSUME PartsAreLoop ==
    \A lengths \in UNION {[1..n -> 0..3] : n \in 1..3} : \A piece_len \in 1..4 :
        FoldSeq(+, 0, lengths) = 0 \/
        \A p \in Layout(lengths, piece_len)!Piece :
            LET need_len == Layout(lengths, piece_len)!GetPieceLength(p)
                parts == PartsByLoop(lengths, piece_len, p, need_len)
                Before(f) == FoldSeq(+, 0, SubSeq(lengths, 1, f - 1))
            IN  /\ Layout(lengths, piece_len)!get_files_by_piece(p)
                      = {part.file : part \in Range(parts)}
                /\ \A j, k \in DOMAIN parts : j < k => parts[j].file < parts[k].file
                /\ UNION {part.from..part.from + part.len - 1 : part \in Range(parts)}
                      = 0..need_len - 1
                /\ \A part \in Range(parts) : \A i \in 0..part.len - 1 :
                      LET n == p * piece_len + part.from + i
                      IN  /\ n = Before(part.file) + part.start_pos + i
                          /\ Layout(lengths, piece_len)!FileOf[n + 1] = part.file

-----------------------------------------------------------------------------
Digests == INSTANCE Hashes WITH SIZE_HASH_BUFFER <- 40, Stale <- 255
DigestOf(mode, data) ==
    Digests!End(mode, Digests!Update(mode, Digests!Begin(mode), data))

\* Bytes 1, 2, 3 and so on.
Bytes(n) == [i \in 1..n |-> i]
abc == <<97, 98, 99>>

\* The first bytes of the digests that the standards of the algorithms give
\* for "abc".
AbcStarts ==
    [SHA160 |-> <<\ha9, \h99, \h3e, \h36, \h47>>, SHA256 |-> <<\hba, \h78, \h16, \hbf, \h8f>>,
     SHA384 |-> <<\hcb, \h00, \h75, \h3f, \h45>>, SHA512 |-> <<\hdd, \haf, \h35, \ha1, \h93>>,
     MD2 |-> <<\hda, \h85, \h3b, \h0d, \h3f>>, MD4 |-> <<\ha4, \h48, \h01, \h7a, \haf>>,
     MD5 |-> <<\h90, \h01, \h50, \h98, \h3c>>]

\* ShaHash and MDHash compute the digests they are named for.
ASSUME DigestsAreRight ==
    \A mode \in DOMAIN AbcStarts : SubSeq(DigestOf(mode, abc), 1, 5) = AbcStarts[mode]

\* So they do when chosen by their length, in bytes or bits; of a length that
\* is not known there is none (sha2.cpp 629-678).
ASSUME DigestsByLength ==
    /\ SubSeq(Digests!sha2(256, abc), 1, 5) = AbcStarts["SHA256"]
    /\ Len(Digests!sha2(48, abc)) = 48
    /\ \A size \in {0, 31, 160} : Digests!sha2(size, abc) = <<>>

\* So they do when the padding needs a block of its own, which 56 bytes are
\* the first to cause, and when the data come in two parts.
ASSUME LongDigestsAreRight ==
    /\ SubSeq(DigestOf("SHA160", Bytes(56)), 1, 4) = <<\h6b, \hfa, \h1e, \hec>>
    /\ SubSeq(DigestOf("MD5", Bytes(56)), 1, 4) = <<\h0e, \h94, \h8e, \h7f>>
    /\ SubSeq(DigestOf("SHA512", Bytes(120)), 1, 4) = <<\hb8, \h99, \h4d, \h7b>>

\* The compilation that only notes its blocks.
Noted(hash, block) == Append(hash, block)
Noting == INSTANCE BlockHash
              WITH BlockSize <- 32, WordSize <- 2, Compile <- Noted, Stale <- -1

\* Whatever the length of the data and wherever they are parted, the blocks
\* compiled are those of the padded message: none of what an earlier block
\* left in the buffer, no byte twice and none lost.
ASSUME PartsDoNotMatter ==
    \A n \in 0..70 : \A i \in 0..n :
        LET first == Noting!Hash(SubSeq(Bytes(n), 1, i), Noting!Begin(<<>>))
        IN  Noting!End(Noting!Hash(SubSeq(Bytes(n), i + 1, n), first))
              = Noting!HashOf(<<>>, Bytes(n))
=============================================================================
