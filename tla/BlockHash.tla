----------------------------- MODULE BlockHash -----------------------------
(***************************************************************************)
(* The buffering that sha1_hash, sha256_hash, sha512_hash and MD4Update    *)
(* share: data come in parts of any length, whole blocks of BlockSize      *)
(* bytes are compiled into the hash, the rest waits in wbuf.  What the     *)
(* compilation leaves in wbuf is Stale, and must not be seen again.        *)
(***************************************************************************)
EXTENDS Integers, SequencesExt

CONSTANTS BlockSize, WordSize,
          Compile(_, _),            \* a hash and a block to the next hash
          Stale                     \* any byte

Fill(n, byte) == [k \in 1..n |-> byte]

Begin(hash) == [count |-> 0, hash |-> hash, wbuf |-> Fill(BlockSize, Stale)]

Hash(data, ctx) ==
    LET all == SubSeq(ctx.wbuf, 1, ctx.count % BlockSize) \o data
        whole == Len(all) \div BlockSize
        Block(k) == SubSeq(all, (k - 1) * BlockSize + 1, k * BlockSize)
        rest == SubSeq(all, whole * BlockSize + 1, Len(all))
        behind == IF whole = 0 THEN SubSeq(ctx.wbuf, Len(rest) + 1, BlockSize)
                  ELSE Fill(BlockSize - Len(rest), Stale)
    IN  [count |-> ctx.count + Len(data),
         hash |-> FoldLeft(LAMBDA h, k : Compile(h, Block(k)), ctx.hash, [k \in 1..whole |-> k]),
         wbuf |-> rest \o behind]

\* The number of bits, in the last two words of the last block.
Length(count) ==
    [k \in 1..2 * WordSize |->
        LET shift == 2 * WordSize - k IN IF shift > 3 THEN 0 ELSE ((8 * count) \div 256^shift) % 256]

\* The rest of the word behind the data becomes 10..0; without room for the
\* length the block is compiled as it is, and another one is zero up to it.
End(ctx) ==
    LET i == ctx.count % BlockSize
        word == i \div WordSize + 1
        marked == SubSeq(ctx.wbuf, 1, i) \o <<128>> \o Fill(word * WordSize - i - 1, 0)
                    \o SubSeq(ctx.wbuf, word * WordSize + 1, BlockSize)
        full == i > BlockSize - (2 * WordSize + 1)
        padded == IF i < 15 * WordSize
                  THEN SubSeq(marked, 1, 15 * WordSize) \o Fill(WordSize, 0) ELSE marked
        last(kept) == kept \o Fill(14 * WordSize - Len(kept), 0) \o Length(ctx.count)
    IN  IF full THEN Compile(Compile(ctx.hash, padded), last(<<>>))
        ELSE Compile(ctx.hash, last(SubSeq(marked, 1, word * WordSize)))

\* For comparison: the padded message, cut into its blocks, in one piece.
Padded(data) ==
    LET zeros == CHOOSE n \in 0..BlockSize - 1 :
                     (Len(data) + 1 + n + 2 * WordSize) % BlockSize = 0
    IN  data \o <<128>> \o Fill(zeros, 0) \o Length(Len(data))
HashOf(hash, data) ==
    LET all == Padded(data)
    IN  FoldLeft(LAMBDA h, k : Compile(h, SubSeq(all, (k - 1) * BlockSize + 1, k * BlockSize)),
                 hash, [k \in 1..Len(all) \div BlockSize |-> k])
=============================================================================
