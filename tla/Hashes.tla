------------------------------- MODULE Hashes -------------------------------
(***************************************************************************)
(* ShaHash and MDHash, one object for a family of digests chosen by its    *)
(* mode, and the digests themselves: SHA-1, which is that of pieces, info  *)
(* dictionaries and peers, SHA-256, SHA-384, SHA-512, MD2, MD4 and MD5. A  *)
(* digest is a sequence of bytes.                                          *)
(***************************************************************************)
EXTENDS Integers, SequencesExt, FiniteSetsExt

CONSTANTS SIZE_HASH_BUFFER,         \* bytes fed at a time
          Stale                     \* what is left in a buffer

-----------------------------------------------------------------------------
(* Machine words of w bits as sets: bit i of a word is 1 when i is in the  *)
(* set.  The operators of C on unsigned integers become those on sets.     *)

Not(w, x) == (0..w - 1) \ x
Xor(x, y) == SymDiff(x, y)
Rotl(w, x, n) == {(i + n) % w : i \in x}
Rotr(w, x, n) == {(i - n) % w : i \in x}
Shr(x, n) == {i - n : i \in {j \in x : j >= n}}

\* x + y modulo 2^w: a carry comes into bit i when a lower bit is set in both
\* and every bit in between in one.
Add(w, x, y) ==
    LET one == Xor(x, y)
        Carry(i) == \E j \in x \cap y : j < i /\ j + 1..i - 1 \subseteq one
    IN  {i \in 0..w - 1 : (i \in one) # Carry(i)}

\* Step applied n times, with its number from zero.  The sets of one element
\* make TLC evaluate a value before it goes on, and the two levels, of at most
\* eight steps each time, keep the nesting low.
Steps(Step(_, _), n, v) ==
    LET One(u, i) == CHOOSE next \in {Step(x, i) : x \in {u}} : TRUE
        Eight(u, k) == FoldLeft(LAMBDA x, i : One(x, i), u,
                                [i \in 1..Min({8, n - 8 * k}) |-> 8 * k + i - 1])
    IN  FoldLeft(LAMBDA u, k : CHOOSE next \in {Eight(x, k) : x \in {u}} : TRUE, v,
                 [k \in 1..(n + 7) \div 8 |-> k - 1])

Sum(w, words) == FoldLeft(LAMBDA x, y : Add(w, x, y), {}, words)

\* A word from numbers of n bits, the most significant one first, and back.
Joined(n, parts) ==
    UNION {{n * (Len(parts) - k) + i : i \in {j \in 0..n - 1 : (parts[k] \div 2^j) % 2 = 1}}
              : k \in DOMAIN parts}
Number(x) == MapThenSumSet(LAMBDA i : 2^i, x)
ByteAt(x, k) == Number({i \in 0..7 : 8 * k + i \in x})
BigEndian(w, x) == [k \in 1..w \div 8 |-> ByteAt(x, w \div 8 - k)]
LittleEndian(w, x) == [k \in 1..w \div 8 |-> ByteAt(x, k - 1)]

-----------------------------------------------------------------------------
(* SHA-1.  A hash is a sequence of five words, a block one of 64 bytes.    *)

Word(high, low) == Joined(16, <<high, low>>)

ch(x, y, z) == Xor(x \cap y, z \ x)
parity(x, y, z) == Xor(Xor(x, y), z)
maj(x, y, z) == Xor(Xor(x \cap y, x \cap z), y \cap z)

\* The words of a block, and 64 more from them.
Schedule(block) ==
    LET Next(w, i) ==
            Append(w, Rotl(32, Xor(Xor(w[i + 14], w[i + 9]), Xor(w[i + 3], w[i + 1])), 1))
    IN  Steps(Next, 64, [i \in 1..16 |-> Joined(8, SubSeq(block, 4 * i - 3, 4 * i))])

RoundConstant ==
    [q \in 0..3 |-> <<Word(\h5a82, \h7999), Word(\h6ed9, \heba1),
                      Word(\h8f1b, \hbcdc), Word(\hca62, \hc1d6)>>[q + 1]]

rnd(v, i, w) ==
    LET a == v[1] b == v[2] c == v[3] d == v[4] e == v[5]
        f == CASE i < 20 -> ch(b, c, d)
               [] i \in 40..59 -> maj(b, c, d)
               [] OTHER -> parity(b, c, d)
    IN  <<Sum(32, <<Rotl(32, a, 5), f, e, RoundConstant[i \div 20], w>>), a, Rotl(32, b, 30), c, d>>

sha1_compile(hash, block) ==
    LET w == Schedule(block)
        v == Steps(LAMBDA u, i : rnd(u, i, w[i + 1]), 80, hash)
    IN  [k \in 1..5 |-> Add(32, hash[k], v[k])]

Buffer == INSTANCE BlockHash WITH BlockSize <- 64, WordSize <- 4, Compile <- sha1_compile

sha1_begin ==
    Buffer!Begin(<<Word(\h6745, \h2301), Word(\hefcd, \hab89), Word(\h98ba, \hdcfe),
                   Word(\h1032, \h5476), Word(\hc3d2, \he1f0)>>)
sha1_hash(data, ctx) == Buffer!Hash(data, ctx)
sha1_end(ctx) == FlattenSeq([k \in 1..5 |-> BigEndian(32, Buffer!End(ctx)[k])])

-----------------------------------------------------------------------------
(* SHA-2.  The rounds are the same for words of 32 and of 64 bits, with other*)
(* distances.                                                              *)

\* The table of words of w bits that is written in 16-bit halves.
Table(w, halves) ==
    LET n == w \div 16
    IN  [k \in 0..Len(halves) \div n - 1 |-> Joined(16, SubSeq(halves, n * k + 1, n * k + n))]

k256 ==
    Table(32, <<
       \h428a, \h2f98, \h7137, \h4491, \hb5c0, \hfbcf, \he9b5, \hdba5,
       \h3956, \hc25b, \h59f1, \h11f1, \h923f, \h82a4, \hab1c, \h5ed5,
       \hd807, \haa98, \h1283, \h5b01, \h2431, \h85be, \h550c, \h7dc3,
       \h72be, \h5d74, \h80de, \hb1fe, \h9bdc, \h06a7, \hc19b, \hf174,
       \he49b, \h69c1, \hefbe, \h4786, \h0fc1, \h9dc6, \h240c, \ha1cc,
       \h2de9, \h2c6f, \h4a74, \h84aa, \h5cb0, \ha9dc, \h76f9, \h88da,
       \h983e, \h5152, \ha831, \hc66d, \hb003, \h27c8, \hbf59, \h7fc7,
       \hc6e0, \h0bf3, \hd5a7, \h9147, \h06ca, \h6351, \h1429, \h2967,
       \h27b7, \h0a85, \h2e1b, \h2138, \h4d2c, \h6dfc, \h5338, \h0d13,
       \h650a, \h7354, \h766a, \h0abb, \h81c2, \hc92e, \h9272, \h2c85,
       \ha2bf, \he8a1, \ha81a, \h664b, \hc24b, \h8b70, \hc76c, \h51a3,
       \hd192, \he819, \hd699, \h0624, \hf40e, \h3585, \h106a, \ha070,
       \h19a4, \hc116, \h1e37, \h6c08, \h2748, \h774c, \h34b0, \hbcb5,
       \h391c, \h0cb3, \h4ed8, \haa4a, \h5b9c, \hca4f, \h682e, \h6ff3,
       \h748f, \h82ee, \h78a5, \h636f, \h84c8, \h7814, \h8cc7, \h0208,
       \h90be, \hfffa, \ha450, \h6ceb, \hbef9, \ha3f7, \hc671, \h78f2>>)

k512 ==
    Table(64, <<
       \h428a, \h2f98, \hd728, \hae22, \h7137, \h4491, \h23ef, \h65cd,
       \hb5c0, \hfbcf, \hec4d, \h3b2f, \he9b5, \hdba5, \h8189, \hdbbc,
       \h3956, \hc25b, \hf348, \hb538, \h59f1, \h11f1, \hb605, \hd019,
       \h923f, \h82a4, \haf19, \h4f9b, \hab1c, \h5ed5, \hda6d, \h8118,
       \hd807, \haa98, \ha303, \h0242, \h1283, \h5b01, \h4570, \h6fbe,
       \h2431, \h85be, \h4ee4, \hb28c, \h550c, \h7dc3, \hd5ff, \hb4e2,
       \h72be, \h5d74, \hf27b, \h896f, \h80de, \hb1fe, \h3b16, \h96b1,
       \h9bdc, \h06a7, \h25c7, \h1235, \hc19b, \hf174, \hcf69, \h2694,
       \he49b, \h69c1, \h9ef1, \h4ad2, \hefbe, \h4786, \h384f, \h25e3,
       \h0fc1, \h9dc6, \h8b8c, \hd5b5, \h240c, \ha1cc, \h77ac, \h9c65,
       \h2de9, \h2c6f, \h592b, \h0275, \h4a74, \h84aa, \h6ea6, \he483,
       \h5cb0, \ha9dc, \hbd41, \hfbd4, \h76f9, \h88da, \h8311, \h53b5,
       \h983e, \h5152, \hee66, \hdfab, \ha831, \hc66d, \h2db4, \h3210,
       \hb003, \h27c8, \h98fb, \h213f, \hbf59, \h7fc7, \hbeef, \h0ee4,
       \hc6e0, \h0bf3, \h3da8, \h8fc2, \hd5a7, \h9147, \h930a, \ha725,
       \h06ca, \h6351, \he003, \h826f, \h1429, \h2967, \h0a0e, \h6e70,
       \h27b7, \h0a85, \h46d2, \h2ffc, \h2e1b, \h2138, \h5c26, \hc926,
       \h4d2c, \h6dfc, \h5ac4, \h2aed, \h5338, \h0d13, \h9d95, \hb3df,
       \h650a, \h7354, \h8baf, \h63de, \h766a, \h0abb, \h3c77, \hb2a8,
       \h81c2, \hc92e, \h47ed, \haee6, \h9272, \h2c85, \h1482, \h353b,
       \ha2bf, \he8a1, \h4cf1, \h0364, \ha81a, \h664b, \hbc42, \h3001,
       \hc24b, \h8b70, \hd0f8, \h9791, \hc76c, \h51a3, \h0654, \hbe30,
       \hd192, \he819, \hd6ef, \h5218, \hd699, \h0624, \h5565, \ha910,
       \hf40e, \h3585, \h5771, \h202a, \h106a, \ha070, \h32bb, \hd1b8,
       \h19a4, \hc116, \hb8d2, \hd0c8, \h1e37, \h6c08, \h5141, \hab53,
       \h2748, \h774c, \hdf8e, \heb99, \h34b0, \hbcb5, \he19b, \h48a8,
       \h391c, \h0cb3, \hc5c9, \h5a63, \h4ed8, \haa4a, \he341, \h8acb,
       \h5b9c, \hca4f, \h7763, \he373, \h682e, \h6ff3, \hd6b2, \hb8a3,
       \h748f, \h82ee, \h5def, \hb2fc, \h78a5, \h636f, \h4317, \h2f60,
       \h84c8, \h7814, \ha1f0, \hab72, \h8cc7, \h0208, \h1a64, \h39ec,
       \h90be, \hfffa, \h2363, \h1e28, \ha450, \h6ceb, \hde82, \hbde9,
       \hbef9, \ha3f7, \hb2c6, \h7915, \hc671, \h78f2, \he372, \h532b,
       \hca27, \h3ece, \hea26, \h619c, \hd186, \hb8c7, \h21c0, \hc207,
       \heada, \h7dd6, \hcde0, \heb1e, \hf57d, \h4f7f, \hee6e, \hd178,
       \h06f0, \h67aa, \h7217, \h6fba, \h0a63, \h7dc5, \ha2c8, \h98a6,
       \h113f, \h9804, \hbef9, \h0dae, \h1b71, \h0b35, \h131c, \h471b,
       \h28db, \h77f5, \h2304, \h7d84, \h32ca, \hab7b, \h40c7, \h2493,
       \h3c9e, \hbe0a, \h15c9, \hbebc, \h431d, \h67c4, \h9c10, \h0d4c,
       \h4cc5, \hd4be, \hcb3e, \h42b6, \h597f, \h299c, \hfc65, \h7e2a,
       \h5fcb, \h6fab, \h3ad6, \hfaec, \h6c44, \h198c, \h4a47, \h5817>>)

i256 ==
    Table(32, <<
       \h6a09, \he667, \hbb67, \hae85, \h3c6e, \hf372, \ha54f, \hf53a,
       \h510e, \h527f, \h9b05, \h688c, \h1f83, \hd9ab, \h5be0, \hcd19>>)

i384 ==
    Table(64, <<
       \hcbbb, \h9d5d, \hc105, \h9ed8, \h629a, \h292a, \h367c, \hd507,
       \h9159, \h015a, \h3070, \hdd17, \h152f, \hecd8, \hf70e, \h5939,
       \h6733, \h2667, \hffc0, \h0b31, \h8eb4, \h4a87, \h6858, \h1511,
       \hdb0c, \h2e0d, \h64f9, \h8fa7, \h47b5, \h481d, \hbefa, \h4fa4>>)

i512 ==
    Table(64, <<
       \h6a09, \he667, \hf3bc, \hc908, \hbb67, \hae85, \h84ca, \ha73b,
       \h3c6e, \hf372, \hfe94, \hf82b, \ha54f, \hf53a, \h5f1d, \h36f1,
       \h510e, \h527f, \hade6, \h82d1, \h9b05, \h688c, \h2b3e, \h6c1f,
       \h1f83, \hd9ab, \hfb41, \hbd6b, \h5be0, \hcd19, \h137e, \h2179>>)

\* Three rotations, or two and a shift.
Mix(w, x, n) == Xor(Xor(Rotr(w, x, n[1]), Rotr(w, x, n[2])), Rotr(w, x, n[3]))
Shifted(w, x, n) == Xor(Xor(Rotr(w, x, n[1]), Rotr(w, x, n[2])), Shr(x, n[3]))

Sha256 == [w |-> 32, k |-> k256, rounds |-> 64,
           s0 |-> <<2, 13, 22>>, s1 |-> <<6, 11, 25>>, g0 |-> <<7, 18, 3>>, g1 |-> <<17, 19, 10>>]
Sha512 == [w |-> 64, k |-> k512, rounds |-> 80,
           s0 |-> <<28, 34, 39>>, s1 |-> <<14, 18, 41>>, g0 |-> <<1, 8, 7>>, g1 |-> <<19, 61, 6>>]

\* The next word of the schedule from the last sixteen.
NextWord(m, w, i) ==
    Sum(m.w, <<w[i + 1], Shifted(m.w, w[i + 15], m.g1), w[i + 10], Shifted(m.w, w[i + 2], m.g0)>>)

h2(w, i) == NextWord(Sha256, w, i)
h5(w, i) == NextWord(Sha512, w, i)

\* One round, with the words moved on by one place.
Cycle(m, v, w, k) ==
    LET t == Sum(m.w, <<v[8], w, k, Mix(m.w, v[5], m.s1), ch(v[5], v[6], v[7])>>)
        first == Sum(m.w, <<t, Mix(m.w, v[1], m.s0), maj(v[1], v[2], v[3])>>)
    IN  <<first, v[1], v[2], v[3], Add(m.w, v[4], t), v[5], v[6], v[7]>>

h2_cycle(v, w, k) == Cycle(Sha256, v, w, k)
h5_cycle(v, w, k) == Cycle(Sha512, v, w, k)

\* A word is read from the block, or made from those before it.
Compiled(m, hash, block, next(_, _), cycle(_, _, _)) ==
    LET n == m.w \div 8
        w == Steps(LAMBDA u, i : Append(u, next(u, i)), m.rounds - 16,
                   [i \in 1..16 |-> Joined(8, SubSeq(block, n * (i - 1) + 1, n * i))])
        v == Steps(LAMBDA u, i : cycle(u, w[i + 1], m.k[i]), m.rounds, hash)
    IN  [k \in 1..8 |-> Add(m.w, hash[k], v[k])]

sha256_compile(hash, block) == Compiled(Sha256, hash, block, h2, h2_cycle)
sha512_compile(hash, block) == Compiled(Sha512, hash, block, h5, h5_cycle)

Buffer256 == INSTANCE BlockHash WITH BlockSize <- 64, WordSize <- 4, Compile <- sha256_compile
Buffer512 == INSTANCE BlockHash WITH BlockSize <- 128, WordSize <- 8, Compile <- sha512_compile

Started(table) == [k \in 1..8 |-> table[k - 1]]
Digest(w, hash, hlen) == SubSeq(FlattenSeq([k \in 1..8 |-> BigEndian(w, hash[k])]), 1, hlen)

sha256_begin == Buffer256!Begin(Started(i256))
sha256_hash(data, ctx) == Buffer256!Hash(data, ctx)
sha256_end(ctx) == Digest(32, Buffer256!End(ctx), 32)
sha256(data) == sha256_end(sha256_hash(data, sha256_begin))

sha512_hash(data, ctx) == Buffer512!Hash(data, ctx)
sha384_begin == Buffer512!Begin(Started(i384))
sha_end(ctx, hlen) == Digest(64, Buffer512!End(ctx), hlen)
sha384_end(ctx) == sha_end(ctx, 48)
sha384(data) == sha384_end(sha512_hash(data, sha384_begin))
sha512_begin == Buffer512!Begin(Started(i512))
sha512_end(ctx) == sha_end(ctx, 64)
sha512(data) == sha512_end(sha512_hash(data, sha512_begin))

\* One context for all three, chosen by the length of the digest in bytes or
\* in bits.
sha2_begin(len) ==
    CASE len \in {256, 32} -> [sha2_len |-> 32, uu |-> sha256_begin]
      [] len \in {384, 48} -> [sha2_len |-> 48, uu |-> sha384_begin]
      [] len \in {512, 64} -> [sha2_len |-> 64, uu |-> sha512_begin]
      [] OTHER -> [sha2_len |-> 0]              \* SHA2_BAD

sha2_hash(data, ctx) ==
    [ctx EXCEPT !.uu = IF ctx.sha2_len = 32 THEN sha256_hash(data, @) ELSE sha512_hash(data, @)]

sha2_end(ctx) ==
    IF ctx.sha2_len = 32 THEN sha256_end(ctx.uu) ELSE sha_end(ctx.uu, ctx.sha2_len)

\* Without a digest for a length that is not known.
sha2(size, data) ==
    LET ctx == sha2_begin(size)
    IN  IF ctx.sha2_len = 0 THEN <<>> ELSE sha2_end(sha2_hash(data, ctx))

-----------------------------------------------------------------------------
(* MD2, MD4 and MD5.  The last two keep four words of 32 bits; every step  *)
(* changes one of them, and the words take turns.                          *)

\* The 16 words of a block, numbered from zero, low byte first.
Decode(block) ==
    [k \in 0..15 |-> Joined(8, Reverse(SubSeq(block, 4 * k + 1, 4 * k + 4)))]
Encode(words) == FlattenSeq([k \in DOMAIN words |-> LittleEndian(32, words[k])])

Start == <<Joined(16, <<\h6745, \h2301>>), Joined(16, <<\hefcd, \hab89>>),
           Joined(16, <<\h98ba, \hdcfe>>), Joined(16, <<\h1032, \h5476>>)>>

Added(buf, v) == [k \in 1..4 |-> Add(32, buf[k], v[k])]

\* Selection, majority, parity.
F(x, y, z) == (x \cap y) \cup (z \ x)
G(x, y, z) == (x \cap y) \cup (x \cap z) \cup (y \cap z)
H(x, y, z) == Xor(Xor(x, y), z)

-----------------------------------------------------------------------------
(* MD4 *)

MD4_S == <<<<3, 7, 11, 19>>, <<3, 5, 9, 13>>, <<3, 9, 11, 15>>>>
MD4_AC == <<{}, Joined(16, <<\h5a82, \h7999>>), Joined(16, <<\h6ed9, \heba1>>)>>
MD4_X == <<[i \in 0..15 |-> i],
           [i \in 0..15 |-> 4 * (i % 4) + (i \div 4)],
           [i \in 0..15 |-> <<0, 8, 4, 12, 2, 10, 6, 14, 1, 9, 5, 13, 3, 11, 7, 15>>[i + 1]]>>

MD4_Transform(state, block) ==
    LET x == Decode(block)
        Step(v, i) ==
            LET r == (i \div 16) + 1
                f == <<F(v[2], v[3], v[4]), G(v[2], v[3], v[4]), H(v[2], v[3], v[4])>>[r]
                a == Sum(32, <<v[1], f, x[MD4_X[r][i % 16]], MD4_AC[r]>>)
            IN  <<v[4], Rotl(32, a, MD4_S[r][(i % 4) + 1]), v[2], v[3]>>
    IN  Added(state, Steps(Step, 48, state))

Buffer4 == INSTANCE BlockHash WITH BlockSize <- 64, WordSize <- 4, Compile <- MD4_Transform

MD4Init == Buffer4!Begin(Start)
MD4Update(ctx, data) == Buffer4!Hash(data, ctx)

\* 80, zeros up to 56 modulo 64, and the number of bits before them.
Padding(count) ==
    LET index == count % 64
    IN  <<128>> \o [k \in 1..(IF index < 56 THEN 56 ELSE 120) - index - 1 |-> 0]
CountOfBits(count) == Reverse(Buffer4!Length(count))
MD4Final(ctx) ==
    Encode(MD4Update(MD4Update(ctx, Padding(ctx.count)), CountOfBits(ctx.count)).hash)

-----------------------------------------------------------------------------
(* MD5 *)

MD5_AC == <<
       \hd76a, \ha478, \he8c7, \hb756, \h2420, \h70db, \hc1bd, \hceee,
       \hf57c, \h0faf, \h4787, \hc62a, \ha830, \h4613, \hfd46, \h9501,
       \h6980, \h98d8, \h8b44, \hf7af, \hffff, \h5bb1, \h895c, \hd7be,
       \h6b90, \h1122, \hfd98, \h7193, \ha679, \h438e, \h49b4, \h0821,
       \hf61e, \h2562, \hc040, \hb340, \h265e, \h5a51, \he9b6, \hc7aa,
       \hd62f, \h105d, \h0244, \h1453, \hd8a1, \he681, \he7d3, \hfbc8,
       \h21e1, \hcde6, \hc337, \h07d6, \hf4d5, \h0d87, \h455a, \h14ed,
       \ha9e3, \he905, \hfcef, \ha3f8, \h676f, \h02d9, \h8d2a, \h4c8a,
       \hfffa, \h3942, \h8771, \hf681, \h6d9d, \h6122, \hfde5, \h380c,
       \ha4be, \hea44, \h4bde, \hcfa9, \hf6bb, \h4b60, \hbebf, \hbc70,
       \h289b, \h7ec6, \heaa1, \h27fa, \hd4ef, \h3085, \h0488, \h1d05,
       \hd9d4, \hd039, \he6db, \h99e5, \h1fa2, \h7cf8, \hc4ac, \h5665,
       \hf429, \h2244, \h432a, \hff97, \hab94, \h23a7, \hfc93, \ha039,
       \h655b, \h59c3, \h8f0c, \hcc92, \hffef, \hf47d, \h8584, \h5dd1,
       \h6fa8, \h7e4f, \hfe2c, \he6e0, \ha301, \h4314, \h4e08, \h11a1,
       \hf753, \h7e82, \hbd3a, \hf235, \h2ad7, \hd2bb, \heb86, \hd391>>
MD5_S == <<<<7, 12, 17, 22>>, <<5, 9, 14, 20>>, <<4, 11, 16, 23>>, <<6, 10, 15, 21>>>>
MD5_G(x, y, z) == (x \cap z) \cup (y \ z)
MD5_I(x, y, z) == Xor(y, x \cup Not(32, z))

\* Which word of the block step i takes.
MD5_In(i) == <<i, 1 + 5 * i, 5 + 3 * i, 7 * i>>[(i \div 16) + 1] % 16

MD5_Transform(buf, block) ==
    LET x == Decode(block)
        Step(v, i) ==
            LET r == (i \div 16) + 1
                f == <<F(v[2], v[3], v[4]), MD5_G(v[2], v[3], v[4]),
                       H(v[2], v[3], v[4]), MD5_I(v[2], v[3], v[4])>>[r]
                ac == Joined(16, <<MD5_AC[2 * i + 1], MD5_AC[2 * i + 2]>>)
                a == Rotl(32, Sum(32, <<v[1], f, x[MD5_In(i)], ac>>), MD5_S[r][(i % 4) + 1])
            IN  <<v[4], Add(32, a, v[2]), v[2], v[3]>>
    IN  Added(buf, Steps(Step, 64, buf))

Buffer5 == INSTANCE BlockHash WITH BlockSize <- 64, WordSize <- 4, Compile <- MD5_Transform

MD5Init == Buffer5!Begin(Start)
MD5Update(mdContext, inBuf) == Buffer5!Hash(inBuf, mdContext)

\* The count goes into the last two words of the block without an update.
MD5Final(mdContext) ==
    LET padded == MD5Update(mdContext, Padding(mdContext.count))
    IN  Encode(MD5_Transform(padded.hash,
                             SubSeq(padded.wbuf, 1, 56) \o CountOfBits(mdContext.count)))

-----------------------------------------------------------------------------
(* MD2 *)

MD2_S == <<
       41, 46, 67, 201, 162, 216, 124, 1, 61, 54, 84, 161, 236, 240, 6, 19,
       98, 167, 5, 243, 192, 199, 115, 140, 152, 147, 43, 217, 188, 76, 130,
       202, 30, 155, 87, 60, 253, 212, 224, 22, 103, 66, 111, 24, 138, 23,
       229, 18, 190, 78, 196, 214, 218, 158, 222, 73, 160, 251, 245, 142,
       187, 47, 238, 122, 169, 104, 121, 145, 21, 178, 7, 63, 148, 194, 16,
       137, 11, 34, 95, 33, 128, 127, 93, 154, 90, 144, 50, 39, 53, 62, 204,
       231, 191, 247, 151, 3, 255, 25, 48, 179, 72, 165, 181, 209, 215, 94,
       146, 42, 172, 86, 170, 198, 79, 184, 56, 210, 150, 164, 125, 182, 118,
       252, 107, 226, 156, 116, 4, 241, 69, 157, 112, 89, 100, 113, 135, 32,
       134, 91, 207, 101, 230, 45, 168, 2, 27, 96, 37, 173, 174, 176, 185,
       246, 28, 70, 97, 105, 52, 64, 126, 15, 85, 71, 163, 35, 221, 81, 175,
       58, 195, 92, 249, 206, 186, 197, 234, 38, 44, 83, 13, 110, 133, 40,
       132, 9, 211, 223, 205, 244, 65, 129, 77, 82, 106, 220, 55, 200, 108,
       193, 171, 250, 36, 225, 123, 8, 12, 189, 177, 74, 120, 136, 149, 139,
       227, 99, 232, 109, 233, 203, 213, 254, 59, 0, 29, 57, 242, 239, 183,
       14, 102, 88, 208, 228, 166, 119, 114, 248, 235, 117, 75, 10, 49, 68,
       80, 180, 143, 237, 31, 26, 219, 153, 141, 51, 159, 17, 131, 20>>

ByteXor(x, y) == Number(Xor(Joined(8, <<x>>), Joined(8, <<y>>)))
Substituted(x, t) == ByteXor(x, MD2_S[t + 1])

MD2Init == [X |-> [i \in 1..48 |-> 0], C |-> [i \in 1..16 |-> 0], buf |-> <<>>]

\* A run over x from left to right; every byte changes the next.
Chained(Next(_, _, _), x, t) ==
    LET One(u, i) == LET y == Next(x, i + 1, u.t) IN [x |-> Append(u.x, y), t |-> y]
    IN  Steps(One, Len(x), [x |-> <<>>, t |-> t])

MD2Block(md, block) ==
    LET sum(c, i, t) == Substituted(c[i], ByteXor(block[i], t))
        pass(x, j, t) == Substituted(x[j], t)
        x == SubSeq(md.X, 1, 16) \o block \o [i \in 1..16 |-> ByteXor(block[i], md.X[i])]
        Pass(u, i) == LET v == Chained(pass, u.x, u.t) IN [x |-> v.x, t |-> (v.t + i) % 256]
        passes == Steps(Pass, 18, [x |-> x, t |-> 0])
    IN  [X |-> passes.x, C |-> Chained(sum, md.C, md.C[16]).x, buf |-> <<>>]

MD2Update(md, data) ==
    LET all == md.buf \o data
        whole == Len(all) \div 16
    IN  [FoldLeft(LAMBDA m, k : MD2Block(m, SubSeq(all, 16 * k - 15, 16 * k)), md, [k \in 1..whole |-> k])
            EXCEPT !.buf = SubSeq(all, 16 * whole + 1, Len(all))]

TruncatedFinal(md, size) ==
    LET padlen == 16 - Len(md.buf)
        padded == MD2Update(md, [i \in 1..padlen |-> padlen])
    IN  SubSeq(MD2Update(padded, padded.C).X, 1, size)

-----------------------------------------------------------------------------
(* ShaHash and MDHash.  Begin makes the context, Update feeds it, End reads the*)
(* digest and deletes the context.                                         *)

Begin(mode) ==
    CASE mode = "SHA256" -> sha256_begin
      [] mode = "SHA384" -> sha384_begin
      [] mode = "SHA512" -> sha512_begin
      [] mode = "MD2" -> MD2Init
      [] mode = "MD4" -> MD4Init
      [] mode = "MD5" -> MD5Init
      [] OTHER -> sha1_begin

\* One call of the algorithm's own update.
Fed(mode, ctx, data) ==
    CASE mode = "SHA256" -> sha256_hash(data, ctx)
      [] mode \in {"SHA384", "SHA512"} -> sha512_hash(data, ctx)
      [] mode = "MD2" -> MD2Update(ctx, data)
      [] mode = "MD4" -> MD4Update(ctx, data)
      [] mode = "MD5" -> MD5Update(ctx, data)
      [] OTHER -> sha1_hash(data, ctx)

Update(mode, ctx, data) ==
    LET runs == (Len(data) + SIZE_HASH_BUFFER - 1) \div SIZE_HASH_BUFFER
        Run(k) == SubSeq(data, (k - 1) * SIZE_HASH_BUFFER + 1,
                         IF k = runs THEN Len(data) ELSE k * SIZE_HASH_BUFFER)
    IN  FoldLeft(LAMBDA c, k : Fed(mode, c, Run(k)), ctx, [k \in 1..runs |-> k])

End(mode, ctx) ==
    CASE mode = "SHA256" -> sha256_end(ctx)
      [] mode = "SHA384" -> sha384_end(ctx)
      [] mode = "SHA512" -> sha512_end(ctx)
      [] mode = "MD2" -> TruncatedFinal(ctx, 16)
      [] mode = "MD4" -> MD4Final(ctx)
      [] mode = "MD5" -> MD5Final(ctx)
      [] OTHER -> sha1_end(ctx)
=============================================================================
