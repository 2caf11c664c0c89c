------------------------------- MODULE BitSet -------------------------------
(***************************************************************************)
(* ReverseBitSet: bits in bytes, the first bit of a byte in its highest    *)
(* place, as in a bitfield message and in the record of a task.  The bits  *)
(* of the last byte behind the last one are kept zero, so that contents    *)
(* can be compared byte by byte.  A Sha1Hash is one of NBits bits, 160 in  *)
(* the code.                                                               *)
(***************************************************************************)
EXTENDS Integers, SequencesExt, FiniteSetsExt

CONSTANT NBits

Byte == 0..255
HEX_BIT == [i \in 0..7 |-> 2^(7 - i)]

NBytes(nbits) == IF nbits % 8 = 0 THEN nbits \div 8 ELSE nbits \div 8 + 1

BitIn(byte, i) == (byte \div HEX_BIT[i]) % 2 = 1
ByteOf(bits) == SumSet({HEX_BIT[i] : i \in bits})

Zeros(nbits) == [nbits |-> nbits, bytes |-> [k \in 1..NBytes(nbits) |-> 0]]

IsSet(bs, idx) == BitIn(bs.bytes[idx \div 8 + 1], idx % 8)
Set(bs, idx) ==
    [bs EXCEPT !.bytes[idx \div 8 + 1] = IF BitIn(@, idx % 8) THEN @ ELSE @ + HEX_BIT[idx % 8]]
UnSet(bs, idx) ==
    [bs EXCEPT !.bytes[idx \div 8 + 1] = IF BitIn(@, idx % 8) THEN @ - HEX_BIT[idx % 8] ELSE @]

\* The last byte without the bits behind the last one.
Trimmed(bs) ==
    LET remain == bs.nbits % 8
        last == Len(bs.bytes)
    IN  IF remain = 0 THEN bs
        ELSE [bs EXCEPT !.bytes[last] = ByteOf({i \in 0..remain - 1 : BitIn(@, i)})]

Reset(raw_data, nbits) ==
    Trimmed([nbits |-> nbits, bytes |-> SubSeq(raw_data, 1, NBytes(nbits))])

Flip(bs) == Trimmed([bs EXCEPT !.bytes = [k \in DOMAIN @ |-> 255 - @[k]]])

IsEmpty(bs) == bs.bytes = Zeros(bs.nbits).bytes
IsAllSet(bs) == bs = Reset([k \in DOMAIN bs.bytes |-> 255], bs.nbits)

\* operator &, | and ^, byte by byte, with a byte taken as the set of its bits.
BitsOf(byte) == {i \in 0..7 : BitIn(byte, i)}
FromBits(bs, bits) == Reset([k \in DOMAIN bs.bytes |-> ByteOf(bits[k])], bs.nbits)
And(bs, other) ==
    FromBits(bs, [k \in DOMAIN bs.bytes |-> BitsOf(bs.bytes[k]) \cap BitsOf(other.bytes[k])])
Or(bs, other) ==
    FromBits(bs, [k \in DOMAIN bs.bytes |-> BitsOf(bs.bytes[k]) \cup BitsOf(other.bytes[k])])
Xor(bs, other) ==
    FromBits(bs, [k \in DOMAIN bs.bytes |-> SymDiff(BitsOf(bs.bytes[k]), BitsOf(other.bytes[k]))])

\* operator << and >>: the bits that stay inside, one after the other.
WithBits(nbits, bits) == FoldSet(LAMBDA idx, bs : Set(bs, idx), Zeros(nbits), bits)
ShiftLeft(bs, nbit) ==
    WithBits(bs.nbits, {idx \in 0..bs.nbits - nbit - 1 : IsSet(bs, idx + nbit)})
ShiftRight(bs, nbit) ==
    WithBits(bs.nbits, {idx \in nbit..bs.nbits - 1 : IsSet(bs, idx - nbit)})

-----------------------------------------------------------------------------
(* Sha1Hash: the identity of a task and of a piece; the first bit counts most.*)

N == INSTANCE Numbers WITH Bits <- 16

Sha1Reset(data) == Reset(data, NBits)
GetRawData(hash) == hash.bytes

\* The first bit in which two hashes differ, NBits for none.
Differ(hash, other) ==
    Min({NBits} \cup {i \in 0..NBits - 1 : IsSet(hash, i) # IsSet(other, i)})
LessThan(hash, other) ==
    LET i == Differ(hash, other) IN i # NBits /\ ~IsSet(hash, i)
GreaterThan(hash, other) ==
    LET i == Differ(hash, other) IN i # NBits /\ IsSet(hash, i)
Equal(hash, other) == hash.bytes = other.bytes

\* Of the highest bit that is set, -1 for none.
Log2N(hash) ==
    LET set == {i \in 0..NBits - 1 : IsSet(hash, i)}
    IN  IF set = {} THEN -1 ELSE NBits - 1 - Min(set)

Distance(hash, other) == Xor(hash, other)
ToHexString(hash) == FlattenSeq([k \in DOMAIN hash.bytes |-> N!FormatHexWidth(hash.bytes[k], 2)])
=============================================================================
