---------------------------- MODULE StorageProofs ----------------------------
(***************************************************************************)
(* The caches are sound, what is owned is good on the disk, and Storage    *)
(* implements PieceStore, for all files, lengths and cache sizes.          *)
(***************************************************************************)
EXTENDS Storage, FiniteSetTheorems, SequenceTheorems, TLAPS

(***************************************************************************)
(* Pieces and their blocks.                                                *)
(***************************************************************************)

LEMMA DivisionBound ==
    ASSUME NEW n \in Nat, NEW d \in Nat \ {0}, NEW k \in 0..n \div d
    PROVE  k * d <= n
<1>1. n \div d \in Int /\ d * (n \div d) <= n
  OBVIOUS
<1>2. PICK m \in Int : m = n \div d
  BY <1>1
<1>3. k <= m /\ d * m <= n
  BY <1>1, <1>2
<1>4. (m - k) * d >= 0
  BY <1>3
<1>5. QED
  BY <1>3, <1>4

\* A piece is not empty, its blocks lie in the torrent.
LEMMA PieceFacts ==
    ASSUME NEW p \in Piece
    PROVE  /\ p \in Nat
           /\ GetPieceLength(p) \in 1..PieceLength
           /\ Block[p] = 0..GetPieceLength(p) - 1
           /\ \A b \in Block[p] : p * PieceLength + b \in 0..TotalSize - 1
<1>1. TotalSize \in Nat \ {0} /\ PieceLength \in Nat \ {0}
  BY StorageAssumption
<1>2. p \in Nat /\ p \in 0..(TotalSize - 1) \div PieceLength
  BY <1>1 DEF Piece
<1>3. p * PieceLength <= TotalSize - 1
  BY <1>1, <1>2, DivisionBound
<1>4. PICK at \in Nat : at = p * PieceLength
  BY <1>1, <1>2
<1>5. (p + 1) * PieceLength = at + PieceLength
  BY <1>1, <1>2, <1>4
<1>6. /\ GetPieceLength(p) \in 1..PieceLength
      /\ at + GetPieceLength(p) <= TotalSize
  BY <1>1, <1>3, <1>4, <1>5 DEF GetPieceLength
<1>7. Block[p] = 0..GetPieceLength(p) - 1
  BY DEF Block
<1>8. QED
  BY <1>1, <1>2, <1>4, <1>6, <1>7

LEMMA LengthIsNat ==
    ASSUME NEW p \in Piece
    PROVE  GetPieceLength(p) \in Nat
<1>1. GetPieceLength(p) \in 1..PieceLength /\ PieceLength \in Nat
  BY PieceFacts, StorageAssumption
<1>2. QED
  BY <1>1

\* Blocks of two pieces are apart.
LEMMA PiecesApart ==
    ASSUME NEW p \in Piece, NEW q \in Piece, NEW b \in Block[q],
           q * PieceLength + b - p * PieceLength \in Block[p]
    PROVE  p = q
<1>1. PieceLength \in Nat \ {0}
  BY StorageAssumption
<1>2. /\ p \in Nat /\ q \in Nat /\ b \in 0..PieceLength - 1
      /\ q * PieceLength + b - p * PieceLength \in 0..PieceLength - 1
  <2>1. \A r \in Piece : \A c \in Block[r] : c \in 0..PieceLength - 1
    <3> SUFFICES ASSUME NEW r \in Piece, NEW c \in Block[r] PROVE c \in 0..PieceLength - 1
      OBVIOUS
    <3>1. GetPieceLength(r) \in 1..PieceLength /\ c \in 0..GetPieceLength(r) - 1
      BY PieceFacts
    <3>2. QED
      BY <1>1, <3>1
  <2>2. QED
    BY <2>1, PieceFacts
<1>3. q * PieceLength + b - p * PieceLength = (q - p) * PieceLength + b
  BY <1>1, <1>2
<1>4. ASSUME q > p PROVE FALSE
  <2>1. (q - p) * PieceLength >= PieceLength
    BY <1>1, <1>2, <1>4
  <2>2. QED
    BY <1>1, <1>2, <1>3, <2>1
<1>5. ASSUME p > q PROVE FALSE
  <2>1. /\ (p - q) * PieceLength >= PieceLength
        /\ (q - p) * PieceLength = -((p - q) * PieceLength)
    BY <1>1, <1>2, <1>5
  <2>2. QED
    BY <1>1, <1>2, <1>3, <2>1
<1>6. QED
  BY <1>2, <1>4, <1>5

\* The blocks of some pieces, and how many.
Blocks(pieces) == UNION {{p} \X Block[p] : p \in pieces}

LEMMA BlocksFinite ==
    ASSUME NEW pieces \in SUBSET Piece
    PROVE  IsFiniteSet(Blocks(pieces)) /\ Cardinality(Blocks(pieces)) \in Nat
<1> DEFINE all == Piece \X (0..PieceLength - 1)
<1>1. PieceLength \in Nat \ {0} /\ TotalSize \in Nat \ {0}
  BY StorageAssumption
<1>2. (TotalSize - 1) \div PieceLength \in Int
  BY <1>1
<1>3. IsFiniteSet(Piece)
  BY <1>2, FS_Interval DEF Piece
<1>4. IsFiniteSet(0..PieceLength - 1)
  BY <1>1, FS_Interval
<1>5. IsFiniteSet(all)
  BY <1>3, <1>4, FS_Product
<1>6. Blocks(pieces) \subseteq all
  BY <1>1, PieceFacts DEF Blocks
<1>7. QED
  BY <1>5, <1>6, FS_Subset, FS_CardinalityType

\* One piece more.
LEMMA BlocksMore ==
    ASSUME NEW pieces \in SUBSET Piece, NEW p \in Piece \ pieces
    PROVE  /\ Cardinality(Blocks(pieces \cup {p}))
                = Cardinality(Blocks(pieces)) + GetPieceLength(p)
           /\ Cardinality(Block[p]) = GetPieceLength(p)
<1> DEFINE mine == {p} \X Block[p]
<1>1. GetPieceLength(p) \in Nat \ {0} /\ Block[p] = 0..GetPieceLength(p) - 1
  BY PieceFacts, StorageAssumption
<1>2. IsFiniteSet(Block[p]) /\ Cardinality(Block[p]) = GetPieceLength(p)
  BY <1>1, FS_Interval
<1>3. IsFiniteSet({p}) /\ Cardinality({p}) = 1
  BY FS_Singleton
<1>4. IsFiniteSet(mine) /\ Cardinality(mine) = Cardinality({p}) * Cardinality(Block[p])
  BY <1>2, <1>3, FS_Product
<1>5. Cardinality(mine) = GetPieceLength(p)
  BY <1>1, <1>2, <1>3, <1>4
<1>6. Blocks(pieces \cup {p}) = Blocks(pieces) \cup mine /\ Blocks(pieces) \cap mine = {}
  BY DEF Blocks
<1>7. Cardinality(Blocks(pieces) \cup mine)
        = Cardinality(Blocks(pieces)) + Cardinality(mine)
              - Cardinality(Blocks(pieces) \cap mine)
  BY <1>4, BlocksFinite, FS_Union
<1>8. Cardinality(Blocks(pieces) \cap mine) = 0
  BY <1>6, FS_EmptySet
<1>9. Cardinality(Blocks(pieces)) \in Nat
  BY BlocksFinite
<1>10. PICK total \in Nat : total = Cardinality(Blocks(pieces))
  BY <1>9
<1>11. Cardinality(Blocks(pieces) \cup mine) = total + GetPieceLength(p) - 0
  BY <1>5, <1>7, <1>8, <1>10
<1>12. total + GetPieceLength(p) - 0 = total + GetPieceLength(p)
  BY <1>1
<1>13. QED
  BY <1>2, <1>6, <1>10, <1>11, <1>12

(***************************************************************************)
(* A cache and its operations.                                             *)
(***************************************************************************)

Entry == UNION {[piece : {p}, data : [Block[p] -> Data]] : p \in Piece}

\* Entries of different pieces.
Row(s) ==
    /\ s \in Seq(Entry)
    /\ \A j, k \in DOMAIN s : s[j].piece = s[k].piece => j = k

PiecesOf(s) == {s[k].piece : k \in DOMAIN s}

CacheOK(cache) ==
    /\ cache \in [max : Nat, left : Nat, caches : Seq(Entry)]
    /\ Row(cache.caches)
    /\ cache.max = cache.left + Cardinality(Blocks(CachePieces(cache)))

LEMMA EntryFacts ==
    /\ \A e \in Entry : e.piece \in Piece /\ e.data \in [Block[e.piece] -> Data]
    /\ \A p \in Piece : \A data \in [Block[p] -> Data] : [piece |-> p, data |-> data] \in Entry
BY DEF Entry

LEMMA CachedPieces ==
    ASSUME NEW c
    PROVE  CachePieces(c) = PiecesOf(c.caches)
BY DEF CachePieces, PiecesOf

\* A piece in a cache has one place.
LEMMA PlaceFacts ==
    ASSUME NEW c, Row(c.caches), NEW p \in CachePieces(c)
    PROVE  /\ Place(c, p) \in DOMAIN c.caches
           /\ c.caches[Place(c, p)].piece = p
           /\ \A k \in DOMAIN c.caches : c.caches[k].piece = p => k = Place(c, p)
<1>1. \E k \in DOMAIN c.caches : c.caches[k].piece = p
  BY DEF CachePieces
<1>2. Place(c, p) \in DOMAIN c.caches /\ c.caches[Place(c, p)].piece = p
  BY <1>1, Zenon DEF Place
<1>3. QED
  BY <1>2 DEF Row

LEMMA DataFacts ==
    ASSUME NEW c, Row(c.caches), NEW k \in DOMAIN c.caches
    PROVE  /\ c.caches[k].piece \in CachePieces(c)
           /\ c.caches[k].piece \in Piece
           /\ DataOf(c, c.caches[k].piece) = c.caches[k].data
           /\ c.caches[k].data \in [Block[c.caches[k].piece] -> Data]
<1>1. c.caches[k].piece \in CachePieces(c)
  BY DEF CachePieces
<1>2. Place(c, c.caches[k].piece) = k
  BY <1>1, PlaceFacts
<1>3. c.caches[k] \in Entry
  BY DEF Row
<1>4. QED
  BY <1>1, <1>2, <1>3, EntryFacts DEF DataOf

LEMMA CachedFacts ==
    ASSUME NEW c, Row(c.caches), NEW p \in CachePieces(c)
    PROVE  p \in Piece /\ DataOf(c, p) \in [Block[p] -> Data]
<1>1. Place(c, p) \in DOMAIN c.caches /\ c.caches[Place(c, p)].piece = p
  BY PlaceFacts
<1>2. QED
  BY <1>1, DataFacts

\* Without one of its entries.
LEMMA RemoveAtFacts ==
    ASSUME NEW S, NEW s \in Seq(S), NEW n \in DOMAIN s
    PROVE  /\ RemoveAt(s, n) \in Seq(S)
           /\ Len(RemoveAt(s, n)) = Len(s) - 1
           /\ \A k \in 1..Len(s) - 1 :
                 RemoveAt(s, n)[k] = IF k < n THEN s[k] ELSE s[k + 1]
<1> DEFINE before == SubSeq(s, 1, n - 1)
           after == SubSeq(s, n + 1, Len(s))
<1>1. Len(s) \in Nat /\ n \in 1..Len(s) /\ \A i \in 1..Len(s) : s[i] \in S
  OBVIOUS
<1>2. /\ before \in Seq(S) /\ Len(before) = n - 1
      /\ \A i \in 1..n - 1 : before[i] = s[i]
  <2>1. \A i \in 1..n - 1 : s[i] \in S
    BY <1>1
  <2>2. 1 \in Int /\ n - 1 \in Int
    BY <1>1
  <2>3. /\ before \in Seq(S)
        /\ Len(before) = IF 1 <= n - 1 THEN n - 1 - 1 + 1 ELSE 0
        /\ \A i \in 1..n - 1 - 1 + 1 : before[i] = s[1 + i - 1]
    BY ONLY <2>1, <2>2, SubSeqProperties
  <2>4. QED
    BY <1>1, <2>3
<1>3. /\ after \in Seq(S) /\ Len(after) = Len(s) - n
      /\ \A i \in 1..Len(s) - n : after[i] = s[n + i]
  <2>1. \A i \in n + 1..Len(s) : s[i] \in S
    BY <1>1
  <2>2. n + 1 \in Int /\ Len(s) \in Int
    BY <1>1
  <2>3. /\ after \in Seq(S)
        /\ Len(after) = IF n + 1 <= Len(s) THEN Len(s) - (n + 1) + 1 ELSE 0
        /\ \A i \in 1..Len(s) - (n + 1) + 1 : after[i] = s[n + 1 + i - 1]
    BY ONLY <2>1, <2>2, SubSeqProperties
  <2>4. QED
    BY <1>1, <2>3
<1>4. /\ before \o after \in Seq(S)
      /\ Len(before \o after) = Len(before) + Len(after)
      /\ \A i \in 1..Len(before) + Len(after) : (before \o after)[i] =
            IF i <= Len(before) THEN before[i] ELSE after[i - Len(before)]
  BY <1>2, <1>3, ConcatProperties
<1>5. RemoveAt(s, n) = before \o after
  BY DEF RemoveAt
<1> HIDE DEF before, after
<1>6. Len(before) + Len(after) = Len(s) - 1
  BY <1>1, <1>2, <1>3
<1>7. ASSUME NEW k \in 1..Len(s) - 1
      PROVE  (before \o after)[k] = IF k < n THEN s[k] ELSE s[k + 1]
  <2>1. (before \o after)[k] = IF k <= n - 1 THEN before[k] ELSE after[k - (n - 1)]
    BY <1>2, <1>4, <1>6, <1>7
  <2>2. CASE k < n
    BY <1>1, <1>2, <2>1, <2>2
  <2>3. CASE ~(k < n)
    <3>1. k - (n - 1) \in 1..Len(s) - n /\ n + (k - (n - 1)) = k + 1
      BY <1>1, <2>3
    <3>2. after[k - (n - 1)] = s[n + (k - (n - 1))]
      BY <1>3, <3>1
    <3>3. QED
      BY <1>1, <2>1, <2>3, <3>1, <3>2
  <2>4. QED
    BY <2>2, <2>3
<1>8. QED
  BY <1>4, <1>5, <1>6, <1>7

LEMMA OthersFacts ==
    ASSUME NEW c, Row(c.caches), NEW p \in CachePieces(c), NEW s, s = Others(c, p)
    PROVE  /\ Row(s)
           /\ PiecesOf(s) = CachePieces(c) \ {p}
           /\ \A k \in DOMAIN s : \E j \in DOMAIN c.caches : s[k] = c.caches[j]
<1> DEFINE old == c.caches
           n == Place(c, p)
<1>1. old \in Seq(Entry) /\ \A j, k \in DOMAIN old : old[j].piece = old[k].piece => j = k
  BY DEF Row
<1>2. n \in DOMAIN old /\ old[n].piece = p
  BY PlaceFacts
<1>3. s = RemoveAt(old, n)
  BY DEF Others
<1> HIDE DEF old, n
<1>4. /\ s \in Seq(Entry) /\ Len(s) = Len(old) - 1
      /\ \A k \in 1..Len(old) - 1 : s[k] = IF k < n THEN old[k] ELSE old[k + 1]
  BY <1>1, <1>2, <1>3, RemoveAtFacts
<1>5. Len(old) \in Nat /\ DOMAIN old = 1..Len(old) /\ DOMAIN s = 1..Len(old) - 1
  BY <1>1, <1>4
<1>6. \A k \in DOMAIN s : \E j \in DOMAIN old : j # n /\ s[k] = old[j]
  <2> SUFFICES ASSUME NEW k \in DOMAIN s PROVE \E j \in DOMAIN old : j # n /\ s[k] = old[j]
    OBVIOUS
  <2>1. k \in DOMAIN old /\ k + 1 \in DOMAIN old
    BY <1>5
  <2>2. CASE k < n
    BY <1>4, <1>5, <2>1, <2>2
  <2>3. CASE ~(k < n)
    <3>1. s[k] = old[k + 1] /\ k + 1 # n
      BY <1>2, <1>4, <1>5, <2>3
    <3>2. QED
      BY <2>1, <3>1
  <2>4. QED
    BY <2>2, <2>3
<1>7. \A j \in DOMAIN old : j # n => \E k \in DOMAIN s : s[k] = old[j]
  <2> SUFFICES ASSUME NEW j \in DOMAIN old, j # n PROVE \E k \in DOMAIN s : s[k] = old[j]
    OBVIOUS
  <2>1. CASE j < n
    <3>1. j \in DOMAIN s
      BY <1>2, <1>5, <2>1
    <3>2. QED
      BY <1>4, <1>5, <2>1, <3>1
  <2>2. CASE j > n
    <3>1. j - 1 \in DOMAIN s /\ ~(j - 1 < n) /\ (j - 1) + 1 = j
      BY <1>2, <1>5, <2>2
    <3>2. QED
      BY <1>4, <1>5, <3>1
  <2>3. QED
    BY <1>2, <1>5, <2>1, <2>2
<1>8. \A j, k \in DOMAIN s : s[j].piece = s[k].piece => j = k
  <2> SUFFICES ASSUME NEW j \in DOMAIN s, NEW k \in DOMAIN s, s[j].piece = s[k].piece
               PROVE  j = k
    OBVIOUS
  <2>1. PICK a \in DOMAIN old : s[j] = old[a] /\ a = IF j < n THEN j ELSE j + 1
    BY <1>4, <1>5
  <2>2. PICK b \in DOMAIN old : s[k] = old[b] /\ b = IF k < n THEN k ELSE k + 1
    BY <1>4, <1>5
  <2>3. a = b
    BY <1>1, <2>1, <2>2
  <2>4. QED
    BY <1>2, <1>5, <2>1, <2>2, <2>3
<1>9. PiecesOf(s) = CachePieces(c) \ {p}
  <2>1. CachePieces(c) = {old[k].piece : k \in DOMAIN old}
    BY DEF CachePieces, old
  <2>2. \A k \in DOMAIN s : s[k].piece \in CachePieces(c) /\ s[k].piece # p
    BY <1>1, <1>2, <1>6, <2>1
  <2>3. ASSUME NEW q \in CachePieces(c) \ {p} PROVE \E k \in DOMAIN s : s[k].piece = q
    <3>1. PICK j \in DOMAIN old : old[j].piece = q
      BY <2>1, <2>3
    <3>2. j # n
      BY <1>2, <2>3, <3>1
    <3>3. QED
      BY <1>7, <3>1, <3>2
  <2>4. QED
    BY <2>2, <2>3 DEF PiecesOf
<1>10. QED
  BY <1>4, <1>6, <1>8, <1>9 DEF Row, old

Appended(t, s, e) ==
    /\ Row(t) /\ PiecesOf(t) = PiecesOf(s) \cup {e.piece}
    /\ \E k \in DOMAIN t : t[k] = e
    /\ \A k \in DOMAIN t : t[k] = e \/ \E j \in DOMAIN s : t[k] = s[j]

LEMMA AppendFacts ==
    ASSUME NEW s, NEW e, NEW t, Row(s), e \in Entry, e.piece \notin PiecesOf(s),
           t = Append(s, e)
    PROVE  Appended(t, s, e)
<1>1. s \in Seq(Entry) /\ \A j, k \in DOMAIN s : s[j].piece = s[k].piece => j = k
  BY DEF Row
<1>2. /\ t \in Seq(Entry) /\ Len(t) = Len(s) + 1
      /\ \A i \in 1..Len(s) : t[i] = s[i]
      /\ t[Len(s) + 1] = e
  BY <1>1, AppendProperties
<1>3. Len(s) \in Nat /\ DOMAIN s = 1..Len(s) /\ DOMAIN t = 1..Len(s) + 1
  BY <1>1, <1>2
<1>4. DOMAIN t = DOMAIN s \cup {Len(s) + 1}
  BY <1>3
<1>5. \A k \in DOMAIN s : t[k] = s[k] /\ s[k].piece # e.piece
  BY <1>2, <1>3 DEF PiecesOf
<1>6. \A j, k \in DOMAIN t : t[j].piece = t[k].piece => j = k
  BY <1>1, <1>2, <1>4, <1>5
<1>7. PiecesOf(t) = PiecesOf(s) \cup {e.piece}
  BY <1>2, <1>4, <1>5 DEF PiecesOf
<1>8. QED
  BY <1>2, <1>4, <1>5, <1>6, <1>7 DEF Row, Appended

\* What an entry of a cache was in another cache, its data are there.
LEMMA SameData ==
    ASSUME NEW c, Row(c.caches), NEW d, Row(d.caches), NEW q \in CachePieces(d),
           \A k \in DOMAIN d.caches : d.caches[k].piece = q =>
               \E j \in DOMAIN c.caches : d.caches[k] = c.caches[j]
    PROVE  q \in CachePieces(c) /\ DataOf(d, q) = DataOf(c, q)
<1>1. PICK k \in DOMAIN d.caches : d.caches[k].piece = q
  BY PlaceFacts
<1>2. PICK j \in DOMAIN c.caches : d.caches[k] = c.caches[j]
  BY <1>1
<1>3. DataOf(d, q) = d.caches[k].data
  BY <1>1, DataFacts
<1>4. c.caches[j].piece \in CachePieces(c) /\ DataOf(c, c.caches[j].piece) = c.caches[j].data
  BY DataFacts
<1>5. QED
  BY <1>1, <1>2, <1>3, <1>4

LEMMA LengthFacts ==
    ASSUME NEW c, CacheOK(c)
    PROVE  /\ Row(c.caches)
           /\ c.max \in Nat /\ c.left \in Nat
           /\ CachePieces(c) \in SUBSET Piece
           /\ Cardinality(Blocks(CachePieces(c))) \in Nat
           /\ c.max = c.left + Cardinality(Blocks(CachePieces(c)))
<1>1. Row(c.caches) /\ c.max \in Nat /\ c.left \in Nat
      /\ c.max = c.left + Cardinality(Blocks(CachePieces(c)))
  BY DEF CacheOK
<1>2. CachePieces(c) \in SUBSET Piece
  BY <1>1, CachedFacts
<1>3. QED
  BY <1>1, <1>2, BlocksFinite

LEMMA CacheFields ==
    ASSUME NEW c, CacheOK(c)
    PROVE  c = [max |-> c.max, left |-> c.left, caches |-> c.caches]
BY DEF CacheOK

\* GetCache takes no room, and keeps all but the data written through it.
LEMMA GetCacheFacts ==
    ASSUME NEW c, CacheOK(c), NEW p \in CachePieces(c), NEW data \in [Block[p] -> Data],
           NEW d, d = GetCache(c, p, data)
    PROVE  /\ CacheOK(d) /\ d.max = c.max /\ CachePieces(d) = CachePieces(c)
           /\ DataOf(d, p) = data
           /\ \A q \in CachePieces(c) \ {p} : DataOf(d, q) = DataOf(c, q)
<1>1. Row(c.caches) /\ p \in Piece
  BY LengthFacts
<1>2. PICK s : s = Others(c, p)
  OBVIOUS
<1>3. /\ Row(s)
      /\ PiecesOf(s) = CachePieces(c) \ {p}
      /\ \A k \in DOMAIN s : \E j \in DOMAIN c.caches : s[k] = c.caches[j]
  BY <1>1, <1>2, OthersFacts
<1>4. PICK e : e = [piece |-> p, data |-> data]
  OBVIOUS
<1>5. e \in Entry /\ e.piece = p /\ e.data = data
  BY <1>1, <1>4, EntryFacts
<1>6. PICK t : t = Append(s, e)
  OBVIOUS
<1>7. /\ Row(t)
      /\ PiecesOf(t) = PiecesOf(s) \cup {e.piece}
      /\ \E k \in DOMAIN t : t[k] = e
      /\ \A k \in DOMAIN t : t[k] = e \/ \E j \in DOMAIN s : t[k] = s[j]
  <2> SUFFICES Appended(t, s, e)
    BY DEF Appended
  <2>1. e.piece \notin PiecesOf(s)
    BY <1>3, <1>5
  <2>2. QED
    BY ONLY <1>3, <1>5, <1>6, <2>1, AppendFacts, Zenon
<1>8. d.caches = t /\ d.max = c.max /\ d.left = c.left
      /\ d = [max |-> c.max, left |-> c.left, caches |-> t]
  <2>1. c = [max |-> c.max, left |-> c.left, caches |-> c.caches]
    BY CacheFields
  <2>2. d = [c EXCEPT !.caches = t]
    BY <1>2, <1>4, <1>6, Zenon DEF GetCache
  <2>3. QED
    BY <2>1, <2>2
<1>9. CachePieces(d) = CachePieces(c)
  BY <1>3, <1>5, <1>7, <1>8, CachedPieces
<1>10. CacheOK(d)
  BY <1>7, <1>8, <1>9, LengthFacts DEF CacheOK, Row
<1>11. DataOf(d, p) = data
  <2>1. PICK k \in DOMAIN d.caches : d.caches[k] = e
    BY <1>7, <1>8
  <2>2. DataOf(d, d.caches[k].piece) = d.caches[k].data
    BY <1>7, <1>8, DataFacts
  <2>3. QED
    BY <1>5, <2>1, <2>2
<1>12. ASSUME NEW q \in CachePieces(c) \ {p} PROVE DataOf(d, q) = DataOf(c, q)
  <2>1. \A k \in DOMAIN d.caches : d.caches[k].piece = q =>
            \E j \in DOMAIN c.caches : d.caches[k] = c.caches[j]
    BY <1>3, <1>5, <1>7, <1>8
  <2>2. QED
    BY <1>1, <1>7, <1>8, <1>9, <2>1, SameData
<1>13. QED
  BY <1>8, <1>9, <1>10, <1>11, <1>12

\* AllocateCache takes the room of the piece.
LEMMA AllocateFacts ==
    ASSUME NEW c, CacheOK(c), NEW p \in Piece \ CachePieces(c),
           NEW data \in [Block[p] -> Data], c.left >= GetPieceLength(p),
           NEW d, d = AllocateCache(c, p, data)
    PROVE  /\ CacheOK(d) /\ d.max = c.max /\ CachePieces(d) = CachePieces(c) \cup {p}
           /\ DataOf(d, p) = data
           /\ \A q \in CachePieces(c) : DataOf(d, q) = DataOf(c, q)
<1>1. Row(c.caches) /\ c.left \in Nat /\ c.max \in Nat
  BY LengthFacts
<1>2. PICK e : e = [piece |-> p, data |-> data]
  OBVIOUS
<1>3. e \in Entry /\ e.piece = p /\ e.data = data
  BY <1>1, <1>2, EntryFacts
<1>4. PICK t : t = Append(c.caches, e)
  OBVIOUS
<1>5. CachePieces(c) = PiecesOf(c.caches)
  BY CachedPieces
<1>6. PICK s : s = c.caches
  OBVIOUS
<1>7. /\ Row(t)
      /\ PiecesOf(t) = PiecesOf(s) \cup {e.piece}
      /\ \E k \in DOMAIN t : t[k] = e
      /\ \A k \in DOMAIN t : t[k] = e \/ \E j \in DOMAIN s : t[k] = s[j]
  <2> SUFFICES Appended(t, s, e)
    BY DEF Appended
  <2>1. Row(s) /\ e.piece \notin PiecesOf(s) /\ t = Append(s, e)
    BY <1>1, <1>3, <1>4, <1>5, <1>6
  <2>2. QED
    BY ONLY <1>3, <2>1, AppendFacts, Zenon
<1>8. /\ Cardinality(Block[p]) = GetPieceLength(p) /\ GetPieceLength(p) \in Nat
      /\ Cardinality(Blocks(CachePieces(c) \cup {p}))
            = Cardinality(Blocks(CachePieces(c))) + GetPieceLength(p)
  <2>1. GetPieceLength(p) \in Nat
    BY LengthIsNat
  <2>2. CachePieces(c) \in SUBSET Piece
    BY LengthFacts
  <2>3. QED
    BY <2>1, <2>2, BlocksMore
<1>9. d.caches = t /\ d.max = c.max /\ d.left = c.left - GetPieceLength(p)
      /\ d = [max |-> c.max, left |-> c.left - GetPieceLength(p), caches |-> t]
  <2>1. c = [max |-> c.max, left |-> c.left, caches |-> c.caches]
    BY CacheFields
  <2>2. Length(data) = GetPieceLength(p)
    BY <1>8 DEF Length
  <2>3. d = [c EXCEPT !.caches = t, !.left = c.left - GetPieceLength(p)]
    BY <1>2, <1>4, <2>2, Zenon DEF AllocateCache
  <2>4. QED
    BY <2>1, <2>3
<1>10. CachePieces(d) = CachePieces(c) \cup {p}
  BY <1>3, <1>5, <1>6, <1>7, <1>9, CachedPieces
<1>11. d.left \in Nat /\ d.max = d.left + Cardinality(Blocks(CachePieces(d)))
  <2>1. PICK n \in Nat : n = Cardinality(Blocks(CachePieces(c)))
    BY LengthFacts
  <2>2. c.max = c.left + n
    BY <2>1, LengthFacts
  <2>3. Cardinality(Blocks(CachePieces(d))) = n + GetPieceLength(p)
    BY <1>8, <1>10, <2>1
  <2>4. PICK m \in Nat : m = GetPieceLength(p) /\ c.left >= m
    BY <1>8
  <2>5. d.left = c.left - m /\ Cardinality(Blocks(CachePieces(d))) = n + m
    BY <1>9, <2>3, <2>4
  <2>6. QED
    BY <1>1, <1>9, <2>2, <2>4, <2>5
<1>12. CacheOK(d)
  BY <1>1, <1>7, <1>9, <1>11 DEF CacheOK, Row
<1>13. DataOf(d, p) = data
  <2>1. PICK k \in DOMAIN d.caches : d.caches[k] = e
    BY <1>7, <1>9
  <2>2. DataOf(d, d.caches[k].piece) = d.caches[k].data
    BY <1>7, <1>9, DataFacts
  <2>3. QED
    BY <1>3, <2>1, <2>2
<1>14. ASSUME NEW q \in CachePieces(c) PROVE DataOf(d, q) = DataOf(c, q)
  <2>1. \A k \in DOMAIN d.caches : d.caches[k].piece = q =>
            \E j \in DOMAIN c.caches : d.caches[k] = c.caches[j]
    BY <1>3, <1>6, <1>7, <1>9
  <2>2. QED
    BY <1>1, <1>7, <1>9, <1>10, <2>1, SameData
<1>15. QED
  BY <1>9, <1>10, <1>12, <1>13, <1>14

\* RemoveCache gives its room back.
LEMMA RemoveFacts ==
    ASSUME NEW c, CacheOK(c), NEW p \in CachePieces(c), NEW d, d = RemoveCache(c, p)
    PROVE  /\ CacheOK(d) /\ d.max = c.max /\ CachePieces(d) = CachePieces(c) \ {p}
           /\ \A q \in CachePieces(c) \ {p} : DataOf(d, q) = DataOf(c, q)
<1>1. Row(c.caches) /\ c.left \in Nat /\ c.max \in Nat /\ p \in Piece
      /\ CachePieces(c) \in SUBSET Piece
  BY LengthFacts
<1>2. PICK s : s = Others(c, p)
  OBVIOUS
<1>3. /\ Row(s)
      /\ PiecesOf(s) = CachePieces(c) \ {p}
      /\ \A k \in DOMAIN s : \E j \in DOMAIN c.caches : s[k] = c.caches[j]
  BY <1>1, <1>2, OthersFacts
<1>4. PICK rest \in SUBSET Piece : rest = CachePieces(c) \ {p}
  BY <1>1
<1>5. /\ Cardinality(Block[p]) = GetPieceLength(p) /\ GetPieceLength(p) \in Nat
      /\ Cardinality(Blocks(rest \cup {p})) = Cardinality(Blocks(rest)) + GetPieceLength(p)
      /\ Cardinality(Blocks(rest)) \in Nat
  <2>1. GetPieceLength(p) \in Nat
    BY <1>1, LengthIsNat
  <2>2. p \in Piece \ rest
    BY <1>1, <1>4
  <2>3. QED
    BY <2>1, <2>2, BlocksMore, BlocksFinite
<1>6. rest \cup {p} = CachePieces(c)
  BY <1>4
<1>7. d.caches = s /\ d.max = c.max /\ d.left = c.left + GetPieceLength(p)
      /\ d = [max |-> c.max, left |-> c.left + GetPieceLength(p), caches |-> s]
  <2>1. c = [max |-> c.max, left |-> c.left, caches |-> c.caches]
    BY CacheFields
  <2>2. DataOf(c, p) \in [Block[p] -> Data]
    BY <1>1, CachedFacts
  <2>3. Length(DataOf(c, p)) = GetPieceLength(p)
    BY <1>5, <2>2 DEF Length
  <2>4. d = [c EXCEPT !.caches = s, !.left = c.left + GetPieceLength(p)]
    BY <1>2, <2>3, Zenon DEF RemoveCache
  <2>5. QED
    BY <2>1, <2>4
<1>8. CachePieces(d) = CachePieces(c) \ {p}
  BY <1>3, <1>7, CachedPieces
<1>9. d.left \in Nat /\ d.max = d.left + Cardinality(Blocks(CachePieces(d)))
  <2>1. PICK n \in Nat : n = Cardinality(Blocks(rest))
    BY <1>5
  <2>2. PICK m \in Nat : m = GetPieceLength(p)
    BY <1>5
  <2>3. c.max = c.left + (n + m)
    BY <1>5, <1>6, <2>1, <2>2, LengthFacts
  <2>4. Cardinality(Blocks(CachePieces(d))) = n /\ d.left = c.left + m
    BY <1>4, <1>7, <1>8, <2>1, <2>2
  <2>5. QED
    BY <1>1, <1>7, <2>3, <2>4
<1>10. CacheOK(d)
  BY <1>1, <1>3, <1>7, <1>9 DEF CacheOK, Row
<1>11. ASSUME NEW q \in CachePieces(c) \ {p} PROVE DataOf(d, q) = DataOf(c, q)
  <2>1. \A k \in DOMAIN d.caches : \E j \in DOMAIN c.caches : d.caches[k] = c.caches[j]
    BY <1>3, <1>7
  <2>2. QED
    BY <1>1, <1>3, <1>7, <1>8, <1>11, <2>1, SameData
<1>12. QED
  BY <1>7, <1>8, <1>10, <1>11

\* An empty cache of the size asked for, or of the smallest.
LEMMA NewCacheFacts ==
    ASSUME NEW size \in Nat, NEW d, d = Cache(size)
    PROVE  CacheOK(d) /\ d.max >= size /\ CachePieces(d) = {} /\ d.caches = <<>>
<1>1. PICK max \in Nat : max = IF size < MinCacheSize THEN MinCacheSize ELSE size
  BY StorageAssumption
<1>2. d = [max |-> max, left |-> max, caches |-> <<>>]
  BY <1>1, Zenon DEF Cache
<1>3. CachePieces(d) = {}
  BY <1>2 DEF CachePieces
<1>4. Blocks({}) = {} /\ Cardinality({}) = 0
  BY FS_EmptySet DEF Blocks
<1>5. <<>> \in Seq(Entry) /\ Row(<<>>)
  BY DEF Row
<1>6. max >= size
  BY <1>1, StorageAssumption
<1>7. d.max = d.left + Cardinality(Blocks(CachePieces(d)))
  <2>1. Cardinality(Blocks(CachePieces(d))) = 0
    BY <1>3, <1>4
  <2>2. d.max = max /\ d.left = max
    BY <1>2
  <2>3. QED
    BY <2>1, <2>2
<1>8. QED
  BY <1>2, <1>3, <1>5, <1>6, <1>7 DEF CacheOK

\* The piece to drop is in the cache.
LEMMA LFUFacts ==
    ASSUME NEW c, CacheOK(c)
    PROVE  /\ c.caches # <<>> => GetLFUCache(c) \in CachePieces(c)
           /\ \A p \in Piece : c.left < GetPieceLength(p) /\ c.max >= PieceLength
                 => c.caches # <<>>
<1>1. Row(c.caches) /\ c.caches \in Seq(Entry)
  BY DEF CacheOK, Row
<1>2. ASSUME c.caches # <<>> PROVE GetLFUCache(c) \in CachePieces(c)
  <2>1. 1 \in DOMAIN c.caches /\ Head(c.caches) = c.caches[1]
    BY <1>1, <1>2
  <2>2. QED
    BY <2>1 DEF GetLFUCache, CachePieces
<1>3. ASSUME NEW p \in Piece, c.left < GetPieceLength(p), c.max >= PieceLength
      PROVE  c.caches # <<>>
  <2>1. SUFFICES ASSUME c.caches = <<>> PROVE FALSE
    OBVIOUS
  <2>2. CachePieces(c) = {}
    BY <2>1 DEF CachePieces
  <2>3. Cardinality(Blocks(CachePieces(c))) = 0
    BY <2>2, FS_EmptySet DEF Blocks
  <2>4. c.max = c.left
    BY <2>3, LengthFacts
  <2>5. GetPieceLength(p) \in 1..PieceLength /\ PieceLength \in Nat
    BY PieceFacts, StorageAssumption
  <2>6. QED
    BY <1>3, <2>4, <2>5, LengthFacts
<1>4. QED
  BY <1>2, <1>3

(***************************************************************************)
(* The inductive invariant.                                                *)
(***************************************************************************)

\* What the task sees of a piece.
View(p) ==
    IF p \in CachePieces(write_cache) THEN DataOf(write_cache, p) ELSE read_data_from_disk(p)

Flushing(p) == [op |-> "flush", piece |-> p]

FilesOK ==
    /\ disk \in [0..TotalSize - 1 -> Data]
    /\ is_open \in BOOLEAN
    /\ bitfield \in SUBSET Piece
    /\ DOMAIN received = Piece /\ \A p \in Piece : received[p] \subseteq Slice[p]

CachesOK ==
    /\ CacheOK(write_cache) /\ CacheOK(read_cache)
    /\ IF is_open THEN write_cache.max >= PieceLength /\ read_cache.max >= PieceLength
       ELSE CachePieces(write_cache) = {} /\ CachePieces(read_cache) = {}

CallOK ==
    \/ call = Idle
    \/ /\ is_open
       /\ \/ \E p \in Piece \ bitfield : \E s \in Slice[p], value \in Data :
                call = [op |-> "write", piece |-> p, slice |-> s, value |-> value]
          \/ \E p \in Piece \ bitfield : call = [op |-> "check", piece |-> p]
          \/ \E p \in bitfield : call = Flushing(p)
          \/ \E size \in CacheSizes : call = [op |-> "resize", size |-> size]
          \/ \E p \in bitfield : \E s \in Slice[p] :
                call = [op |-> "read", piece |-> p, slice |-> s]

\* A piece is being flushed out of the write cache: what is written is equal.
InFlush(p, files) ==
    /\ flushing = [op |-> "flush", piece |-> p, files |-> files]
    /\ \A b \in Block[p] : FileOf[p * PieceLength + b + 1] \in files
                              \/ disk[p * PieceLength + b] = DataOf(write_cache, p)[b]

FlushOK ==
    \/ flushing = NoFlush
    \/ /\ is_open /\ call.op \in {"write", "flush", "resize"}
       /\ \E p \in CachePieces(write_cache) :
             \E files \in SUBSET get_files_by_piece(p) : InFlush(p, files)

\* A complete piece is good, and it is in the write cache only while it is
\* flushed from there; the read cache has copies of what is on the disk.
CopiesOK ==
    /\ \A p \in bitfield : IsGood(View(p))
    /\ \A p \in bitfield : p \in CachePieces(write_cache) => call = Flushing(p)
    /\ \A p \in CachePieces(read_cache) :
          /\ p \in bitfield /\ p \notin CachePieces(write_cache)
          /\ DataOf(read_cache, p) = read_data_from_disk(p)

Inv == FilesOK /\ CachesOK /\ CallOK /\ FlushOK /\ CopiesOK

LEMMA CallFacts ==
    ASSUME Inv
    PROVE  /\ ~is_open => call = Idle /\ flushing = NoFlush
           /\ call.op = "none" => call = Idle
           /\ call.op = "write" =>
                 /\ is_open /\ call.piece \in Piece \ bitfield
                 /\ call.slice \in Slice[call.piece] /\ call.value \in Data
           /\ call.op = "check" => is_open /\ call.piece \in Piece \ bitfield
           /\ call.op = "flush" => is_open /\ call.piece \in bitfield
           /\ call.op = "resize" => is_open /\ call.size \in CacheSizes
           /\ call.op = "read" =>
                 is_open /\ call.piece \in bitfield /\ call.slice \in Slice[call.piece]
<1>1. CallOK /\ FlushOK
  BY DEF Inv
<1>2. ~is_open => call = Idle /\ flushing = NoFlush
  BY <1>1 DEF CallOK, FlushOK
<1>3. CASE call = Idle
  BY <1>2, <1>3 DEF Idle
<1>4. ASSUME NEW p \in Piece \ bitfield, NEW s \in Slice[p], NEW value \in Data, is_open,
             call = [op |-> "write", piece |-> p, slice |-> s, value |-> value]
      PROVE  /\ call.op = "write" /\ call.piece \in Piece \ bitfield
             /\ call.slice \in Slice[call.piece] /\ call.value \in Data
  BY <1>4
<1>5. ASSUME NEW p \in Piece \ bitfield, is_open, call = [op |-> "check", piece |-> p]
      PROVE  call.op = "check" /\ call.piece \in Piece \ bitfield
  BY <1>5
<1>6. ASSUME NEW p \in bitfield, is_open, call = Flushing(p)
      PROVE  call.op = "flush" /\ call.piece \in bitfield
  BY <1>6 DEF Flushing
<1>7. ASSUME NEW size \in CacheSizes, is_open, call = [op |-> "resize", size |-> size]
      PROVE  call.op = "resize" /\ call.size \in CacheSizes
  BY <1>7
<1>8. ASSUME NEW p \in bitfield, NEW s \in Slice[p], is_open,
             call = [op |-> "read", piece |-> p, slice |-> s]
      PROVE  call.op = "read" /\ call.piece \in bitfield /\ call.slice \in Slice[call.piece]
  BY <1>8
<1>9. CASE is_open /\ call # Idle
  <2>1. \/ \E p \in Piece \ bitfield : \E s \in Slice[p], value \in Data :
              call = [op |-> "write", piece |-> p, slice |-> s, value |-> value]
        \/ \E p \in Piece \ bitfield : call = [op |-> "check", piece |-> p]
        \/ \E p \in bitfield : call = Flushing(p)
        \/ \E size \in CacheSizes : call = [op |-> "resize", size |-> size]
        \/ \E p \in bitfield : \E s \in Slice[p] :
              call = [op |-> "read", piece |-> p, slice |-> s]
    BY <1>1, <1>9, Zenon DEF CallOK
  <2>2. \/ /\ call.op = "write" /\ call.piece \in Piece \ bitfield
           /\ call.slice \in Slice[call.piece] /\ call.value \in Data
        \/ call.op = "check" /\ call.piece \in Piece \ bitfield
        \/ call.op = "flush" /\ call.piece \in bitfield
        \/ call.op = "resize" /\ call.size \in CacheSizes
        \/ call.op = "read" /\ call.piece \in bitfield /\ call.slice \in Slice[call.piece]
    BY <1>4, <1>5, <1>6, <1>7, <1>8, <1>9, <2>1, Zenon
  <2>3. QED
    BY <1>9, <2>2
<1>10. QED
  BY <1>2, <1>3, <1>9

LEMMA ReadFacts ==
    ASSUME FilesOK, NEW p \in Piece
    PROVE  /\ read_data_from_disk(p) \in [Block[p] -> Data]
           /\ \A b \in Block[p] : read_data_from_disk(p)[b] = disk[p * PieceLength + b]
<1>1. \A b \in Block[p] : p * PieceLength + b \in 0..TotalSize - 1
  BY PieceFacts
<1>2. disk \in [0..TotalSize - 1 -> Data]
  BY DEF FilesOK
<1>3. \A b \in Block[p] : disk[p * PieceLength + b] \in Data
  BY <1>1, <1>2
<1>4. QED
  BY <1>3 DEF read_data_from_disk

LEMMA ViewFacts ==
    ASSUME Inv, NEW p \in Piece
    PROVE  View(p) \in [Block[p] -> Data]
<1>1. Row(write_cache.caches) /\ FilesOK
  BY LengthFacts DEF Inv, CachesOK
<1>2. QED
  BY <1>1, CachedFacts, ReadFacts DEF View

\* Without a cached copy of it a complete piece is good on the disk.
LEMMA OwnedFacts ==
    ASSUME Inv, NEW p \in bitfield, call # Flushing(p)
    PROVE  /\ p \in Piece /\ p \notin CachePieces(write_cache)
           /\ View(p) = read_data_from_disk(p) /\ IsGood(read_data_from_disk(p))
BY DEF Inv, FilesOK, CopiesOK, View

LEMMA NewCachesFacts ==
    ASSUME NEW size \in Nat, NewCaches(size)
    PROVE  /\ CacheOK(write_cache') /\ CacheOK(read_cache')
           /\ write_cache'.max >= PieceLength /\ read_cache'.max >= PieceLength
           /\ CachePieces(write_cache') = {} /\ CachePieces(read_cache') = {}
<1>1. PieceLength \in Nat \ {0}
  BY StorageAssumption
<1>2. PICK r \in Int : r = Rounded(size)
  BY <1>1 DEF Rounded
<1>3. PICK all \in Nat : all = (IF r < PieceLength * 3 THEN PieceLength * 3 ELSE r)
  BY <1>1, <1>2
<1>4. all >= PieceLength * 3
  BY <1>1, <1>2, <1>3
<1>5. PICK third \in Nat : third = all \div 3
  BY <1>3
<1>6. third >= PieceLength /\ third * 2 >= PieceLength /\ third * 2 \in Nat
  BY <1>1, <1>3, <1>4, <1>5
<1>7. write_cache' = Cache(third) /\ read_cache' = Cache(third * 2)
  BY <1>2, <1>3, <1>5 DEF NewCaches
<1>8. PICK w, r2 : w = Cache(third) /\ r2 = Cache(third * 2)
  OBVIOUS
<1>9. /\ CacheOK(w) /\ w.max >= third /\ CachePieces(w) = {}
      /\ CacheOK(r2) /\ r2.max >= third * 2 /\ CachePieces(r2) = {}
  BY <1>6, <1>8, NewCacheFacts
<1>10. w.max \in Nat /\ r2.max \in Nat
  BY <1>9, LengthFacts
<1>11. w.max >= PieceLength /\ r2.max >= PieceLength
  BY <1>1, <1>5, <1>6, <1>9, <1>10
<1>12. QED
  BY <1>7, <1>8, <1>9, <1>11

LEMMA BeginFlushFacts ==
    ASSUME Inv, NEW p \in CachePieces(write_cache), BeginFlush(p), UNCHANGED disk
    PROVE  /\ CacheOK(write_cache') /\ write_cache'.max = write_cache.max
           /\ CachePieces(write_cache') = CachePieces(write_cache)
           /\ \A q \in CachePieces(write_cache) : DataOf(write_cache', q) = DataOf(write_cache, q)
           /\ \E files \in SUBSET get_files_by_piece(p) : InFlush(p, files)'
<1>1. CacheOK(write_cache) /\ Row(write_cache.caches)
  BY LengthFacts DEF Inv, CachesOK
<1>2. PICK data : data = DataOf(write_cache, p)
  OBVIOUS
<1>3. data \in [Block[p] -> Data]
  BY <1>1, <1>2, CachedFacts
<1>4. PICK new : new = GetCache(write_cache, p, data)
  OBVIOUS
<1>5. /\ CacheOK(new) /\ new.max = write_cache.max
      /\ CachePieces(new) = CachePieces(write_cache)
      /\ DataOf(new, p) = data
      /\ \A q \in CachePieces(write_cache) \ {p} : DataOf(new, q) = DataOf(write_cache, q)
  BY <1>1, <1>3, <1>4, GetCacheFacts
<1>6. write_cache' = new
  BY <1>2, <1>4 DEF BeginFlush
<1>7. InFlush(p, get_files_by_piece(p))'
  <2>1. flushing' = [op |-> "flush", piece |-> p, files |-> get_files_by_piece(p)]
    BY DEF BeginFlush
  <2>2. \A b \in Block[p] : FileOf[p * PieceLength + b + 1] \in get_files_by_piece(p)
    BY DEF get_files_by_piece
  <2>3. QED
    BY <2>1, <2>2 DEF InFlush
<1>8. QED
  BY <1>2, <1>5, <1>6, <1>7

(***************************************************************************)
(* Each action keeps the invariant.                                        *)
(***************************************************************************)

LEMMA EmptyCopies ==
    ASSUME FilesOK, bitfield' \in SUBSET Piece,
           CachePieces(write_cache') = {}, CachePieces(read_cache') = {},
           UNCHANGED disk,
           \A p \in bitfield' : IsGood(read_data_from_disk(p))
    PROVE  CopiesOK'
<1>1. \A p \in Piece : View(p)' = read_data_from_disk(p)
  BY DEF View, read_data_from_disk
<1>2. QED
  BY <1>1 DEF CopiesOK

LEMMA EndInv ==
    ASSUME Inv, End
    PROVE  Inv'
<1>1. FilesOK'
  BY DEF End, Inv, FilesOK
<1>2. PICK new : new = Cache(0)
  OBVIOUS
<1>3. CacheOK(new) /\ CachePieces(new) = {}
  BY <1>2, NewCacheFacts
<1>4. write_cache' = new /\ read_cache' = new /\ is_open' = FALSE
  BY <1>2 DEF End
<1>5. CachesOK'
  BY <1>3, <1>4 DEF CachesOK
<1>6. CallOK' /\ FlushOK'
  BY DEF End, CallOK, FlushOK, Idle, NoFlush
<1>7. \A p \in bitfield' : IsGood(read_data_from_disk(p))
  <2> SUFFICES ASSUME NEW p \in bitfield' PROVE IsGood(read_data_from_disk(p))
    OBVIOUS
  <2>1. p \in bitfield /\ (call.op = "flush" => p # call.piece)
    BY DEF End
  <2>2. call # Flushing(p)
    BY <2>1 DEF Flushing
  <2>3. QED
    BY <2>1, <2>2, OwnedFacts
<1>8. CopiesOK'
  <2>1. UNCHANGED disk /\ bitfield' \in SUBSET Piece
    BY <1>1 DEF End, FilesOK
  <2>2. QED
    BY <1>3, <1>4, <1>7, <2>1, EmptyCopies DEF Inv
<1>9. QED
  BY <1>1, <1>5, <1>6, <1>8 DEF Inv

LEMMA OpenInv ==
    ASSUME Inv, NEW size \in CacheSizes, Open(size)
    PROVE  Inv'
<1>1. call = Idle /\ flushing = NoFlush /\ is_open' = TRUE
  BY CallFacts DEF Open
<1>2. FilesOK' /\ CallOK' /\ FlushOK'
  BY <1>1 DEF Open, Inv, FilesOK, CallOK, FlushOK
<1>3. size \in Nat /\ NewCaches(size)
  BY StorageAssumption DEF Open
<1>4. /\ CacheOK(write_cache') /\ CacheOK(read_cache')
      /\ write_cache'.max >= PieceLength /\ read_cache'.max >= PieceLength
      /\ CachePieces(write_cache') = {} /\ CachePieces(read_cache') = {}
  BY <1>3, NewCachesFacts
<1>5. CachesOK'
  BY <1>1, <1>4 DEF CachesOK
<1>6. UNCHANGED <<disk, bitfield>>
  BY DEF Open
<1>7. \A p \in bitfield : IsGood(read_data_from_disk(p))
  BY <1>1, OwnedFacts DEF Flushing, Idle
<1>8. CopiesOK'
  BY <1>2, <1>4, <1>6, <1>7, EmptyCopies DEF Inv, FilesOK
<1>9. QED
  BY <1>2, <1>5, <1>8 DEF Inv

LEMMA HashPieceInv ==
    ASSUME Inv, NEW p \in Piece, HashPiece(p)
    PROVE  Inv'
<1>1. call = Idle /\ flushing = NoFlush /\ ~is_open
  BY CallFacts DEF HashPiece
<1>2. UNCHANGED <<disk, write_cache, read_cache, is_open, call, flushing, received>>
  BY DEF HashPiece, caches
<1>3. bitfield' = IF IsGood(read_data_from_disk(p)) THEN bitfield \cup {p} ELSE bitfield \ {p}
  BY DEF HashPiece
<1>4. FilesOK' /\ CallOK' /\ FlushOK'
  BY <1>1, <1>2, <1>3 DEF Inv, FilesOK, CallOK, FlushOK
<1>5. CachesOK' /\ CachePieces(write_cache') = {} /\ CachePieces(read_cache') = {}
  BY <1>1, <1>2 DEF Inv, CachesOK
<1>6. \A q \in bitfield : IsGood(read_data_from_disk(q))
  BY <1>1, OwnedFacts DEF Flushing, Idle
<1>7. \A q \in bitfield' : IsGood(read_data_from_disk(q))
  BY <1>3, <1>6
<1>8. CopiesOK'
  BY <1>2, <1>4, <1>5, <1>7, EmptyCopies DEF Inv, FilesOK
<1>9. QED
  BY <1>4, <1>5, <1>8 DEF Inv

\* A file of a piece is written: nothing else on the disk changes.
LEMMA WriteFacts ==
    ASSUME FilesOK, NEW q \in Piece, NEW data \in [Block[q] -> Data], NEW f,
           disk' = WritePart(f, q, data)
    PROVE  /\ disk' \in [0..TotalSize - 1 -> Data]
           /\ \A p \in Piece : p # q => read_data_from_disk(p)' = read_data_from_disk(p)
           /\ \A b \in Block[q] : disk'[q * PieceLength + b] =
                 IF FileOf[q * PieceLength + b + 1] = f THEN data[b]
                 ELSE disk[q * PieceLength + b]
<1>1. TotalSize \in Nat /\ PieceLength \in Nat
  BY StorageAssumption
<1>2. disk \in [0..TotalSize - 1 -> Data]
  BY DEF FilesOK
<1>3. /\ DOMAIN disk' = 0..TotalSize - 1
      /\ \A n \in 0..TotalSize - 1 : disk'[n] =
            IF n - q * PieceLength \in Block[q] /\ FileOf[n + 1] = f
            THEN data[n - q * PieceLength] ELSE disk[n]
  BY <1>2 DEF WritePart
<1>4. disk' \in [0..TotalSize - 1 -> Data]
  <2>1. disk' = [n \in 0..TotalSize - 1 |-> disk'[n]]
    BY <1>2 DEF WritePart
  <2>2. \A n \in 0..TotalSize - 1 : disk'[n] \in Data
    BY <1>2, <1>3
  <2>3. QED
    BY <2>1, <2>2
<1>5. ASSUME NEW p \in Piece, p # q
      PROVE  read_data_from_disk(p)' = read_data_from_disk(p)
  <2>1. \A b \in Block[p] : disk'[p * PieceLength + b] = disk[p * PieceLength + b]
    <3> SUFFICES ASSUME NEW b \in Block[p]
                 PROVE  disk'[p * PieceLength + b] = disk[p * PieceLength + b]
      OBVIOUS
    <3>1. p * PieceLength + b \in 0..TotalSize - 1
      BY PieceFacts
    <3>2. p * PieceLength + b - q * PieceLength \notin Block[q]
      BY <1>5, PiecesApart
    <3>3. PICK n \in 0..TotalSize - 1 : n = p * PieceLength + b
      BY <3>1
    <3>4. n - q * PieceLength \notin Block[q]
      <4>1. p \in Nat /\ q \in Nat /\ b \in 0..GetPieceLength(p) - 1
        BY PieceFacts
      <4>2. b \in Int
        BY <4>1
      <4>3. n - q * PieceLength = p * PieceLength + b - q * PieceLength
        BY <1>1, <3>3, <4>1, <4>2
      <4>4. QED
        BY <3>2, <4>3, Zenon
    <3>5. disk'[n] = disk[n]
      BY <1>3, <3>4
    <3>6. QED
      BY <3>3, <3>5
  <2>2. QED
    BY <2>1 DEF read_data_from_disk
<1>6. ASSUME NEW b \in Block[q]
      PROVE  disk'[q * PieceLength + b] =
                 IF FileOf[q * PieceLength + b + 1] = f THEN data[b]
                 ELSE disk[q * PieceLength + b]
  <2>1. q * PieceLength + b \in 0..TotalSize - 1
    BY PieceFacts
  <2>2. b \in Int /\ q \in Nat
    <3>1. q \in Nat /\ b \in 0..GetPieceLength(q) - 1
      BY PieceFacts
    <3>2. QED
      BY <3>1
  <2>3. q * PieceLength + b - q * PieceLength = b
    BY <1>1, <2>2
  <2>4. PICK n \in 0..TotalSize - 1 : n = q * PieceLength + b
    BY <2>1
  <2>5. n - q * PieceLength = b
    BY <1>1, <2>2, <2>4
  <2>6. disk'[n] = IF FileOf[n + 1] = f THEN data[b] ELSE disk[n]
    BY <1>3, <2>5
  <2>7. QED
    BY <2>4, <2>6
<1>7. QED
  BY <1>4, <1>5, <1>6

\* What FlushPart works on.
LEMMA FlushingFacts ==
    ASSUME Inv, flushing # NoFlush
    PROVE  /\ is_open /\ call.op \in {"write", "flush", "resize"}
           /\ flushing.piece \in Piece /\ flushing.piece \in CachePieces(write_cache)
           /\ DataOf(write_cache, flushing.piece) \in [Block[flushing.piece] -> Data]
           /\ InFlush(flushing.piece, flushing.files)
           /\ flushing.files \in SUBSET get_files_by_piece(flushing.piece)
<1>1. PICK p \in CachePieces(write_cache) :
          \E files \in SUBSET get_files_by_piece(p) : InFlush(p, files)
  BY DEF Inv, FlushOK
<1>2. PICK files \in SUBSET get_files_by_piece(p) : InFlush(p, files)
  BY <1>1
<1>3. flushing.piece = p /\ flushing.files = files
  BY <1>2 DEF InFlush
<1>4. is_open /\ call.op \in {"write", "flush", "resize"}
  BY DEF Inv, FlushOK
<1>5. Row(write_cache.caches)
  BY LengthFacts DEF Inv, CachesOK
<1>6. p \in Piece /\ DataOf(write_cache, p) \in [Block[p] -> Data]
  BY <1>5, CachedFacts
<1>7. QED
  BY <1>2, <1>3, <1>4, <1>6

LEMMA FlushPartInv ==
    ASSUME Inv, FlushPart
    PROVE  Inv' /\ \A p \in Piece : View(p)' = View(p)
<1> DEFINE q == flushing.piece
           data == DataOf(write_cache, flushing.piece)
<1>1. PICK f \in flushing.files :
          /\ disk' = WritePart(f, flushing.piece, DataOf(write_cache, flushing.piece))
          /\ flushing' = [flushing EXCEPT !.files = @ \ {f}]
  BY DEF FlushPart
<1>2. flushing # NoFlush
      /\ UNCHANGED <<write_cache, read_cache, is_open, call, bitfield, received>>
  BY DEF FlushPart, caches
<1>3. /\ is_open /\ call.op \in {"write", "flush", "resize"}
      /\ q \in Piece /\ q \in CachePieces(write_cache)
      /\ data \in [Block[q] -> Data]
      /\ InFlush(q, flushing.files)
      /\ flushing.files \in SUBSET get_files_by_piece(q)
  BY <1>2, FlushingFacts
<1>4. /\ disk' \in [0..TotalSize - 1 -> Data]
      /\ \A p \in Piece : p # q => read_data_from_disk(p)' = read_data_from_disk(p)
      /\ \A b \in Block[q] : disk'[q * PieceLength + b] =
            IF FileOf[q * PieceLength + b + 1] = f THEN data[b]
            ELSE disk[q * PieceLength + b]
  BY <1>1, <1>3, WriteFacts DEF Inv
<1>5. FilesOK' /\ CachesOK' /\ CallOK'
  BY <1>2, <1>4 DEF Inv, FilesOK, CachesOK, CallOK
<1>6. FlushOK'
  <2>1. flushing' = [op |-> "flush", piece |-> q, files |-> flushing.files \ {f}]
    BY <1>1, <1>3 DEF InFlush
  <2>2. \A b \in Block[q] : FileOf[q * PieceLength + b + 1] \in flushing.files \ {f}
                               \/ disk'[q * PieceLength + b] = data[b]
    BY <1>3, <1>4 DEF InFlush
  <2>3. PICK files \in SUBSET get_files_by_piece(q) : files = flushing.files \ {f}
    BY <1>3
  <2>4. PICK p \in CachePieces(write_cache) : p = q
    BY <1>3
  <2>5. InFlush(p, files)'
    BY <1>2, <2>1, <2>2, <2>3, <2>4 DEF InFlush
  <2>6. QED
    BY <1>2, <1>3, <2>3, <2>4, <2>5 DEF FlushOK
<1>7. \A p \in Piece : View(p)' = View(p)
  BY <1>2, <1>3, <1>4 DEF View
<1>8. CopiesOK'
  <2>2. bitfield \in SUBSET Piece
    BY DEF Inv, FilesOK
  <2>3. ASSUME NEW p \in CachePieces(read_cache)
        PROVE  /\ p \in bitfield /\ p \notin CachePieces(write_cache)
               /\ DataOf(read_cache, p) = read_data_from_disk(p)'
    <3>1. /\ p \in bitfield /\ p \notin CachePieces(write_cache)
          /\ DataOf(read_cache, p) = read_data_from_disk(p)
      BY DEF Inv, CopiesOK
    <3>2. QED
      BY <1>3, <1>4, <2>2, <3>1
  <2>4. QED
    BY <1>2, <1>7, <2>2, <2>3 DEF Inv, CopiesOK, Flushing
<1>9. QED
  BY <1>5, <1>6, <1>7, <1>8 DEF Inv

LEMMA FlushEndInv ==
    ASSUME Inv, FlushEnd
    PROVE  Inv' /\ \A p \in Piece : View(p)' = View(p)
<1> DEFINE q == flushing.piece
<1>1. /\ flushing # NoFlush /\ flushing.files = {} /\ flushing' = NoFlush
      /\ write_cache' = RemoveCache(write_cache, flushing.piece)
      /\ UNCHANGED <<disk, read_cache, is_open, call, bitfield, received>>
  BY DEF FlushEnd
<1>2. /\ q \in Piece /\ q \in CachePieces(write_cache)
      /\ DataOf(write_cache, q) \in [Block[q] -> Data]
      /\ InFlush(q, {})
  BY <1>1, FlushingFacts
<1>3. PICK new : new = RemoveCache(write_cache, q)
  OBVIOUS
<1>4. CacheOK(write_cache) /\ FilesOK
  BY DEF Inv, CachesOK
<1>5. /\ CacheOK(new) /\ new.max = write_cache.max
      /\ CachePieces(new) = CachePieces(write_cache) \ {q}
      /\ \A p \in CachePieces(write_cache) \ {q} : DataOf(new, p) = DataOf(write_cache, p)
  BY <1>2, <1>3, <1>4, RemoveFacts
<1>6. write_cache' = new
  BY <1>1, <1>3
<1>7. read_data_from_disk(q) = DataOf(write_cache, q)
  <2>1. \A b \in Block[q] : disk[q * PieceLength + b] = DataOf(write_cache, q)[b]
    BY <1>2 DEF InFlush
  <2>2. /\ read_data_from_disk(q) \in [Block[q] -> Data]
        /\ \A b \in Block[q] : read_data_from_disk(q)[b] = disk[q * PieceLength + b]
    BY <1>2, <1>4, ReadFacts
  <2>3. QED
    BY <1>2, <2>1, <2>2
<1>8. \A p \in Piece : View(p)' = View(p)
  <2>1. \A p \in Piece : read_data_from_disk(p)' = read_data_from_disk(p)
    BY <1>1 DEF read_data_from_disk
  <2>2. QED
    BY <1>5, <1>6, <1>7, <2>1 DEF View
<1>9. FilesOK' /\ CallOK' /\ FlushOK'
  BY <1>1 DEF Inv, FilesOK, CallOK, FlushOK
<1>10. CachesOK'
  BY <1>1, <1>5, <1>6 DEF Inv, CachesOK
<1>11. CopiesOK'
  <2>1. \A p \in Piece : read_data_from_disk(p)' = read_data_from_disk(p)
    BY <1>1 DEF read_data_from_disk
  <2>2. bitfield \in SUBSET Piece
    BY DEF Inv, FilesOK
  <2>3. QED
    BY <1>1, <1>5, <1>6, <1>8, <2>1, <2>2 DEF Inv, CopiesOK, Flushing
<1>12. QED
  BY <1>8, <1>9, <1>10, <1>11 DEF Inv

LEMMA BeginFlushInv ==
    ASSUME Inv, NEW p \in CachePieces(write_cache), BeginFlush(p),
           is_open, call.op \in {"write", "flush", "resize"},
           UNCHANGED <<disk, read_cache, is_open, call, bitfield, received>>
    PROVE  Inv' /\ \A q \in Piece : View(q)' = View(q)
<1>1. /\ CacheOK(write_cache') /\ write_cache'.max = write_cache.max
      /\ CachePieces(write_cache') = CachePieces(write_cache)
      /\ \A q \in CachePieces(write_cache) : DataOf(write_cache', q) = DataOf(write_cache, q)
      /\ \E files \in SUBSET get_files_by_piece(p) : InFlush(p, files)'
  BY BeginFlushFacts
<1>2. PICK new : new = write_cache'
  OBVIOUS
<1>3. \A q \in Piece : read_data_from_disk(q)' = read_data_from_disk(q)
  BY DEF read_data_from_disk
<1>4. \A q \in Piece : View(q)' = View(q)
  BY <1>1, <1>3 DEF View
<1>5. FilesOK' /\ CallOK'
  BY DEF Inv, FilesOK, CallOK
<1>6. CachesOK'
  BY <1>1 DEF Inv, CachesOK
<1>7. FlushOK'
  BY <1>1 DEF FlushOK
<1>8. CopiesOK'
  <2>1. bitfield \in SUBSET Piece
    BY DEF Inv, FilesOK
  <2>2. QED
    BY <1>1, <1>3, <1>4, <2>1 DEF Inv, CopiesOK, Flushing
<1>9. QED
  BY <1>4, <1>5, <1>6, <1>7, <1>8 DEF Inv

LEMMA DropForWriteInv ==
    ASSUME Inv, DropForWrite
    PROVE  Inv' /\ \A q \in Piece : View(q)' = View(q)
<1>1. /\ call.op = "write" /\ write_cache.left < GetPieceLength(call.piece)
      /\ BeginFlush(GetLFUCache(write_cache))
      /\ UNCHANGED <<disk, read_cache, is_open, call, bitfield, received>>
  BY DEF DropForWrite
<1>2. is_open /\ call.piece \in Piece
  BY <1>1, CallFacts
<1>3. CacheOK(write_cache) /\ write_cache.max >= PieceLength
  BY <1>2 DEF Inv, CachesOK
<1>4. GetLFUCache(write_cache) \in CachePieces(write_cache)
  BY <1>1, <1>2, <1>3, LFUFacts
<1>5. QED
  BY <1>1, <1>2, <1>4, BeginFlushInv

LEMMA FlushForResizeInv ==
    ASSUME Inv, FlushForResize
    PROVE  Inv' /\ \A q \in Piece : View(q)' = View(q)
<1>1. /\ call.op = "resize" /\ write_cache.caches # <<>>
      /\ BeginFlush(GetLFUCache(write_cache))
      /\ UNCHANGED <<disk, read_cache, is_open, call, bitfield, received>>
  BY DEF FlushForResize
<1>2. is_open /\ CacheOK(write_cache)
  BY <1>1, CallFacts DEF Inv, CachesOK
<1>3. GetLFUCache(write_cache) \in CachePieces(write_cache)
  BY <1>1, <1>2, LFUFacts
<1>4. QED
  BY <1>1, <1>2, <1>3, BeginFlushInv

\* When nothing is flushed, no complete piece is in the write cache.
LEMMA QuietFacts ==
    ASSUME Inv, call.op # "flush"
    PROVE  /\ \A p \in bitfield : p \notin CachePieces(write_cache)
           /\ \A p \in bitfield : IsGood(read_data_from_disk(p))
<1>1. \A p \in bitfield : call # Flushing(p)
  BY DEF Flushing
<1>2. QED
  BY <1>1, OwnedFacts

\* Only the call changes.
LEMMA CallChanges ==
    ASSUME Inv, call.op \notin {"write", "flush", "resize"},
           UNCHANGED <<disk, write_cache, read_cache, is_open, flushing, bitfield>>
    PROVE  CachesOK' /\ FlushOK' /\ CopiesOK'
<1>1. flushing = NoFlush
  BY DEF Inv, FlushOK
<1>2. CachesOK' /\ FlushOK'
  BY <1>1 DEF Inv, CachesOK, FlushOK
<1>3. \A p \in bitfield : p \notin CachePieces(write_cache)
  BY QuietFacts
<1>4. \A p \in Piece : View(p)' = View(p) /\ read_data_from_disk(p)' = read_data_from_disk(p)
  BY DEF View, read_data_from_disk
<1>5. bitfield \in SUBSET Piece
  BY DEF Inv, FilesOK
<1>6. CopiesOK'
  BY <1>3, <1>4, <1>5 DEF Inv, CopiesOK
<1>7. QED
  BY <1>2, <1>6

LEMMA SliceCompletedInv ==
    ASSUME Inv, NEW p \in Piece, NEW s \in Slice[p], NEW value \in Data,
           SliceCompleted(p, s, value)
    PROVE  Inv'
<1>1. /\ is_open /\ call = Idle /\ p \notin bitfield
      /\ received' = [received EXCEPT ![p] = @ \cup {s}]
      /\ call' = [op |-> "write", piece |-> p, slice |-> s, value |-> value]
      /\ UNCHANGED <<disk, write_cache, read_cache, is_open, flushing, bitfield>>
  BY DEF SliceCompleted, caches
<1>2. FilesOK'
  BY <1>1 DEF Inv, FilesOK
<1>3. CallOK'
  BY <1>1 DEF CallOK
<1>4. CachesOK' /\ FlushOK' /\ CopiesOK'
  BY <1>1, CallChanges DEF Idle
<1>5. QED
  BY <1>2, <1>3, <1>4 DEF Inv

LEMMA NotCompleteInv ==
    ASSUME Inv, NotComplete
    PROVE  Inv'
<1>1. /\ call.op = "check" /\ call' = Idle
      /\ UNCHANGED <<disk, write_cache, read_cache, is_open, flushing, bitfield, received>>
  BY DEF NotComplete, caches
<1>2. FilesOK' /\ CallOK'
  BY <1>1 DEF Inv, FilesOK, CallOK
<1>3. CachesOK' /\ FlushOK' /\ CopiesOK'
  BY <1>1, CallChanges
<1>4. QED
  BY <1>2, <1>3 DEF Inv

LEMMA SetCacheSizeInv ==
    ASSUME Inv, NEW size \in CacheSizes, SetCacheSize(size)
    PROVE  Inv'
<1>1. /\ is_open /\ call = Idle /\ call' = [op |-> "resize", size |-> size]
      /\ UNCHANGED <<disk, write_cache, read_cache, is_open, flushing, bitfield, received>>
  BY DEF SetCacheSize, caches
<1>2. FilesOK' /\ CallOK'
  BY <1>1 DEF Inv, FilesOK, CallOK
<1>3. CachesOK' /\ FlushOK' /\ CopiesOK'
  BY <1>1, CallChanges DEF Idle
<1>4. QED
  BY <1>2, <1>3 DEF Inv

LEMMA PeerRequestsInv ==
    ASSUME Inv, NEW p \in Piece, NEW s \in Slice[p], PeerRequests(p, s)
    PROVE  Inv'
<1>1. /\ is_open /\ call = Idle /\ p \in bitfield
      /\ call' = [op |-> "read", piece |-> p, slice |-> s]
      /\ UNCHANGED <<disk, write_cache, read_cache, is_open, flushing, bitfield, received>>
  BY DEF PeerRequests, caches
<1>2. FilesOK' /\ CallOK'
  BY <1>1 DEF Inv, FilesOK, CallOK
<1>3. CachesOK' /\ FlushOK' /\ CopiesOK'
  BY <1>1, CallChanges DEF Idle
<1>4. QED
  BY <1>2, <1>3 DEF Inv

LEMMA ResizedInv ==
    ASSUME Inv, Resized
    PROVE  Inv'
<1>1. /\ call.op = "resize" /\ flushing = NoFlush
      /\ NewCaches(call.size) /\ call' = Idle
      /\ UNCHANGED <<disk, is_open, flushing, bitfield, received>>
  BY DEF Resized
<1>2. is_open /\ call.size \in Nat
  BY <1>1, CallFacts, StorageAssumption
<1>3. /\ CacheOK(write_cache') /\ CacheOK(read_cache')
      /\ write_cache'.max >= PieceLength /\ read_cache'.max >= PieceLength
      /\ CachePieces(write_cache') = {} /\ CachePieces(read_cache') = {}
  BY <1>1, <1>2, NewCachesFacts
<1>4. FilesOK' /\ CallOK' /\ FlushOK'
  BY <1>1 DEF Inv, FilesOK, CallOK, FlushOK
<1>5. CachesOK'
  BY <1>1, <1>2, <1>3 DEF CachesOK
<1>6. CopiesOK'
  BY <1>1, <1>3, <1>4, QuietFacts, EmptyCopies DEF Inv, FilesOK
<1>7. QED
  BY <1>4, <1>5, <1>6 DEF Inv

\* A slice is put into the copy of a piece that the write cache will have.
LEMMA WrittenInv ==
    ASSUME Inv, call.op = "write", flushing = NoFlush, NEW new, write_cache' = new,
           CacheOK(new), new.max = write_cache.max,
           CachePieces(new) = CachePieces(write_cache) \cup {call.piece},
           \A q \in CachePieces(write_cache) \ {call.piece} :
               DataOf(new, q) = DataOf(write_cache, q),
           call' = [op |-> "check", piece |-> call.piece],
           UNCHANGED <<disk, read_cache, is_open, flushing, bitfield, received>>
    PROVE  Inv' /\ \A q \in Piece : q # call.piece => View(q)' = View(q)
<1>1. is_open /\ call.piece \in Piece \ bitfield
  BY CallFacts
<1>2. \A q \in Piece : read_data_from_disk(q)' = read_data_from_disk(q)
  BY DEF read_data_from_disk
<1>3. \A q \in Piece : q # call.piece => View(q)' = View(q)
  BY <1>2 DEF View
<1>4. FilesOK' /\ CallOK' /\ FlushOK'
  BY <1>1 DEF Inv, FilesOK, CallOK, FlushOK
<1>5. CachesOK'
  BY <1>1 DEF Inv, CachesOK
<1>6. CopiesOK'
  <2>1. bitfield \in SUBSET Piece /\ \A p \in bitfield : p \notin CachePieces(write_cache)
    BY QuietFacts DEF Inv, FilesOK
  <2>2. QED
    BY <1>1, <1>2, <1>3, <2>1 DEF Inv, CopiesOK
<1>7. QED
  BY <1>3, <1>4, <1>5, <1>6 DEF Inv

\* The slice in its place, nothing else.
LEMMA PatchedFacts ==
    ASSUME Inv, call.op = "write", NEW data \in [Block[call.piece] -> Data]
    PROVE  Patched(data) \in [Block[call.piece] -> Data]
<1>1. call.value \in Data
  BY CallFacts
<1>2. QED
  BY <1>1 DEF Patched

LEMMA WriteHitInv ==
    ASSUME Inv, WriteHit
    PROVE  /\ Inv' /\ \A q \in Piece : q # call.piece => View(q)' = View(q)
           /\ View(call.piece)' = Patched(View(call.piece))
<1>1. /\ call.op = "write" /\ flushing = NoFlush
      /\ call.piece \in CachePieces(write_cache)
      /\ write_cache' =
             GetCache(write_cache, call.piece, Patched(DataOf(write_cache, call.piece)))
      /\ call' = [op |-> "check", piece |-> call.piece]
      /\ UNCHANGED <<disk, read_cache, is_open, flushing, bitfield, received>>
  BY DEF WriteHit, Written, IsExisted
<1>2. PICK data : data = Patched(DataOf(write_cache, call.piece))
  OBVIOUS
<1>3. CacheOK(write_cache) /\ Row(write_cache.caches)
  BY LengthFacts DEF Inv, CachesOK
<1>4. data \in [Block[call.piece] -> Data]
  BY <1>1, <1>2, <1>3, CachedFacts, PatchedFacts
<1>5. PICK p \in CachePieces(write_cache) : p = call.piece
  BY <1>1
<1>6. PICK new : new = GetCache(write_cache, p, data)
  OBVIOUS
<1>7. /\ CacheOK(new) /\ new.max = write_cache.max
      /\ CachePieces(new) = CachePieces(write_cache)
      /\ DataOf(new, p) = data
      /\ \A q \in CachePieces(write_cache) \ {p} : DataOf(new, q) = DataOf(write_cache, q)
  BY <1>3, <1>4, <1>5, <1>6, GetCacheFacts
<1>8. write_cache' = new /\ CachePieces(new) = CachePieces(write_cache) \cup {call.piece}
  BY <1>1, <1>2, <1>5, <1>6, <1>7
<1>9. Inv' /\ \A q \in Piece : q # call.piece => View(q)' = View(q)
  BY <1>1, <1>5, <1>7, <1>8, WrittenInv
<1>10. View(p)' = Patched(View(p))
  <2>1. View(p) = DataOf(write_cache, p)
    BY <1>5 DEF View
  <2>2. View(p)' = data
    BY <1>5, <1>7, <1>8 DEF View
  <2>3. QED
    BY <1>2, <1>5, <2>1, <2>2
<1>11. call.piece' = call.piece
  BY <1>1
<1>12. View(call.piece)' = Patched(View(call.piece))
  BY <1>5, <1>10, <1>11 DEF View
<1>13. QED
  BY <1>9, <1>12

LEMMA WriteMissInv ==
    ASSUME Inv, WriteMiss
    PROVE  /\ Inv' /\ \A q \in Piece : q # call.piece => View(q)' = View(q)
           /\ View(call.piece)' = Patched(View(call.piece))
<1>1. /\ call.op = "write" /\ flushing = NoFlush
      /\ call.piece \notin CachePieces(write_cache)
      /\ write_cache.left >= GetPieceLength(call.piece)
      /\ write_cache' =
             AllocateCache(write_cache, call.piece, Patched(read_data_from_disk(call.piece)))
      /\ call' = [op |-> "check", piece |-> call.piece]
      /\ UNCHANGED <<disk, read_cache, is_open, flushing, bitfield, received>>
  BY DEF WriteMiss, Written, IsExisted
<1>2. PICK data : data = Patched(read_data_from_disk(call.piece))
  OBVIOUS
<1>3. CacheOK(write_cache) /\ Row(write_cache.caches) /\ FilesOK
  BY LengthFacts DEF Inv, CachesOK
<1>4. call.piece \in Piece
  BY <1>1, CallFacts
<1>5. data \in [Block[call.piece] -> Data]
  BY <1>1, <1>2, <1>3, <1>4, ReadFacts, PatchedFacts
<1>6. PICK p \in Piece \ CachePieces(write_cache) : p = call.piece
  BY <1>1, <1>4
<1>7. PICK new : new = AllocateCache(write_cache, p, data)
  OBVIOUS
<1>8. /\ CacheOK(new) /\ new.max = write_cache.max
      /\ CachePieces(new) = CachePieces(write_cache) \cup {p}
      /\ DataOf(new, p) = data
      /\ \A q \in CachePieces(write_cache) : DataOf(new, q) = DataOf(write_cache, q)
  BY <1>1, <1>3, <1>5, <1>6, <1>7, AllocateFacts
<1>9. write_cache' = new
  BY <1>1, <1>2, <1>6, <1>7
<1>10. Inv' /\ \A q \in Piece : q # call.piece => View(q)' = View(q)
  BY <1>1, <1>6, <1>8, <1>9, WrittenInv
<1>11. View(p)' = Patched(View(p))
  <2>1. View(p) = read_data_from_disk(p)
    BY <1>6 DEF View
  <2>2. View(p)' = data
    BY <1>6, <1>8, <1>9 DEF View
  <2>3. QED
    BY <1>2, <1>6, <2>1, <2>2
<1>12. call.piece' = call.piece
  BY <1>1
<1>13. View(call.piece)' = Patched(View(call.piece))
  BY <1>6, <1>11, <1>12 DEF View
<1>14. QED
  BY <1>10, <1>13

\* CheckPiece only makes the piece the most recently used one of its cache.
LEMMA TouchedFacts ==
    ASSUME NEW c, CacheOK(c), NEW p \in Piece, NEW d, d = Touched(c, p)
    PROVE  /\ CacheOK(d) /\ d.max = c.max /\ CachePieces(d) = CachePieces(c)
           /\ \A q \in CachePieces(c) : DataOf(d, q) = DataOf(c, q)
<1>1. CASE p \in CachePieces(c)
  <2>1. PICK data : data = DataOf(c, p)
    OBVIOUS
  <2>2. data \in [Block[p] -> Data]
    BY <1>1, <2>1, CachedFacts, LengthFacts
  <2>3. d = GetCache(c, p, data)
    BY <1>1, <2>1 DEF Touched, IsExisted
  <2>4. /\ CacheOK(d) /\ d.max = c.max /\ CachePieces(d) = CachePieces(c)
        /\ DataOf(d, p) = data
        /\ \A q \in CachePieces(c) \ {p} : DataOf(d, q) = DataOf(c, q)
    BY <1>1, <2>2, <2>3, GetCacheFacts
  <2>5. QED
    BY <2>1, <2>4
<1>2. CASE p \notin CachePieces(c)
  BY <1>2 DEF Touched, IsExisted
<1>3. QED
  BY <1>1, <1>2

LEMMA CheckPieceInv ==
    ASSUME Inv, CheckPiece
    PROVE  /\ Inv' /\ \A q \in Piece : View(q)' = View(q)
           /\ \/ UNCHANGED bitfield
              \/ bitfield' = bitfield \cup {call.piece} /\ IsGood(View(call.piece))
<1>1. call.op = "check" /\ UNCHANGED <<disk, is_open, flushing>>
      /\ received' = [received EXCEPT ![call.piece] = {}]
  BY DEF CheckPiece
<1>2. PICK p \in Piece \ bitfield : p = call.piece
  BY <1>1, CallFacts
<1>3. is_open /\ flushing = NoFlush
  BY <1>1, CallFacts DEF Inv, FlushOK
<1>4. /\ write_cache' = Touched(write_cache, p) /\ read_cache' = Touched(read_cache, p)
      /\ IF IsGood(CheckedCopy(p))
         THEN bitfield' = bitfield \cup {p} /\ call' = Flushing(p)
         ELSE call' = Idle /\ bitfield' = bitfield
  BY <1>2 DEF CheckPiece, Flushing
<1>5. CacheOK(write_cache) /\ CacheOK(read_cache)
  BY DEF Inv, CachesOK
<1>6. PICK w, r : w = Touched(write_cache, p) /\ r = Touched(read_cache, p)
  OBVIOUS
<1>7. /\ CacheOK(w) /\ w.max = write_cache.max /\ CachePieces(w) = CachePieces(write_cache)
      /\ \A q \in CachePieces(write_cache) : DataOf(w, q) = DataOf(write_cache, q)
  BY <1>2, <1>5, <1>6, TouchedFacts
<1>8. /\ CacheOK(r) /\ r.max = read_cache.max /\ CachePieces(r) = CachePieces(read_cache)
      /\ \A q \in CachePieces(read_cache) : DataOf(r, q) = DataOf(read_cache, q)
  BY <1>2, <1>5, <1>6, TouchedFacts
<1>9. write_cache' = w /\ read_cache' = r
  BY <1>4, <1>6
<1>10. \A q \in Piece : read_data_from_disk(q)' = read_data_from_disk(q)
  BY <1>1 DEF read_data_from_disk
<1>11. \A q \in Piece : View(q)' = View(q)
  BY <1>7, <1>9, <1>10 DEF View
<1>12. CheckedCopy(p) = View(p)
  <2>1. p \notin CachePieces(read_cache)
    BY <1>2 DEF Inv, CopiesOK
  <2>2. QED
    BY <2>1 DEF CheckedCopy, View, IsExisted
<1>13. FilesOK'
  BY <1>1, <1>2, <1>4 DEF Inv, FilesOK
<1>14. CachesOK'
  BY <1>1, <1>3, <1>7, <1>8, <1>9 DEF Inv, CachesOK
<1>15. CallOK'
  BY <1>1, <1>2, <1>3, <1>4 DEF CallOK
<1>16. FlushOK'
  BY <1>1, <1>3 DEF FlushOK
<1>17. CopiesOK'
  <2>1. bitfield \in SUBSET Piece /\ \A q \in bitfield : q \notin CachePieces(write_cache)
    BY <1>1, QuietFacts DEF Inv, FilesOK
  <2>2. bitfield \subseteq bitfield'
    BY <1>4
  <2>3. \A q \in bitfield' : IsGood(View(q)')
    BY <1>2, <1>4, <1>11, <1>12, <2>1 DEF Inv, CopiesOK
  <2>4. \A q \in bitfield' : q \in CachePieces(write_cache') => call' = Flushing(q)
    BY <1>4, <1>7, <1>9, <2>1
  <2>5. \A q \in CachePieces(read_cache') :
            /\ q \in bitfield' /\ q \notin CachePieces(write_cache')
            /\ DataOf(read_cache', q) = read_data_from_disk(q)'
    BY <1>7, <1>8, <1>9, <1>10, <2>1, <2>2 DEF Inv, CopiesOK
  <2>6. QED
    BY <2>3, <2>4, <2>5 DEF CopiesOK, Flushing, IsGood
<1>18. UNCHANGED bitfield \/ (bitfield' = bitfield \cup {call.piece} /\ IsGood(View(call.piece)))
  BY <1>2, <1>4, <1>12
<1>19. QED
  BY <1>11, <1>13, <1>14, <1>15, <1>16, <1>17, <1>18 DEF Inv

LEMMA FlushCompletedInv ==
    ASSUME Inv, FlushCompleted
    PROVE  Inv' /\ \A q \in Piece : View(q)' = View(q)
<1>1. /\ call.op = "flush" /\ flushing = NoFlush
      /\ UNCHANGED <<disk, read_cache, is_open, bitfield, received>>
      /\ IF call.piece \in CachePieces(write_cache)
         THEN BeginFlush(call.piece) /\ UNCHANGED call
         ELSE call' = Idle /\ UNCHANGED <<flushing, write_cache>>
  BY DEF FlushCompleted, IsExisted
<1>2. is_open
  BY <1>1, CallFacts
<1>3. CASE call.piece \in CachePieces(write_cache)
  BY <1>1, <1>2, <1>3, BeginFlushInv
<1>4. CASE call.piece \notin CachePieces(write_cache)
  <2>1. /\ call' = Idle
        /\ UNCHANGED <<disk, write_cache, read_cache, is_open, flushing, bitfield, received>>
    BY <1>1, <1>4
  <2>2. FilesOK' /\ CachesOK' /\ CallOK' /\ FlushOK'
    BY <1>1, <2>1 DEF Inv, FilesOK, CachesOK, CallOK, FlushOK
  <2>3. \A q \in Piece : View(q)' = View(q) /\ read_data_from_disk(q)' = read_data_from_disk(q)
    BY <2>1 DEF View, read_data_from_disk
  <2>4. bitfield \in SUBSET Piece
    BY DEF Inv, FilesOK
  <2>5. \A p \in bitfield : p \notin CachePieces(write_cache)
    BY <1>4 DEF Inv, CopiesOK, Flushing
  <2>6. CopiesOK'
    BY <2>1, <2>3, <2>4, <2>5 DEF Inv, CopiesOK
  <2>7. QED
    BY <2>2, <2>3, <2>6 DEF Inv
<1>5. QED
  BY <1>3, <1>4

\* The read cache changes: what it has is complete and on the disk.
LEMMA ReadCacheInv ==
    ASSUME Inv, call.op = "read", NEW new, read_cache' = new, CacheOK(new),
           new.max = read_cache.max, call' = call \/ call' = Idle,
           \A p \in CachePieces(new) : p \in bitfield /\ DataOf(new, p) = read_data_from_disk(p),
           UNCHANGED <<disk, write_cache, is_open, flushing, bitfield, received>>
    PROVE  Inv' /\ \A q \in Piece : View(q)' = View(q)
<1>1. is_open /\ flushing = NoFlush
  BY CallFacts DEF Inv, FlushOK
<1>2. FilesOK' /\ CallOK' /\ FlushOK'
  BY <1>1 DEF Inv, FilesOK, CallOK, FlushOK
<1>3. CachesOK'
  BY <1>1 DEF Inv, CachesOK
<1>4. \A q \in Piece : View(q)' = View(q) /\ read_data_from_disk(q)' = read_data_from_disk(q)
  BY DEF View, read_data_from_disk
<1>5. bitfield \in SUBSET Piece /\ \A q \in bitfield : q \notin CachePieces(write_cache)
  BY QuietFacts DEF Inv, FilesOK
<1>6. CopiesOK'
  BY <1>4, <1>5 DEF Inv, CopiesOK
<1>7. QED
  BY <1>2, <1>3, <1>4, <1>6 DEF Inv

\* What the read cache has now.
LEMMA ReadCacheFacts ==
    ASSUME Inv
    PROVE  /\ CacheOK(read_cache)
           /\ \A p \in CachePieces(read_cache) :
                 p \in bitfield /\ DataOf(read_cache, p) = read_data_from_disk(p)
BY DEF Inv, CachesOK, CopiesOK

LEMMA ReadHitInv ==
    ASSUME Inv, ReadHit
    PROVE  Inv' /\ \A q \in Piece : View(q)' = View(q)
<1>1. /\ call.op = "read" /\ call.piece \in CachePieces(read_cache) /\ call' = Idle
      /\ read_cache' = GetCache(read_cache, call.piece, DataOf(read_cache, call.piece))
      /\ UNCHANGED <<disk, write_cache, is_open, flushing, bitfield, received>>
  BY DEF ReadHit, Answer, IsExisted
<1>2. PICK new : new = Touched(read_cache, call.piece)
  OBVIOUS
<1>3. read_cache' = new
  BY <1>1, <1>2 DEF Touched, IsExisted
<1>4. call.piece \in Piece
  BY <1>1, CallFacts DEF Inv, FilesOK
<1>5. /\ CacheOK(new) /\ new.max = read_cache.max
      /\ CachePieces(new) = CachePieces(read_cache)
      /\ \A q \in CachePieces(read_cache) : DataOf(new, q) = DataOf(read_cache, q)
  BY <1>2, <1>4, ReadCacheFacts, TouchedFacts
<1>6. QED
  BY <1>1, <1>3, <1>5, ReadCacheFacts, ReadCacheInv

LEMMA DropForReadInv ==
    ASSUME Inv, DropForRead
    PROVE  Inv' /\ \A q \in Piece : View(q)' = View(q)
<1>1. /\ call.op = "read" /\ read_cache.left < GetPieceLength(call.piece)
      /\ read_cache' = RemoveCache(read_cache, GetLFUCache(read_cache))
      /\ UNCHANGED <<disk, write_cache, is_open, call, flushing, bitfield, received>>
  BY DEF DropForRead
<1>2. is_open /\ call.piece \in Piece
  BY <1>1, CallFacts DEF Inv, FilesOK
<1>3. CacheOK(read_cache) /\ read_cache.max >= PieceLength
  BY <1>2 DEF Inv, CachesOK
<1>4. PICK p \in CachePieces(read_cache) : p = GetLFUCache(read_cache)
  BY <1>1, <1>2, <1>3, LFUFacts
<1>5. PICK new : new = RemoveCache(read_cache, p)
  OBVIOUS
<1>6. /\ CacheOK(new) /\ new.max = read_cache.max
      /\ CachePieces(new) = CachePieces(read_cache) \ {p}
      /\ \A q \in CachePieces(read_cache) \ {p} : DataOf(new, q) = DataOf(read_cache, q)
  BY <1>3, <1>5, RemoveFacts
<1>7. read_cache' = new
  BY <1>1, <1>4, <1>5
<1>8. QED
  BY <1>1, <1>6, <1>7, ReadCacheFacts, ReadCacheInv

LEMMA ReadMissInv ==
    ASSUME Inv, ReadMiss
    PROVE  Inv' /\ \A q \in Piece : View(q)' = View(q)
<1>1. /\ call.op = "read" /\ call.piece \notin CachePieces(read_cache) /\ call' = Idle
      /\ read_cache.left >= GetPieceLength(call.piece)
      /\ read_cache' = AllocateCache(read_cache, call.piece, read_data_from_disk(call.piece))
      /\ UNCHANGED <<disk, write_cache, is_open, flushing, bitfield, received>>
  BY DEF ReadMiss, Answer, IsExisted
<1>2. call.piece \in bitfield /\ call.piece \in Piece /\ FilesOK
  BY <1>1, CallFacts DEF Inv, FilesOK
<1>3. PICK p \in Piece \ CachePieces(read_cache) : p = call.piece
  BY <1>1, <1>2
<1>4. PICK data \in [Block[p] -> Data] : data = read_data_from_disk(p)
  BY <1>2, ReadFacts
<1>5. PICK new : new = AllocateCache(read_cache, p, data)
  OBVIOUS
<1>6. /\ CacheOK(new) /\ new.max = read_cache.max
      /\ CachePieces(new) = CachePieces(read_cache) \cup {p}
      /\ DataOf(new, p) = data
      /\ \A q \in CachePieces(read_cache) : DataOf(new, q) = DataOf(read_cache, q)
  BY <1>1, <1>3, <1>5, AllocateFacts, ReadCacheFacts
<1>7. read_cache' = new
  BY <1>1, <1>3, <1>4, <1>5
<1>8. QED
  BY <1>1, <1>2, <1>3, <1>4, <1>6, <1>7, ReadCacheFacts, ReadCacheInv

LEMMA InitInv ==
    ASSUME Init
    PROVE  Inv
<1>1. PICK new : new = Cache(0)
  OBVIOUS
<1>2. CacheOK(new) /\ CachePieces(new) = {}
  BY <1>1, NewCacheFacts
<1>3. write_cache = new /\ read_cache = new /\ is_open = FALSE /\ bitfield = {}
  BY <1>1 DEF Init
<1>4. FilesOK /\ CallOK /\ FlushOK
  BY DEF Init, FilesOK, CallOK, FlushOK
<1>5. CachesOK
  BY <1>2, <1>3 DEF CachesOK
<1>6. CopiesOK
  BY <1>2, <1>3 DEF CopiesOK
<1>7. QED
  BY <1>4, <1>5, <1>6 DEF Inv

(***************************************************************************)
(* The steps of the store.                                                 *)
(***************************************************************************)

SameViews == \A p \in Piece : View(p)' = View(p)
SameFiles == \A p \in Piece : read_data_from_disk(p)' = read_data_from_disk(p)

LEMMA SameDisk ==
    ASSUME UNCHANGED disk
    PROVE  SameFiles
BY DEF SameFiles, read_data_from_disk

LEMMA StoreOther ==
    ASSUME SameViews, SameFiles, bitfield' = bitfield, answer' = None
    PROVE  Store!Other
BY DEF Store!Other, Store!None, None, SameViews, SameFiles, View, IsExisted

LEMMA GoodFacts ==
    ASSUME FilesOK, NEW p \in Piece
    PROVE  IsGood(read_data_from_disk(p))
             <=> \A b \in Block[p] : read_data_from_disk(p)[b] = Good
BY ReadFacts DEF IsGood

LEMMA StoreRestart ==
    ASSUME Inv, End
    PROVE  Store!Restart
<1>1. FilesOK /\ UNCHANGED disk /\ answer' = None
  BY DEF Inv, End
<1>2. PICK new : new = Cache(0)
  OBVIOUS
<1>3. write_cache' = new /\ CachePieces(new) = {}
  BY <1>2, NewCacheFacts DEF End
<1>4. \A p \in Piece : View(p)' = read_data_from_disk(p)
  BY <1>1, <1>3 DEF View, read_data_from_disk
<1>5. ASSUME NEW p \in bitfield'
      PROVE  p \in bitfield /\ \A b \in Block[p] : read_data_from_disk(p)[b] = Good
  <2>1. p \in bitfield /\ (call.op = "flush" => p # call.piece)
    BY DEF End
  <2>2. call # Flushing(p)
    BY <2>1 DEF Flushing
  <2>3. p \in Piece /\ IsGood(read_data_from_disk(p))
    BY <2>1, <2>2, OwnedFacts
  <2>4. QED
    BY <1>1, <2>1, <2>3, GoodFacts
<1>6. bitfield \in SUBSET Piece
  BY <1>1 DEF FilesOK
<1>7. bitfield' \in SUBSET {p \in bitfield : \A b \in Block[p] :
                               [q \in Piece |-> read_data_from_disk(q)][p][b] = Good}
  BY <1>5, <1>6
<1>8. [p \in Piece |-> View(p)]' = [p \in Piece |-> read_data_from_disk(p)]
  BY <1>4
<1>9. [p \in Piece |-> read_data_from_disk(p)]' = [p \in Piece |-> read_data_from_disk(p)]
  BY <1>1, SameDisk DEF SameFiles
<1>10. QED
  BY <1>1, <1>7, <1>8, <1>9 DEF Store!Restart, Store!GoodPiece, Store!None, None, View,
                                IsExisted

LEMMA StoreVerify ==
    ASSUME Inv, NEW p \in Piece, HashPiece(p)
    PROVE  Store!Verify(p)
<1>1. /\ ~is_open /\ answer' = None
      /\ bitfield' = IF IsGood(read_data_from_disk(p)) THEN bitfield \cup {p}
                     ELSE bitfield \ {p}
      /\ UNCHANGED <<disk, write_cache>>
  BY DEF HashPiece, caches
<1>2. CachePieces(write_cache) = {}
  BY <1>1 DEF Inv, CachesOK
<1>3. IsGood(read_data_from_disk(p))
        <=> \A b \in Block[p] : [q \in Piece |-> read_data_from_disk(q)][p][b] = Good
  BY GoodFacts DEF Inv
<1>4. [q \in Piece |-> View(q)] = [q \in Piece |-> read_data_from_disk(q)]
  BY <1>2 DEF View
<1>5. [q \in Piece |-> View(q)]' = [q \in Piece |-> View(q)]
      /\ [q \in Piece |-> read_data_from_disk(q)]' = [q \in Piece |-> read_data_from_disk(q)]
  BY <1>1 DEF View, read_data_from_disk
<1>6. QED
  BY <1>1, <1>3, <1>4, <1>5 DEF Store!Verify, Store!GoodPiece, Store!None, None, View,
                                IsExisted

LEMMA StoreSync ==
    ASSUME Inv, FlushPart
    PROVE  \E p \in Piece : \E blocks \in SUBSET Block[p] : Store!Sync(p, blocks)
<1>1. PICK f \in flushing.files :
          disk' = WritePart(f, flushing.piece, DataOf(write_cache, flushing.piece))
  BY DEF FlushPart
<1>2. flushing # NoFlush /\ UNCHANGED bitfield /\ answer' = None
  BY DEF FlushPart
<1>3. PICK q \in Piece : q = flushing.piece
  BY <1>2, FlushingFacts
<1>4. PICK data \in [Block[q] -> Data] : data = DataOf(write_cache, q)
  BY <1>2, <1>3, FlushingFacts
<1>5. q \in CachePieces(write_cache)
  BY <1>2, <1>3, FlushingFacts
<1>6. /\ disk' \in [0..TotalSize - 1 -> Data]
      /\ \A p \in Piece : p # q => read_data_from_disk(p)' = read_data_from_disk(p)
      /\ \A b \in Block[q] : disk'[q * PieceLength + b] =
            IF FileOf[q * PieceLength + b + 1] = f THEN data[b]
            ELSE disk[q * PieceLength + b]
  <2>1. disk' = WritePart(f, q, data) /\ FilesOK
    BY <1>1, <1>3, <1>4 DEF Inv
  <2>2. QED
    BY <2>1, WriteFacts
<1>7. PICK blocks \in SUBSET Block[q] :
          blocks = {b \in Block[q] : FileOf[q * PieceLength + b + 1] = f}
  OBVIOUS
<1>8. SameViews
  BY FlushPartInv DEF SameViews
<1>9. View(q) = data
  BY <1>4, <1>5 DEF View
<1>10. read_data_from_disk(q)' =
           [b \in Block[q] |-> IF b \in blocks THEN View(q)[b] ELSE read_data_from_disk(q)[b]]
  <2>1. \A b \in Block[q] : disk'[q * PieceLength + b] =
            IF b \in blocks THEN View(q)[b] ELSE read_data_from_disk(q)[b]
    BY <1>6, <1>7, <1>9 DEF read_data_from_disk
  <2>2. QED
    BY <2>1 DEF read_data_from_disk
<1>11. [p \in Piece |-> read_data_from_disk(p)]' =
           [[p \in Piece |-> read_data_from_disk(p)] EXCEPT ![q] =
               [b \in Block[q] |-> IF b \in blocks THEN [p \in Piece |-> View(p)][q][b]
                                   ELSE @[b]]]
  BY <1>6, <1>10
<1>12. [p \in Piece |-> View(p)]' = [p \in Piece |-> View(p)]
  BY <1>8 DEF SameViews
<1>13. Store!Sync(q, blocks)
  BY <1>2, <1>11, <1>12 DEF Store!Sync, Store!None, None, View, IsExisted
<1>14. QED
  BY <1>13

\* A slice is written to what the task sees.
LEMMA StoreWrite ==
    ASSUME Inv, call.op = "write", UNCHANGED <<disk, bitfield>>, answer' = None,
           \A q \in Piece : q # call.piece => View(q)' = View(q),
           View(call.piece)' = Patched(View(call.piece)), call'.piece = call.piece
    PROVE  Store!Write(call.piece, call.slice, call.value)
<1>1. PICK p \in Piece : p = call.piece /\ p \notin bitfield
  BY CallFacts
<1>2. View(p) \in [Block[p] -> Data]
  BY ViewFacts
<1>3. View(p)' = [b \in Block[p] |-> IF b \in call.slice THEN call.value ELSE View(p)[b]]
  <2>1. View(p)' = Patched(View(p))
    BY <1>1 DEF View
  <2>2. QED
    BY <1>2, <2>1 DEF Patched
<1>4. [q \in Piece |-> View(q)]' =
          [[q \in Piece |-> View(q)] EXCEPT ![p] =
              [b \in Block[p] |-> IF b \in call.slice THEN call.value ELSE @[b]]]
  BY <1>1, <1>3
<1>5. [q \in Piece |-> read_data_from_disk(q)]' = [q \in Piece |-> read_data_from_disk(q)]
  BY SameDisk DEF SameFiles
<1>6. Store!Write(p, call.slice, call.value)
  BY <1>1, <1>4, <1>5 DEF Store!Write, Store!None, None, View, IsExisted
<1>7. QED
  BY <1>1, <1>6

LEMMA StoreAccept ==
    ASSUME Inv, CheckPiece
    PROVE  Store!Other \/ Store!Accept(call.piece)
<1>1. UNCHANGED disk /\ answer' = None /\ call.op = "check"
  BY DEF CheckPiece
<1>2. SameViews /\ SameFiles
  BY <1>1, CheckPieceInv, SameDisk DEF SameViews
<1>3. CASE UNCHANGED bitfield
  BY <1>1, <1>2, <1>3, StoreOther
<1>4. CASE bitfield' = bitfield \cup {call.piece} /\ IsGood(View(call.piece))
  <2>1. PICK p \in Piece : p = call.piece
    BY <1>1, CallFacts
  <2>2. \A b \in Block[p] : View(p)[b] = Good
    BY <1>4, <2>1, ViewFacts DEF IsGood
  <2>3. [q \in Piece |-> View(q)]' = [q \in Piece |-> View(q)]
        /\ [q \in Piece |-> read_data_from_disk(q)]' = [q \in Piece |-> read_data_from_disk(q)]
    BY <1>2 DEF SameViews, SameFiles
  <2>4. Store!Accept(p)
    BY <1>1, <1>4, <2>1, <2>2, <2>3 DEF Store!Accept, Store!GoodPiece, Store!None, None,
                                        View, IsExisted
  <2>5. QED
    BY <2>1, <2>4
<1>5. QED
  BY <1>3, <1>4, CheckPieceInv

\* What is read from the cache or the disk is what was written last.
LEMMA StoreRead ==
    ASSUME Inv, call.op = "read", SameViews, UNCHANGED <<disk, bitfield>>,
           answer' = [b \in call.slice |-> read_data_from_disk(call.piece)[b]]
    PROVE  Store!Read(call.piece, call.slice)
<1>1. call.piece \in bitfield /\ SameFiles
  BY CallFacts, SameDisk
<1>2. PICK p \in Piece : p = call.piece
  BY <1>1 DEF Inv, FilesOK
<1>3. View(p) = read_data_from_disk(p)
  BY <1>1, <1>2, OwnedFacts DEF Flushing
<1>4. answer' = [b \in call.slice |-> [q \in Piece |-> View(q)][p][b]]
  BY <1>2, <1>3
<1>5. [q \in Piece |-> View(q)]' = [q \in Piece |-> View(q)]
      /\ [q \in Piece |-> read_data_from_disk(q)]' = [q \in Piece |-> read_data_from_disk(q)]
  BY <1>1 DEF SameViews, SameFiles
<1>6. Store!Read(p, call.slice)
  BY <1>1, <1>2, <1>4, <1>5 DEF Store!Read, View, IsExisted
<1>7. QED
  BY <1>2, <1>6

(***************************************************************************)
(* The theorems.                                                           *)
(***************************************************************************)

LEMMA NextInv ==
    ASSUME Inv, [Next]_vars
    PROVE  Inv'
<1>1. CASE UNCHANGED vars
  BY <1>1 DEF vars, caches, Inv, FilesOK, CachesOK, CallOK, FlushOK, InFlush, CopiesOK,
              View, read_data_from_disk
<1>2. CASE Next
  <2>1. CASE End \/ FlushPart \/ FlushEnd
    BY <2>1, EndInv, FlushPartInv, FlushEndInv
  <2>2. CASE WriteHit \/ DropForWrite \/ WriteMiss
    BY <2>2, WriteHitInv, DropForWriteInv, WriteMissInv
  <2>3. CASE NotComplete \/ CheckPiece \/ FlushCompleted
    BY <2>3, NotCompleteInv, CheckPieceInv, FlushCompletedInv
  <2>4. CASE FlushForResize \/ Resized
    BY <2>4, FlushForResizeInv, ResizedInv
  <2>5. CASE ReadHit \/ DropForRead \/ ReadMiss
    BY <2>5, ReadHitInv, DropForReadInv, ReadMissInv
  <2>6. CASE \E size \in CacheSizes : Open(size) \/ SetCacheSize(size)
    BY <2>6, OpenInv, SetCacheSizeInv
  <2>7. CASE \E p \in Piece :
                \/ HashPiece(p)
                \/ \E s \in Slice[p] :
                      \/ PeerRequests(p, s)
                      \/ \E value \in Data : SliceCompleted(p, s, value)
    BY <2>7, HashPieceInv, PeerRequestsInv, SliceCompletedInv
  <2>8. QED
    BY <1>2, <2>1, <2>2, <2>3, <2>4, <2>5, <2>6, <2>7 DEF Next
<1>3. QED
  BY <1>1, <1>2

\* Inv is an invariant.
THEOREM Invariance == Spec => []Inv
<1>1. Init => Inv
  BY InitInv
<1>2. Inv /\ [Next]_vars => Inv'
  BY NextInv
<1>3. QED
  BY <1>1, <1>2, PTL DEF Spec

LEMMA LimitsFacts ==
    ASSUME NEW c, CacheOK(c)
    PROVE  /\ c.left >= 0
           /\ c.max = c.left + Cardinality(Cached(c))
           /\ IsInjective([k \in DOMAIN c.caches |-> c.caches[k].piece])
<1>1. Row(c.caches) /\ c.left \in Nat /\ c.max = c.left + Cardinality(Blocks(CachePieces(c)))
  BY LengthFacts
<1>2. IsInjective([k \in DOMAIN c.caches |-> c.caches[k].piece])
  BY <1>1 DEF Row, IsInjective
<1>3. Cached(c) = Blocks(CachePieces(c))
  <2>1. \A k \in DOMAIN c.caches :
            {c.caches[k].piece} \X DOMAIN c.caches[k].data
              = {c.caches[k].piece} \X Block[c.caches[k].piece]
    BY <1>1, DataFacts
  <2>2. Cached(c) = UNION {{c.caches[k].piece} \X DOMAIN c.caches[k].data : k \in DOMAIN c.caches}
    BY DEF Cached, Range
  <2>3. Blocks(CachePieces(c))
          = UNION {{c.caches[k].piece} \X Block[c.caches[k].piece] : k \in DOMAIN c.caches}
    BY DEF Blocks, CachePieces
  <2>4. QED
    BY <2>1, <2>2, <2>3
<1>4. QED
  BY <1>1, <1>2, <1>3

\* The caches keep their limits whatever is written, read, evicted, flushed or
\* resized: the room left is exact, no piece is cached twice, and there is
\* always room for one, so no eviction ever finds its cache empty.
THEOREM CachesAreSound == Spec => []CachesSound
<1>1. Inv => CachesSound
  <2> SUFFICES ASSUME Inv PROVE CachesSound
    OBVIOUS
  <2>1. FilesOK /\ CachesOK /\ CacheOK(write_cache) /\ CacheOK(read_cache)
    BY DEF Inv, CachesOK
  <2>2. call.op \in {"none", "write", "check", "flush", "resize", "read"}
    BY DEF Inv, CallOK, Idle, Flushing
  <2>3. flushing # NoFlush => IsExisted(write_cache, flushing.piece)
    BY FlushingFacts DEF IsExisted
  <2>4. TypeOK
    BY <2>1, <2>2, <2>3 DEF FilesOK, TypeOK
  <2>5. \A c \in {write_cache, read_cache} :
            /\ c.left >= 0 /\ c.max = c.left + Cardinality(Cached(c))
            /\ IsInjective([k \in DOMAIN c.caches |-> c.caches[k].piece])
    BY <2>1, LimitsFacts
  <2>6. is_open => \A c \in {write_cache, read_cache} : c.max >= PieceLength
    BY <2>1 DEF CachesOK
  <2>7. LimitsKept
    BY <2>5, <2>6 DEF LimitsKept
  <2>8. QED
    BY <2>4, <2>7 DEF CachesSound
<1>2. QED
  BY <1>1, Invariance, PTL

\* Whenever the program dies, the pieces it took for complete are good on the
\* disk, but for the one whose FlushPiece had not returned.
THEOREM OwnedPiecesAreGood == Spec => []OwnedIsGood
<1>1. Inv => OwnedIsGood
  <2> SUFFICES ASSUME Inv, NEW p \in bitfield,
                      ~(call.op = "flush" /\ call.piece = p)
               PROVE  IsGood(read_data_from_disk(p))
    BY DEF OwnedIsGood
  <2>1. call # Flushing(p)
    BY DEF Flushing
  <2>2. QED
    BY <2>1, OwnedFacts
<1>2. QED
  BY <1>1, Invariance, PTL

LEMMA NextStore ==
    ASSUME Inv, [Next]_vars
    PROVE  [Store!Next]_(Store!vars)
<1> SUFFICES ASSUME Next PROVE Store!Next
  BY DEF vars, caches, Store!vars, IsExisted, read_data_from_disk
<1>1. Store!Piece = Piece
  BY DEF Store!Piece, Block
<1>2. CASE End
  BY <1>2, StoreRestart DEF Store!Next
<1>3. CASE FlushPart
  BY <1>1, <1>3, StoreSync DEF Store!Next
<1>4. ASSUME NEW p \in Piece, HashPiece(p) PROVE Store!Next
  BY <1>1, <1>4, StoreVerify DEF Store!Next
<1>5. CASE CheckPiece
  <2>1. call.piece \in Piece
    BY <1>5, CallFacts DEF CheckPiece
  <2>2. QED
    BY <1>1, <1>5, <2>1, StoreAccept DEF Store!Next
<1>6. CASE WriteHit \/ WriteMiss
  <2>1. /\ call.op = "write" /\ UNCHANGED <<disk, bitfield>> /\ answer' = None
        /\ call'.piece = call.piece
    BY <1>6 DEF WriteHit, WriteMiss, Written
  <2>2. Store!Write(call.piece, call.slice, call.value)
    BY <1>6, <2>1, WriteHitInv, WriteMissInv, StoreWrite
  <2>3. call.piece \in Piece /\ call.slice \in Slice[call.piece] /\ call.value \in Data
    BY <2>1, CallFacts
  <2>4. QED
    BY <1>1, <2>2, <2>3 DEF Store!Next
<1>7. CASE ReadHit \/ ReadMiss
  <2>1. /\ call.op = "read" /\ UNCHANGED <<disk, bitfield>>
        /\ call.piece \in bitfield /\ call.slice \in Slice[call.piece]
    BY <1>7, CallFacts DEF ReadHit, ReadMiss
  <2>2. answer' = [b \in call.slice |-> read_data_from_disk(call.piece)[b]]
    BY <1>7, ReadCacheFacts DEF ReadHit, ReadMiss, Answer, IsExisted
  <2>3. SameViews
    BY <1>7, ReadHitInv, ReadMissInv DEF SameViews
  <2>4. Store!Read(call.piece, call.slice)
    BY <2>1, <2>2, <2>3, StoreRead
  <2>5. call.piece \in Piece
    BY <2>1 DEF Inv, FilesOK
  <2>6. QED
    BY <1>1, <2>1, <2>4, <2>5 DEF Store!Next
<1>8. CASE FlushEnd \/ DropForWrite \/ FlushForResize \/ FlushCompleted \/ DropForRead
  <2>1. SameViews
    BY <1>8, FlushEndInv, DropForWriteInv, FlushForResizeInv, FlushCompletedInv,
       DropForReadInv
       DEF SameViews
  <2>2. UNCHANGED <<disk, bitfield>> /\ answer' = None
    BY <1>8 DEF FlushEnd, DropForWrite, FlushForResize, FlushCompleted, DropForRead
  <2>3. QED
    BY <2>1, <2>2, SameDisk, StoreOther DEF Store!Next
<1>9. ASSUME UNCHANGED <<disk, write_cache, bitfield>>, answer' = None PROVE Store!Next
  <2>1. SameViews /\ SameFiles
    BY <1>9, SameDisk DEF SameViews, View, read_data_from_disk
  <2>2. QED
    BY <1>9, <2>1, StoreOther DEF Store!Next
<1>10. CASE NotComplete
  BY <1>9, <1>10 DEF NotComplete, caches
<1>11. ASSUME NEW size \in CacheSizes, SetCacheSize(size) PROVE Store!Next
  BY <1>9, <1>11 DEF SetCacheSize, caches
<1>12. ASSUME NEW p \in Piece, NEW s \in Slice[p],
              PeerRequests(p, s) \/ \E value \in Data : SliceCompleted(p, s, value)
       PROVE  Store!Next
  BY <1>9, <1>12 DEF PeerRequests, SliceCompleted, caches
\* New caches over what is on the disk, when the write cache was empty.
<1>13. ASSUME NEW size \in Nat, NewCaches(size), CachePieces(write_cache) = {},
              UNCHANGED <<disk, bitfield>>, answer' = None
       PROVE  Store!Next
  <2>1. CachePieces(write_cache') = {}
    BY <1>13, NewCachesFacts
  <2>2. SameViews /\ SameFiles
    BY <1>13, <2>1, SameDisk DEF SameViews, SameFiles, View
  <2>3. QED
    BY <1>13, <2>2, StoreOther DEF Store!Next
<1>14. ASSUME NEW size \in CacheSizes, Open(size) PROVE Store!Next
  <2>1. CachePieces(write_cache) = {}
    BY <1>14 DEF Open, Inv, CachesOK
  <2>2. QED
    BY <1>13, <1>14, <2>1, StorageAssumption DEF Open
<1>15. CASE Resized
  <2>1. call.op = "resize" /\ write_cache.caches = <<>>
    BY <1>15 DEF Resized
  <2>2. CachePieces(write_cache) = {}
    BY <2>1 DEF CachePieces
  <2>3. call.size \in Nat
    BY <2>1, CallFacts, StorageAssumption
  <2>4. QED
    BY <1>13, <1>15, <2>2, <2>3 DEF Resized
<1>16. QED
  BY <1>2, <1>3, <1>4, <1>5, <1>6, <1>7, <1>8, <1>10, <1>11, <1>12, <1>14, <1>15 DEF Next

LEMMA InitStore ==
    ASSUME Init
    PROVE  Store!Init
<1>1. Inv
  BY InitInv
<1>2. CachePieces(write_cache) = {} /\ bitfield = {} /\ answer = None
  BY <1>1 DEF Init, Inv, CachesOK
<1>3. \A p \in Piece : read_data_from_disk(p) \in [Block[p] -> Data]
  BY <1>1, ReadFacts DEF Inv
<1>4. [p \in Piece |-> View(p)] = [p \in Piece |-> read_data_from_disk(p)]
  BY <1>2 DEF View
<1>5. Store!Piece = Piece
  BY DEF Store!Piece, Block
<1>6. [p \in Piece |-> View(p)] \in [Piece -> UNION {[Block[p] -> Data] : p \in Piece}]
      /\ \A p \in Piece : DOMAIN [q \in Piece |-> View(q)][p] = Block[p]
  BY <1>3, <1>4
<1>7. QED
  BY <1>2, <1>4, <1>5, <1>6 DEF Store!Init, Store!None, None, View, IsExisted

\* The caches over the files implement the store without caches: what is read
\* was written last, and no eviction, flush or change of the cache size changes
\* what the task sees.
THEOREM StorageImplementsStore == Spec => ImplementsStore
<1>1. Init => Store!Init
  BY InitStore
<1>2. Inv /\ [Next]_vars => [Store!Next]_(Store!vars)
  BY NextStore
<1>3. QED
  BY <1>1, <1>2, Invariance, PTL DEF Spec, ImplementsStore, Store!Spec
=============================================================================
