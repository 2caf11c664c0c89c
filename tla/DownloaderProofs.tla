-------------------------- MODULE DownloaderProofs --------------------------
(***************************************************************************)
(* Of a Downloader, the parts that do not speak to peers: PieceManager     *)
(* keeps its redundant views consistent, for every torrent, every number   *)
(* of peers and every order of its operations; the trackers and the pool   *)
(* of threads share each request until it is answered, for any number of   *)
(* trackers, threads and requests.                                         *)
(***************************************************************************)
EXTENDS PieceManager, Tracker, FiniteSetTheorems, SequenceTheorems, WellFoundedInduction, TLAPS

(***************************************************************************)
(* Request tables of every length.                                         *)
(***************************************************************************)

LEMMA BatchType ==
    ASSUME NEW n \in Nat, NEW req \in [1..n -> SliceState], NEW want, NEW eg
    PROVE  GetBatch(req, want, eg) \in [1..n -> SliceState]
BY DEF GetBatch, SliceState, REQUESTED

LEMMA AbortType ==
    ASSUME NEW n \in Nat, NEW req \in [1..n -> SliceState], NEW S
    PROVE  AbortRequests(req, S) \in [1..n -> SliceState]
BY DEF AbortRequests, SliceState, FREE

LEMMA CompleteType ==
    ASSUME NEW n \in Nat, NEW req \in [1..n -> SliceState], NEW i
    PROVE  RequestCompleted(req, i) \in [1..n -> SliceState]
BY DEF RequestCompleted, SliceState, COMPLETED

LEMMA ResetType ==
    ASSUME NEW n \in Nat
    PROVE  Reset(n) \in [1..n -> SliceState]
BY DEF Reset, SliceState, FREE

LEMMA NatMin ==
    ASSUME NEW T \in SUBSET Nat, T # {}
    PROVE  \E x \in T : \A y \in T : x <= y
<1>1. PICK x \in T : \A y \in T : ~(<<y, x>> \in OpToRel(<, Nat))
  BY NatLessThanWellFounded, WFMin
<1>2. \A y \in T : ~(y < x)
  BY <1>1 DEF OpToRel
<1>3. QED
  BY <1>2

\* There is a first acceptable slice whenever HasFreeSlice says so.
LEMMA FirstExists ==
    ASSUME NEW n \in Nat, NEW req \in [1..n -> SliceState], NEW eg \in BOOLEAN,
           HasFreeSlice(req, eg)
    PROVE  FirstRequest(req, eg) # {}
<1> DEFINE T == {i \in 1..n : req[i] \in Requestable(eg)}
<1>1. T # {} /\ T \in SUBSET Nat
  BY DEF HasFreeSlice
<1>2. PICK i \in T : \A j \in T : i <= j
  BY <1>1, NatMin
<1>3. \A j \in 1..n : j < i => req[j] \notin Requestable(eg)
  BY <1>2, SMT
<1>4. i \in FirstRequest(req, eg)
  BY <1>3 DEF FirstRequest
<1>5. QED
  BY <1>4

\* A batch is not empty when HasFreeSlice promised a slice: the assert of
\* do_pieces_request that its list is not empty (PeerLink.cpp 339).
LEMMA BatchNotEmpty ==
    ASSUME NEW n \in Nat, NEW req \in [1..n -> SliceState], NEW eg \in BOOLEAN,
           NEW want \in Nat \ {0}, HasFreeSlice(req, eg)
    PROVE  BatchSlices(req, want, eg) # {}
<1>1. CASE eg
  BY <1>1, FirstExists DEF BatchSlices
<1>2. CASE ~eg
  <2>1. PICK i \in FirstRequest(req, eg) : TRUE
    BY FirstExists
  <2>2. /\ i \in 1..n /\ req[i] = FREE
        /\ \A j \in 1..n : j < i => req[j] # FREE
    BY <1>2, <2>1 DEF FirstRequest, Requestable
  <2>3. {j \in DOMAIN req : j <= i /\ req[j] = FREE} = {i}
    BY <2>2, SMT
  <2>4. Cardinality({j \in DOMAIN req : j <= i /\ req[j] = FREE}) = 1
    BY <2>3, FS_Singleton
  <2>5. i \in BatchSlices(req, want, eg)
    BY <1>2, <2>2, <2>4, SMT DEF BatchSlices
  <2>6. QED
    BY <2>5
<1>3. QED
  BY <1>1, <1>2

\* A batch leaves something asked for and something missing.
LEMMA BatchIsAlive ==
    ASSUME NEW n \in Nat, NEW req \in [1..n -> SliceState], NEW eg \in BOOLEAN,
           NEW want \in Nat \ {0}, HasFreeSlice(req, eg)
    PROVE  ~NotRequested(GetBatch(req, want, eg)) /\ ~IsCompleted(GetBatch(req, want, eg))
<1>1. PICK i \in BatchSlices(req, want, eg) : TRUE
  BY BatchNotEmpty
<1>2. i \in 1..n
  BY DEF BatchSlices, FirstRequest
<1>3. DOMAIN GetBatch(req, want, eg) = 1..n /\ GetBatch(req, want, eg)[i] = REQUESTED
  BY <1>1, <1>2 DEF GetBatch
<1>4. QED
  BY <1>2, <1>3 DEF NotRequested, IsCompleted, REQUESTED, FREE, COMPLETED

\* Aborting requests finishes no piece.
LEMMA AbortFinishesNothing ==
    ASSUME NEW n \in Nat, NEW req \in [1..n -> SliceState], NEW S, ~IsCompleted(req)
    PROVE  ~IsCompleted(AbortRequests(req, S))
<1>1. PICK i \in 1..n : req[i] # COMPLETED
  BY DEF IsCompleted
<1>2. DOMAIN AbortRequests(req, S) = 1..n /\ AbortRequests(req, S)[i] # COMPLETED
  BY <1>1 DEF AbortRequests, FREE, COMPLETED
<1>3. QED
  BY <1>2 DEF IsCompleted

\* A piece with a slice received is not untouched.
LEMMA CompleteTouches ==
    ASSUME NEW n \in Nat, NEW req \in [1..n -> SliceState], NEW i \in 1..n
    PROVE  ~NotRequested(RequestCompleted(req, i))
BY DEF RequestCompleted, NotRequested, COMPLETED, FREE

LEMMA ResetIsUntouched == ASSUME NEW n PROVE NotRequested(Reset(n))
BY DEF Reset, NotRequested

\* An untouched table with a slice has one to hand out.
LEMMA UntouchedHasFree ==
    ASSUME NEW n \in Nat \ {0}, NEW req \in [1..n -> SliceState], NotRequested(req), NEW eg
    PROVE  HasFreeSlice(req, eg)
<1>1. 1 \in DOMAIN req /\ req[1] = FREE
  BY SMT DEF NotRequested
<1>2. QED
  BY <1>1 DEF HasFreeSlice, Requestable

(***************************************************************************)
(* The index.                                                              *)
(***************************************************************************)

\* IndexConsistent of given buckets, states, have counts and positions.
IndexOf(bs, t, st, hv, ps) ==
    /\ \A b \in 0..t : \A i \in 1..Len(bs[b]) :
          st[bs[b][i]] # P_DONE /\ hv[bs[b][i]] = b /\ ps[bs[b][i]] = i
    /\ \A p \in Piece : st[p] # P_DONE =>
          hv[p] \in 0..t /\ ps[p] \in 1..Len(bs[hv[p]]) /\ bs[hv[p]][ps[p]] = p

\* What a swap-remove returns.
LEMMA SwapRemoveFacts ==
    ASSUME NEW s \in Seq(Piece), Len(s) > 0, NEW i \in 1..Len(s)
    PROVE  /\ SwapRemove(s, i) \in Seq(Piece)
           /\ Len(SwapRemove(s, i)) = Len(s) - 1
           /\ \A j \in 1 .. Len(s) - 1 :
                 SwapRemove(s, i)[j] = IF j = i THEN s[Len(s)] ELSE s[j]
<1> DEFINE n == Len(s) - 1
<1>1. n \in Nat
  BY SMT
<1>2. SwapRemove(s, i) \in [1..n -> Piece]
  BY SMT DEF SwapRemove
<1>3. QED
  BY <1>1, <1>2, SMT DEF SwapRemove

\* The buckets without p, and the positions when p gets position np instead.
Without(bs, hv, ps, p) == [bs EXCEPT ![hv[p]] = SwapRemove(@, ps[p])]
Moved(bs, hv, ps, p, np) == [ps EXCEPT ![bs[hv[p]][Len(bs[hv[p]])]] = ps[p], ![p] = np]

\* IndexOf, were p done.
IndexExcept(p, bs, t, st, hv, ps) ==
    /\ \A b \in 0..t : \A i \in 1..Len(bs[b]) :
          bs[b][i] # p /\ st[bs[b][i]] # P_DONE /\ hv[bs[b][i]] = b /\ ps[bs[b][i]] = i
    /\ \A q \in Piece \ {p} : st[q] # P_DONE =>
          hv[q] \in 0..t /\ ps[q] \in 1..Len(bs[hv[q]]) /\ bs[hv[q]][ps[q]] = q

\* Taking a piece out of its bucket keeps the rest of the index consistent.
LEMMA RemoveKeepsIndex ==
    ASSUME NEW t \in Nat, NEW bs \in [0..t -> Seq(Piece)], NEW st,
           NEW hv \in [Piece -> Nat], NEW ps \in [Piece -> Nat],
           IndexOf(bs, t, st, hv, ps),
           NEW p \in Piece, st[p] # P_DONE,
           NEW np \in Nat
    PROVE  /\ Without(bs, hv, ps, p) \in [0..t -> Seq(Piece)]
           /\ Moved(bs, hv, ps, p, np) \in [Piece -> Nat]
           /\ Moved(bs, hv, ps, p, np)[p] = np
           /\ IndexExcept(p, Without(bs, hv, ps, p), t, st, hv, Moved(bs, hv, ps, p, np))
<1> DEFINE h == hv[p]
           s == bs[h]
           last == s[Len(s)]
           r == SwapRemove(s, ps[p])
           bs2 == Without(bs, hv, ps, p)
           ps2 == Moved(bs, hv, ps, p, np)
<1>1. /\ h \in 0..t /\ s \in Seq(Piece) /\ Len(s) > 0 /\ ps[p] \in 1..Len(s)
      /\ s[ps[p]] = p /\ last \in Piece
  BY SMT DEF IndexOf
<1>2. /\ r \in Seq(Piece)
      /\ Len(r) = Len(s) - 1
      /\ \A j \in 1 .. Len(s) - 1 : r[j] = IF j = ps[p] THEN last ELSE s[j]
  BY <1>1, SwapRemoveFacts
<1>3. /\ bs2 \in [0..t -> Seq(Piece)]
      /\ bs2[h] = r
      /\ \A b \in 0..t : b # h => bs2[b] = bs[b]
  BY <1>1, <1>2 DEF Without
<1>4. /\ ps2 \in [Piece -> Nat]
      /\ ps2[p] = np
      /\ last # p => ps2[last] = ps[p]
      /\ \A q \in Piece : q # p /\ q # last => ps2[q] = ps[q]
  BY <1>1 DEF Moved
<1>5. st[last] # P_DONE /\ hv[last] = h /\ ps[last] = Len(s)
  <2>1. \A b \in 0..t : \A i \in 1..Len(bs[b]) :
           st[bs[b][i]] # P_DONE /\ hv[bs[b][i]] = b /\ ps[bs[b][i]] = i
    BY DEF IndexOf
  <2>2. h \in 0..t /\ Len(bs[h]) \in 1..Len(bs[h])
    BY <1>1, SMT
  <2>3. QED
    BY <2>1, <2>2
<1>6. ASSUME NEW b \in 0..t, NEW i \in 1..Len(bs2[b])
      PROVE  /\ bs2[b][i] # p
             /\ st[bs2[b][i]] # P_DONE
             /\ hv[bs2[b][i]] = b
             /\ ps2[bs2[b][i]] = i
  <2>1. CASE b # h
    <3> DEFINE e == bs[b][i]
    <3>1. bs2[b][i] = e /\ i \in 1..Len(bs[b]) /\ bs[b] \in Seq(Piece)
      BY <1>3, <2>1
    <3>2. e \in Piece /\ st[e] # P_DONE /\ hv[e] = b /\ ps[e] = i
      BY <3>1, SMT DEF IndexOf
    <3>3. e # p /\ e # last
      BY <3>2, <2>1, <1>5
    <3>4. QED
      BY <3>1, <3>2, <3>3, <1>4
  <2>2. CASE b = h
    <3>1. i \in 1 .. Len(s) - 1 /\ bs2[b][i] = r[i]
      BY <2>2, <1>2, <1>3
    <3>2. CASE i = ps[p]
      <4>1. bs2[b][i] = last
        BY <3>1, <3>2, <1>2
      <4>2. last # p
        BY <3>1, <3>2, <1>1, <1>5, SMT
      <4>3. QED
        BY <4>1, <4>2, <3>2, <2>2, <1>4, <1>5
    <3>3. CASE i # ps[p]
      <4>1. bs2[b][i] = s[i] /\ i \in 1..Len(s) /\ i # Len(s)
        BY <3>1, <3>3, <1>2, <1>1, SMT
      <4>2. s[i] \in Piece /\ st[s[i]] # P_DONE /\ hv[s[i]] = h /\ ps[s[i]] = i
        BY <4>1, <1>1, SMT DEF IndexOf
      <4>3. s[i] # p /\ s[i] # last
        BY <4>1, <4>2, <3>3, <1>5
      <4>4. QED
        BY <4>1, <4>2, <4>3, <1>4, <2>2
    <3>4. QED
      BY <3>2, <3>3
  <2>3. QED
    BY <2>1, <2>2
<1>7. ASSUME NEW q \in Piece \ {p}, st[q] # P_DONE
      PROVE  /\ hv[q] \in 0..t
             /\ ps2[q] \in 1..Len(bs2[hv[q]])
             /\ bs2[hv[q]][ps2[q]] = q
  <2>1. hv[q] \in 0..t /\ ps[q] \in 1..Len(bs[hv[q]]) /\ bs[hv[q]][ps[q]] = q
    BY <1>7, SMT DEF IndexOf
  <2>2. CASE hv[q] # h
    BY <2>1, <2>2, <1>3, <1>4, <1>5
  <2>3. CASE hv[q] = h /\ q = last
    <3>1. ps2[q] = ps[p]
      BY <2>3, <1>4
    <3>2. ps[p] # Len(s)
      BY <2>3, <1>1
    <3>3. ps[p] \in 1 .. Len(s) - 1
      BY <3>2, <1>1, SMT
    <3>4. r[ps[p]] = last
      BY <3>3, <1>2
    <3>5. QED
      BY <3>1, <3>3, <3>4, <2>3, <2>1, <1>2, <1>3
  <2>4. CASE hv[q] = h /\ q # last
    <3>1. ps2[q] = ps[q]
      BY <2>4, <1>4
    <3>2. ps[q] # Len(s) /\ ps[q] # ps[p]
      BY <2>1, <2>4, <1>1
    <3>3. ps[q] \in 1 .. Len(s) - 1
      BY <3>2, <2>1, <2>4, <1>1, SMT
    <3>4. r[ps[q]] = q
      BY <3>2, <3>3, <1>2, <2>1, <2>4
    <3>5. QED
      BY <3>1, <3>3, <3>4, <2>4, <2>1, <1>2, <1>3
  <2>5. QED
    BY <2>2, <2>3, <2>4
<1>8. IndexExcept(p, bs2, t, st, hv, ps2)
  BY <1>6, <1>7 DEF IndexExcept
<1>9. QED
  BY <1>3, <1>4, <1>8

\* The buckets after shift_over.
Shifted(bs, hv, ps, p, to) ==
    [bs EXCEPT ![hv[p]] = SwapRemove(@, ps[p]), ![to] = Append(@, p)]

\* shift_over: p goes from its bucket to the end of bucket `to'.
LEMMA ShiftKeepsIndex ==
    ASSUME NEW t \in Nat, NEW bs \in [0..t -> Seq(Piece)], NEW st,
           NEW hv \in [Piece -> Nat], NEW ps \in [Piece -> Nat],
           IndexOf(bs, t, st, hv, ps),
           NEW p \in Piece, st[p] # P_DONE,
           NEW to \in 0..t, to # hv[p]
    PROVE  /\ Shifted(bs, hv, ps, p, to) \in [0..t -> Seq(Piece)]
           /\ Moved(bs, hv, ps, p, Len(bs[to]) + 1) \in [Piece -> Nat]
           /\ IndexOf(Shifted(bs, hv, ps, p, to), t, st, [hv EXCEPT ![p] = to],
                      Moved(bs, hv, ps, p, Len(bs[to]) + 1))
<1> DEFINE h == hv[p]
           np == Len(bs[to]) + 1
           bs2 == Without(bs, hv, ps, p)
           bs3 == Shifted(bs, hv, ps, p, to)
           ps3 == Moved(bs, hv, ps, p, np)
           hv3 == [hv EXCEPT ![p] = to]
<1>1. np \in Nat /\ bs[to] \in Seq(Piece) /\ Len(bs[to]) \in Nat
  BY SMT
<1>2. /\ bs2 \in [0..t -> Seq(Piece)]
      /\ ps3 \in [Piece -> Nat]
      /\ ps3[p] = np
      /\ IndexExcept(p, bs2, t, st, hv, ps3)
  BY <1>1, RemoveKeepsIndex
<1>3. /\ bs3 \in [0..t -> Seq(Piece)]
      /\ bs3[to] = Append(bs[to], p)
      /\ \A b \in 0..t : b # to => bs3[b] = bs2[b]
      /\ bs2[to] = bs[to]
  <2>1. bs2[to] = bs[to]
    BY DEF Without
  <2>2. bs3 = [bs2 EXCEPT ![to] = Append(@, p)]
    BY <2>1 DEF Without, Shifted
  <2>3. Append(bs[to], p) \in Seq(Piece)
    BY <1>1
  <2>4. QED
    BY <2>1, <2>2, <2>3, <1>2
<1>4. /\ Len(bs3[to]) = np
      /\ bs3[to][np] = p
      /\ \A i \in 1..Len(bs2[to]) : bs3[to][i] = bs2[to][i]
      /\ Len(bs2[to]) = np - 1
  BY <1>1, <1>3, SMT
<1>5. hv3[p] = to /\ \A q \in Piece \ {p} : hv3[q] = hv[q]
  OBVIOUS
<1> HIDE DEF np, bs2, bs3, ps3, hv3
<1>6. ASSUME NEW b \in 0..t, NEW i \in 1..Len(bs3[b])
      PROVE  st[bs3[b][i]] # P_DONE /\ hv3[bs3[b][i]] = b /\ ps3[bs3[b][i]] = i
  <2>1. CASE b = to /\ i = np
    BY <2>1, <1>4, <1>5, <1>2
  <2>2. CASE ~(b = to /\ i = np)
    <3> DEFINE e == bs2[b][i]
    <3>1. i \in 1..Len(bs2[b]) /\ bs3[b][i] = e
      <4>1. CASE b # to
        BY <4>1, <1>3
      <4>2. CASE b = to
        <5>1. i \in 1..np /\ i # np
          BY <4>2, <2>2, <1>4
        <5>2. i \in 1 .. np - 1
          BY <5>1, <1>1, SMT
        <5>3. QED
          BY <5>2, <4>2, <1>4
      <4>3. QED
        BY <4>1, <4>2
    <3>2. e \in Piece
      <4>1. bs2[b] \in Seq(Piece)
        BY <1>2
      <4>2. QED
        BY <3>1, <4>1, SMT
    <3>3. e # p /\ st[e] # P_DONE /\ hv[e] = b /\ ps3[e] = i
      BY <3>1, <1>2 DEF IndexExcept
    <3>4. QED
      BY <3>1, <3>2, <3>3, <1>5
  <2>3. QED
    BY <2>1, <2>2
<1>7. ASSUME NEW q \in Piece, st[q] # P_DONE
      PROVE  hv3[q] \in 0..t /\ ps3[q] \in 1..Len(bs3[hv3[q]]) /\ bs3[hv3[q]][ps3[q]] = q
  <2>1. CASE q = p
    BY <2>1, <1>1, <1>2, <1>4, <1>5, SMT
  <2>2. CASE q # p
    <3>1. hv3[q] = hv[q] /\ hv[q] \in 0..t
      BY <2>2, <1>5, <1>2, <1>7 DEF IndexExcept
    <3>2. ps3[q] \in 1..Len(bs2[hv[q]]) /\ bs2[hv[q]][ps3[q]] = q
      BY <2>2, <1>2, <1>7 DEF IndexExcept
    <3>3. CASE hv[q] = to
      <4>1. ps3[q] \in 1..Len(bs2[to]) /\ bs2[to][ps3[q]] = q /\ hv3[q] = to
        BY <3>1, <3>2, <3>3
      <4>2. bs3[to][ps3[q]] = q
        BY <4>1, <1>4
      <4>3. ps3[q] \in 1 .. np - 1
        BY <4>1, <1>4
      <4>4. ps3[q] \in 1..np
        BY <4>3, <1>1, SMT
      <4>5. QED
        BY <4>1, <4>2, <4>4, <1>4
    <3>4. CASE hv[q] # to
      BY <3>1, <3>2, <3>4, <1>3
    <3>5. QED
      BY <3>3, <3>4
  <2>3. QED
    BY <2>1, <2>2
<1>8. IndexOf(bs3, t, st, hv3, ps3)
  BY <1>6, <1>7 DEF IndexOf
<1>9. QED
  BY <1>2, <1>3, <1>8 DEF np, bs3, ps3, hv3

\* SliceCompleted: a piece that is done leaves the index.
LEMMA DoneKeepsIndex ==
    ASSUME NEW t \in Nat, NEW bs \in [0..t -> Seq(Piece)],
           NEW st \in [Piece -> {P_FREE, P_DOWNLOADING, P_DONE}],
           NEW hv \in [Piece -> Nat], NEW ps \in [Piece -> Nat],
           IndexOf(bs, t, st, hv, ps),
           NEW p \in Piece, st[p] # P_DONE
    PROVE  /\ Without(bs, hv, ps, p) \in [0..t -> Seq(Piece)]
           /\ Moved(bs, hv, ps, p, NONE_POS) \in [Piece -> Nat]
           /\ IndexOf(Without(bs, hv, ps, p), t, [st EXCEPT ![p] = P_DONE], hv,
                      Moved(bs, hv, ps, p, NONE_POS))
<1> DEFINE h == hv[p]
           bs2 == Without(bs, hv, ps, p)
           ps2 == Moved(bs, hv, ps, p, NONE_POS)
           st2 == [st EXCEPT ![p] = P_DONE]
<1>1. /\ bs2 \in [0..t -> Seq(Piece)]
      /\ ps2 \in [Piece -> Nat]
      /\ IndexExcept(p, bs2, t, st, hv, ps2)
  <2>1. NONE_POS \in Nat
    BY DEF NONE_POS
  <2>2. QED
    BY <2>1, RemoveKeepsIndex
<1>2. \A q \in Piece : q # p => st2[q] = st[q]
  OBVIOUS
<1>3. \A b \in 0..t : \A i \in 1..Len(bs2[b]) : bs2[b][i] \in Piece
  BY <1>1, SMT
<1>4. st2[p] = P_DONE
  OBVIOUS
<1>5. IndexOf(bs2, t, st2, hv, ps2)
  <2>1. ASSUME NEW b \in 0..t, NEW i \in 1..Len(bs2[b])
        PROVE  st2[bs2[b][i]] # P_DONE /\ hv[bs2[b][i]] = b /\ ps2[bs2[b][i]] = i
    BY <1>1, <1>2, <1>3 DEF IndexExcept
  <2>2. ASSUME NEW q \in Piece, st2[q] # P_DONE
        PROVE  hv[q] \in 0..t /\ ps2[q] \in 1..Len(bs2[hv[q]]) /\ bs2[hv[q]][ps2[q]] = q
    <3>1. q # p /\ st[q] # P_DONE
      BY <2>2, <1>2, <1>4
    <3>2. QED
      BY <3>1, <1>1 DEF IndexExcept
  <2>3. QED
    BY <2>1, <2>2 DEF IndexOf
<1>6. QED
  BY <1>1, <1>5

\* m_interests.push_back: an empty bucket disturbs nothing.
LEMMA GrowKeepsIndex ==
    ASSUME top \in Nat, interests \in [0..top -> Seq(Piece)],
           NEW st, NEW hv, NEW ps, IndexOf(interests, top, st, hv, ps)
    PROVE  /\ Grown \in [0 .. top + 1 -> Seq(Piece)]
           /\ IndexOf(Grown, top + 1, st, hv, ps)
<1>1. Grown \in [0 .. top + 1 -> Seq(Piece)]
  BY SMT DEF Grown
<1>2. /\ \A b \in 0..top : b \in 0 .. top + 1 /\ Grown[b] = interests[b]
      /\ \A b \in 0 .. top + 1 : b \in 0..top \/ Grown[b] = <<>>
  BY SMT DEF Grown
<1>3. \A b \in 0 .. top + 1 : \A i \in 1..Len(Grown[b]) : b \in 0..top
  BY <1>2, SMT
<1>4. QED
  BY <1>1, <1>2, <1>3, SMT DEF IndexOf

(***************************************************************************)
(* The invariant.  None of its parts is inductive alone: that the index    *)
(* stays typed needs the positions to be right, that they are right needs  *)
(* the states, and that a state may change needs m_started_pieces.         *)
(***************************************************************************)

Inv == TypeOK /\ IndexConsistent /\ StatesAgree

LEMMA IndexOfFields ==
    IndexConsistent <=> IndexOf(interests, top, state, have, pos)
BY DEF IndexConsistent, EntriesSound, EntriesComplete, IndexOf

LEMMA InitInv == Init => Inv
<1> SUFFICES ASSUME Init PROVE Inv
  OBVIOUS
<1>1. PICK s \in Shuffles(Piece \ bitfield) :
         interests = [b \in 0..0 |-> s] /\ pos = PosIn(s)
  BY DEF Init
<1> DEFINE n == Cardinality(Piece \ bitfield)
<1>2. /\ s \in [1..n -> Piece \ bitfield]
      /\ \A i, j \in 1..n : s[i] = s[j] => i = j
      /\ \A q \in Piece \ bitfield : \E i \in 1..n : s[i] = q
  BY DEF Shuffles, Bijection, Injection, Surjection, IsInjective
<1>3. n \in Nat
  <2>1. IsFiniteSet(Piece \ bitfield)
    <3>1. IsFiniteSet(Piece)
      BY PiecesAssumption, FS_Interval DEF Piece
    <3>2. QED
      BY <3>1, FS_Subset
  <2>2. QED
    BY <2>1, FS_CardinalityType
<1> HIDE DEF n
<1>4. s \in Seq(Piece) /\ Len(s) = n /\ DOMAIN s = 1..n
  <2>1. s \in [1..n -> Piece]
    BY <1>2
  <2>2. QED
    BY <2>1, <1>3, SMT
<1>5. pos \in [Piece -> Nat] /\ \A i \in 1..n : pos[s[i]] = i
  <2>1. ASSUME NEW q \in Piece PROVE pos[q] \in Nat
    <3>1. CASE \E i \in DOMAIN s : s[i] = q
      <4>1. pos[q] = CHOOSE i \in DOMAIN s : s[i] = q
        BY <1>1, <3>1 DEF PosIn
      <4>2. pos[q] \in DOMAIN s
        BY <3>1, <4>1
      <4>3. QED
        BY <4>2, <1>3, <1>4, SMT
    <3>2. CASE ~ \E i \in DOMAIN s : s[i] = q
      BY <3>2, <1>1 DEF PosIn, NONE_POS
    <3>3. QED
      BY <3>1, <3>2
  <2>2. ASSUME NEW i \in 1..n PROVE pos[s[i]] = i
    BY <1>1, <1>2, <1>4 DEF PosIn
  <2>3. QED
    BY <1>1, <2>1, <2>2 DEF PosIn
<1>6. /\ bitfield \in SUBSET Piece
      /\ state = [p \in Piece |-> IF p \in bitfield THEN P_DONE ELSE P_FREE]
      /\ have = [p \in Piece |-> 0]
      /\ slice = NoRequests /\ started = {} /\ top = 0 /\ walk = Idle
  BY DEF Init
<1>7. interests \in [0..top -> Seq(Piece)] /\ top \in Nat /\ interests[0] = s
  BY <1>1, <1>4, <1>6
<1>8. TypeOK
  <2>1. DOMAIN slice = Piece /\ \A p \in Piece : slice[p] \in [1..SliceCount[p] -> SliceState]
    BY <1>6 DEF NoRequests, Reset, SliceState, FREE
  <2>2. state \in [Piece -> {P_FREE, P_DOWNLOADING, P_DONE}]
    BY <1>6
  <2>3. is_endgame \in BOOLEAN
    BY DEF Init, NeedEndgame
  <2>4. walk \in [op : {"none", "increase", "decrease"}, left : SUBSET Piece]
    BY <1>6 DEF Idle
  <2>5. have \in [Piece -> Nat] /\ started \in SUBSET Piece
    BY <1>6
  <2>6. QED
    BY <1>5, <1>6, <1>7, <2>1, <2>2, <2>3, <2>4, <2>5 DEF TypeOK
<1>9. IndexConsistent
  <2>1. 0..top = {0}
    BY <1>6, SMT
  <2>2. EntriesSound
    BY <1>2, <1>4, <1>5, <1>6, <1>7, <2>1 DEF EntriesSound, P_DONE, P_FREE
  <2>3. ASSUME NEW q \in Piece, state[q] # P_DONE
        PROVE  /\ have[q] \in 0..top
               /\ pos[q] \in 1..Len(interests[have[q]])
               /\ interests[have[q]][pos[q]] = q
    <3>1. PICK i \in 1..n : s[i] = q
      BY <2>3, <1>2, <1>6
    <3>2. QED
      BY <3>1, <1>4, <1>5, <1>6, <1>7, <2>1
  <2>4. QED
    BY <2>2, <2>3 DEF IndexConsistent, EntriesComplete
<1>10. StatesAgree
  BY <1>6 DEF StatesAgree, P_DONE, P_FREE, P_DOWNLOADING
<1>11. QED
  BY <1>8, <1>9, <1>10 DEF Inv

\* One turn of IncreaseHave or DecreaseHave.
LEMMA WalkInv ==
    ASSUME Inv, WalkBit
    PROVE  Inv'
<1>1. PICK p \in walk.left :
         /\ IF walk.op = "increase" THEN IncreaseHaveOf(p) ELSE DecreaseHaveOf(p)
         /\ walk' = IF walk.left = {p} THEN Idle ELSE [walk EXCEPT !.left = @ \ {p}]
  BY DEF WalkBit
<1>2. UNCHANGED <<bitfield, state, slice, started, is_endgame>>
  BY DEF WalkBit
<1>3. /\ top \in Nat /\ interests \in [0..top -> Seq(Piece)]
      /\ have \in [Piece -> Nat] /\ pos \in [Piece -> Nat]
      /\ IndexOf(interests, top, state, have, pos)
      /\ p \in Piece
  BY <1>1, IndexOfFields DEF Inv, TypeOK
<1>4. walk' \in [op : {"none", "increase", "decrease"}, left : SUBSET Piece]
  BY <1>1 DEF Inv, TypeOK, Idle
<1> DEFINE Good == /\ top' \in Nat /\ interests' \in [0..top' -> Seq(Piece)]
                   /\ have' \in [Piece -> Nat] /\ pos' \in [Piece -> Nat]
                   /\ IndexOf(interests', top', state', have', pos')
<1>5. CASE state[p] = P_DONE
  <2>1. UNCHANGED index /\ have' \in [Piece -> Nat] /\ \A q \in Piece : q # p => have'[q] = have[q]
    BY <1>1, <1>3, <1>5, SMT DEF IncreaseHaveOf, DecreaseHaveOf, index
  <2>2. \A b \in 0..top : \A i \in 1..Len(interests[b]) : interests[b][i] \in Piece \ {p}
    <3> SUFFICES ASSUME NEW b \in 0..top, NEW i \in 1..Len(interests[b])
                 PROVE  interests[b][i] \in Piece \ {p}
      OBVIOUS
    <3>1. interests[b] \in Seq(Piece)
      BY <1>3
    <3>2. interests[b][i] \in Piece
      BY <3>1, SMT
    <3>3. QED
      BY <3>2, <1>3, <1>5 DEF IndexOf
  <2>3. IndexOf(interests, top, state, have', pos)
    <3>1. \A b \in 0..top : \A i \in 1..Len(interests[b]) :
             have'[interests[b][i]] = have[interests[b][i]]
      BY <2>1, <2>2
    <3>2. \A q \in Piece : state[q] # P_DONE => have'[q] = have[q]
      BY <2>1, <1>5
    <3>3. ASSUME NEW b \in 0..top, NEW i \in 1..Len(interests[b])
          PROVE  /\ state[interests[b][i]] # P_DONE /\ have'[interests[b][i]] = b
                 /\ pos[interests[b][i]] = i
      <4>1. have'[interests[b][i]] = have[interests[b][i]]
        BY <3>1
      <4>2. /\ state[interests[b][i]] # P_DONE /\ have[interests[b][i]] = b
            /\ pos[interests[b][i]] = i
        BY <1>3 DEF IndexOf
      <4>3. QED
        BY <4>1, <4>2
    <3>4. ASSUME NEW q \in Piece, state[q] # P_DONE
          PROVE  /\ have'[q] \in 0..top /\ pos[q] \in 1..Len(interests[have'[q]])
                 /\ interests[have'[q]][pos[q]] = q
      <4>1. have'[q] = have[q]
        BY <3>2, <3>4
      <4>2. /\ have[q] \in 0..top /\ pos[q] \in 1..Len(interests[have[q]])
            /\ interests[have[q]][pos[q]] = q
        BY <1>3, <3>4 DEF IndexOf
      <4>3. QED
        BY <4>1, <4>2
    <3>5. QED
      BY <3>3, <3>4 DEF IndexOf
  <2>4. Good
    BY <2>1, <2>3, <1>2, <1>3 DEF index
  <2>5. QED
    BY <2>4, <1>2, <1>4, IndexOfFields DEF Inv, TypeOK, StatesAgree, IndexConsistent,
       EntriesSound, EntriesComplete, IndexOf
<1>6. CASE state[p] # P_DONE
  <2>1. have[p] \in 0..top
    BY <1>3, <1>6 DEF IndexOf
  <2>2. CASE walk.op = "increase" /\ have[p] = top
    <3>1. /\ top' = top + 1 /\ have' = [have EXCEPT ![p] = top + 1]
          /\ ShiftOver(p, Grown, have[p], top + 1)
      BY <1>1, <1>6, <2>2 DEF IncreaseHaveOf
    <3>2. /\ Grown \in [0 .. top + 1 -> Seq(Piece)]
          /\ IndexOf(Grown, top + 1, state, have, pos)
      BY <1>3, GrowKeepsIndex
    <3>3. top + 1 \in Nat /\ top + 1 \in 0 .. top + 1 /\ top + 1 # have[p]
      BY <1>3, <2>2, SMT
    <3>4. Good
      <4>1. /\ interests' = Shifted(Grown, have, pos, p, top + 1)
            /\ pos' = Moved(Grown, have, pos, p, Len(Grown[top + 1]) + 1)
        BY <3>1 DEF ShiftOver, Shifted, Moved
      <4>2. /\ Shifted(Grown, have, pos, p, top + 1) \in [0 .. top + 1 -> Seq(Piece)]
            /\ Moved(Grown, have, pos, p, Len(Grown[top + 1]) + 1) \in [Piece -> Nat]
            /\ IndexOf(Shifted(Grown, have, pos, p, top + 1), top + 1, state,
                       [have EXCEPT ![p] = top + 1], Moved(Grown, have, pos, p, Len(Grown[top + 1]) + 1))
        BY <3>2, <3>3, <1>3, <1>6, ShiftKeepsIndex
      <4>3. have' \in [Piece -> Nat]
        BY <3>1, <3>2, <1>3
      <4>4. QED
        BY <4>1, <4>2, <4>3, <3>1, <3>3, <1>2, <1>3
    <3>5. QED
      BY <3>4, <1>2, <1>4 DEF Inv, TypeOK, StatesAgree, IndexConsistent,
         EntriesSound, EntriesComplete, IndexOf
  <2>3. CASE walk.op = "increase" /\ have[p] # top
    <3>1. /\ top' = top /\ have' = [have EXCEPT ![p] = have[p] + 1]
          /\ ShiftOver(p, interests, have[p], have[p] + 1)
      BY <1>1, <1>6, <2>3 DEF IncreaseHaveOf
    <3>2. have[p] + 1 \in 0..top /\ have[p] + 1 # have[p]
      BY <1>3, <2>1, <2>3, SMT
    <3>3. Good
      <4>1. /\ interests' = Shifted(interests, have, pos, p, have[p] + 1)
            /\ pos' = Moved(interests, have, pos, p, Len(interests[have[p] + 1]) + 1)
        BY <3>1 DEF ShiftOver, Shifted, Moved
      <4>2. /\ Shifted(interests, have, pos, p, have[p] + 1) \in [0 .. top -> Seq(Piece)]
            /\ Moved(interests, have, pos, p, Len(interests[have[p] + 1]) + 1) \in [Piece -> Nat]
            /\ IndexOf(Shifted(interests, have, pos, p, have[p] + 1), top, state,
                       [have EXCEPT ![p] = have[p] + 1], Moved(interests, have, pos, p, Len(interests[have[p] + 1]) + 1))
        BY <3>2, <1>3, <1>6, ShiftKeepsIndex
      <4>3. have' \in [Piece -> Nat]
        BY <3>1, <3>2, <1>3
      <4>4. QED
        BY <4>1, <4>2, <4>3, <3>1, <1>2, <1>3
    <3>4. QED
      BY <3>3, <1>2, <1>4 DEF Inv, TypeOK, StatesAgree, IndexConsistent,
         EntriesSound, EntriesComplete, IndexOf
  <2>4. CASE walk.op # "increase" /\ have[p] = 0
    <3>1. UNCHANGED <<have, interests, top, pos>>
      BY <1>1, <2>4 DEF DecreaseHaveOf, index
    <3>2. QED
      BY <3>1, <1>2, <1>4 DEF Inv, TypeOK, StatesAgree, IndexConsistent,
         EntriesSound, EntriesComplete
  <2>5. CASE walk.op # "increase" /\ have[p] # 0
    <3>1. /\ top' = top /\ have' = [have EXCEPT ![p] = have[p] - 1]
          /\ ShiftOver(p, interests, have[p], have[p] - 1)
      BY <1>1, <1>6, <2>5 DEF DecreaseHaveOf
    <3>2. have[p] - 1 \in 0..top /\ have[p] - 1 # have[p]
      BY <1>3, <2>1, <2>5, SMT
    <3>3. Good
      <4>1. /\ interests' = Shifted(interests, have, pos, p, have[p] - 1)
            /\ pos' = Moved(interests, have, pos, p, Len(interests[have[p] - 1]) + 1)
        BY <3>1 DEF ShiftOver, Shifted, Moved
      <4>2. /\ Shifted(interests, have, pos, p, have[p] - 1) \in [0 .. top -> Seq(Piece)]
            /\ Moved(interests, have, pos, p, Len(interests[have[p] - 1]) + 1) \in [Piece -> Nat]
            /\ IndexOf(Shifted(interests, have, pos, p, have[p] - 1), top, state,
                       [have EXCEPT ![p] = have[p] - 1], Moved(interests, have, pos, p, Len(interests[have[p] - 1]) + 1))
        BY <3>2, <1>3, <1>6, ShiftKeepsIndex
      <4>3. have' \in [Piece -> Nat]
        BY <3>1, <3>2, <1>3
      <4>4. QED
        BY <4>1, <4>2, <4>3, <3>1, <1>2, <1>3
    <3>4. QED
      BY <3>3, <1>2, <1>4 DEF Inv, TypeOK, StatesAgree, IndexConsistent,
         EntriesSound, EntriesComplete, IndexOf
  <2>6. QED
    BY <2>2, <2>3, <2>4, <2>5
<1>7. QED
  BY <1>5, <1>6

\* A change of states that makes no piece done, or not done, leaves the index alone.
LEMMA StatesKeepIndex ==
    ASSUME TypeOK, IndexConsistent, UNCHANGED <<have, interests, top, pos>>,
           \A q \in Piece : state'[q] # P_DONE <=> state[q] # P_DONE
    PROVE  IndexConsistent'
<1>1. \A b \in 0..top : \A i \in 1..Len(interests[b]) : interests[b][i] \in Piece
  <2> SUFFICES ASSUME NEW b \in 0..top, NEW i \in 1..Len(interests[b])
               PROVE  interests[b][i] \in Piece
    OBVIOUS
  <2>1. interests[b] \in Seq(Piece)
    BY DEF TypeOK
  <2>2. QED
    BY <2>1, SMT
<1>2. QED
  BY <1>1 DEF IndexConsistent, EntriesSound, EntriesComplete

\* GetRequest: it starts a piece that is free, or goes on with a started one.
LEMMA BestFacts ==
    ASSUME Inv, NEW own \in SUBSET Piece, NEW p \in BestDownloading(own)
    PROVE  p \in Piece /\ p \in own /\ (p \in started \/ state[p] = P_FREE)
<1> DEFINE S == Continuable(own, started, have, slice, is_endgame)
<1>1. CASE S # {}
  BY <1>1 DEF BestDownloading, MostOwned, Continuable
<1>2. CASE S = {}
  <2>1. p \in ReqPiece(own)
    BY <1>2 DEF BestDownloading
  <2>2. PICK e \in FreeEntries(own) : p = interests[e[1]][e[2]]
    BY <2>1 DEF ReqPiece, Mostly, Rarely
  <2>3. QED
    BY <2>2 DEF FreeEntries
<1>3. QED
  BY <1>1, <1>2

LEMMA GetRequestInv ==
    ASSUME Inv, NEW own \in SUBSET Piece, NEW want_num, GetRequest(own, want_num)
    PROVE  Inv'
<1>1. PICK p \in BestDownloading(own) :
         /\ state' = [state EXCEPT ![p] = P_DOWNLOADING]
         /\ started' = started \cup {p}
         /\ slice' = [slice EXCEPT ![p] = GetBatch(@, want_num, is_endgame)]
  BY DEF GetRequest
<1>2. UNCHANGED <<bitfield, have, interests, top, pos, is_endgame, walk>>
  BY DEF GetRequest, index
<1>3. p \in Piece /\ (p \in started \/ state[p] = P_FREE)
  BY <1>1, BestFacts
<1>4. state[p] # P_DONE
  BY <1>3 DEF Inv, StatesAgree, P_DONE, P_FREE, P_DOWNLOADING
<1>5. /\ \A q \in Piece : state'[q] # P_DONE <=> state[q] # P_DONE
      /\ \A q \in Piece : state'[q] = P_DONE <=> state[q] = P_DONE
      /\ state' \in [Piece -> {P_FREE, P_DOWNLOADING, P_DONE}]
  BY <1>1, <1>3, <1>4 DEF Inv, TypeOK, P_DONE, P_DOWNLOADING
<1>6. DOMAIN slice' = Piece /\ \A q \in Piece : slice'[q] \in [1..SliceCount[q] -> SliceState]
  <2>1. SliceCount[p] \in Nat /\ slice[p] \in [1..SliceCount[p] -> SliceState]
    BY <1>3, PiecesAssumption DEF Inv, TypeOK
  <2>2. GetBatch(slice[p], want_num, is_endgame) \in [1..SliceCount[p] -> SliceState]
    BY <2>1, BatchType
  <2>3. QED
    BY <2>2, <1>1, <1>3 DEF Inv, TypeOK
<1>7. TypeOK'
  BY <1>1, <1>2, <1>3, <1>5, <1>6 DEF Inv, TypeOK
<1>8. IndexConsistent'
  BY <1>2, <1>5, StatesKeepIndex DEF Inv
<1>9. StatesAgree'
  BY <1>1, <1>2, <1>3, <1>5 DEF Inv, TypeOK, StatesAgree, P_DOWNLOADING
<1>10. QED
  BY <1>7, <1>8, <1>9 DEF Inv

LEMMA AbortRequestInv ==
    ASSUME Inv, NEW p \in Piece, NEW i, AbortRequest(p, i)
    PROVE  Inv'
<1>1. p \in started /\ slice' = [slice EXCEPT ![p] = AbortRequests(@, {i})]
  BY DEF AbortRequest
<1>2. \/ /\ state' = [state EXCEPT ![p] = P_FREE]
         /\ started' = started \ {p}
      \/ UNCHANGED <<state, started>>
  BY DEF AbortRequest
<1>3. UNCHANGED <<bitfield, have, interests, top, pos, is_endgame, walk>>
  BY DEF AbortRequest, index
<1>4. state[p] # P_DONE
  BY <1>1 DEF Inv, StatesAgree, P_DONE, P_DOWNLOADING
<1>5. /\ \A q \in Piece : state'[q] # P_DONE <=> state[q] # P_DONE
      /\ state' \in [Piece -> {P_FREE, P_DOWNLOADING, P_DONE}]
      /\ started' \in SUBSET Piece
  BY <1>2, <1>4 DEF Inv, TypeOK, P_DONE, P_FREE
<1>6. DOMAIN slice' = Piece /\ \A q \in Piece : slice'[q] \in [1..SliceCount[q] -> SliceState]
  <2>1. SliceCount[p] \in Nat /\ slice[p] \in [1..SliceCount[p] -> SliceState]
    BY PiecesAssumption DEF Inv, TypeOK
  <2>2. AbortRequests(slice[p], {i}) \in [1..SliceCount[p] -> SliceState]
    BY <2>1, AbortType
  <2>3. QED
    BY <2>2, <1>1 DEF Inv, TypeOK
<1>7. TypeOK'
  BY <1>3, <1>5, <1>6 DEF Inv, TypeOK
<1>8. IndexConsistent'
  BY <1>3, <1>5, StatesKeepIndex DEF Inv
<1>9. StatesAgree'
  BY <1>1, <1>2, <1>3, <1>5 DEF Inv, TypeOK, StatesAgree, P_DONE, P_FREE, P_DOWNLOADING
<1>10. QED
  BY <1>7, <1>8, <1>9 DEF Inv

LEMMA SliceCompletedInv ==
    ASSUME Inv, NEW p \in Piece, NEW i \in 1..SliceCount[p], NEW valid \in BOOLEAN,
           SliceCompleted(p, i, valid)
    PROVE  Inv'
<1> DEFINE table == RequestCompleted(slice[p], i)
<1>1. p \in started /\ UNCHANGED <<have, walk>>
  BY DEF SliceCompleted
<1>2. state[p] = P_DOWNLOADING /\ state[p] # P_DONE
  BY <1>1 DEF Inv, StatesAgree, P_DONE, P_DOWNLOADING
<1>3. /\ table \in [1..SliceCount[p] -> SliceState]
      /\ Reset(SliceCount[p]) \in [1..SliceCount[p] -> SliceState]
  BY CompleteType, ResetType, PiecesAssumption DEF Inv, TypeOK
<1>4. CASE ~IsCompleted(table)
  <2>1. /\ slice' = [slice EXCEPT ![p] = table]
        /\ UNCHANGED <<bitfield, state, started, interests, top, pos, is_endgame>>
    BY <1>4 DEF SliceCompleted, index
  <2>2. TypeOK'
    BY <1>1, <1>3, <2>1 DEF Inv, TypeOK
  <2>3. IndexConsistent' /\ StatesAgree'
    BY <1>1, <2>1 DEF Inv, IndexConsistent, EntriesSound, EntriesComplete, StatesAgree
  <2>4. QED
    BY <2>2, <2>3 DEF Inv
<1>5. CASE IsCompleted(table) /\ ~valid
  <2>1. /\ slice' = [slice EXCEPT ![p] = Reset(SliceCount[p])]
        /\ started' = started \ {p}
        /\ state' = [state EXCEPT ![p] = P_FREE]
        /\ UNCHANGED <<bitfield, interests, top, pos, is_endgame>>
    BY <1>5 DEF SliceCompleted, index
  <2>2. /\ \A q \in Piece : state'[q] # P_DONE <=> state[q] # P_DONE
        /\ state' \in [Piece -> {P_FREE, P_DOWNLOADING, P_DONE}]
    BY <1>2, <2>1 DEF Inv, TypeOK, P_DONE, P_FREE
  <2>3. TypeOK'
    BY <1>1, <1>3, <2>1, <2>2 DEF Inv, TypeOK
  <2>4. IndexConsistent'
    BY <1>1, <2>1, <2>2, StatesKeepIndex DEF Inv
  <2>5. StatesAgree'
    BY <1>1, <1>2, <2>1, <2>2
       DEF Inv, TypeOK, StatesAgree, P_DONE, P_FREE, P_DOWNLOADING
  <2>6. QED
    BY <2>3, <2>4, <2>5 DEF Inv
<1>6. CASE IsCompleted(table) /\ valid
  <2>1. /\ slice' = [slice EXCEPT ![p] = Reset(SliceCount[p])]
        /\ started' = started \ {p}
        /\ state' = [state EXCEPT ![p] = P_DONE]
        /\ interests' = Without(interests, have, pos, p)
        /\ pos' = Moved(interests, have, pos, p, NONE_POS)
        /\ bitfield' = bitfield \cup {p}
        /\ is_endgame' = EndgameAfter(bitfield')
        /\ top' = top
    BY <1>6 DEF SliceCompleted, Without, Moved
  <2>2. /\ Without(interests, have, pos, p) \in [0..top -> Seq(Piece)]
        /\ Moved(interests, have, pos, p, NONE_POS) \in [Piece -> Nat]
        /\ IndexOf(Without(interests, have, pos, p), top, [state EXCEPT ![p] = P_DONE],
                   have, Moved(interests, have, pos, p, NONE_POS))
    BY <1>2, DoneKeepsIndex, IndexOfFields DEF Inv, TypeOK
  <2>3. IndexConsistent'
    BY <1>1, <2>1, <2>2 DEF IndexConsistent, EntriesSound, EntriesComplete, IndexOf
  <2>4. is_endgame' \in BOOLEAN
    BY <2>1 DEF Inv, TypeOK, NeedEndgame, EndgameAfter
  <2>5. TypeOK'
    BY <1>1, <1>3, <2>1, <2>2, <2>4 DEF Inv, TypeOK
  <2>6. StatesAgree'
    BY <1>1, <1>2, <2>1 DEF Inv, TypeOK, StatesAgree, P_DONE, P_FREE, P_DOWNLOADING
  <2>7. QED
    BY <2>3, <2>5, <2>6 DEF Inv
<1>7. QED
  BY <1>4, <1>5, <1>6

LEMMA NextInv == Inv /\ [Next]_vars => Inv'
<1> SUFFICES ASSUME Inv, [Next]_vars PROVE Inv'
  OBVIOUS
<1>1. ASSUME NEW bitf \in SUBSET Piece, IncreaseHave(bitf) \/ DecreaseHave(bitf)
      PROVE  Inv'
  <2>1. /\ UNCHANGED <<bitfield, state, have, slice, started, interests, top, pos, is_endgame>>
        /\ walk' \in [op : {"none", "increase", "decrease"}, left : SUBSET Piece]
    BY <1>1 DEF IncreaseHave, DecreaseHave, index
  <2>2. QED
    BY <2>1 DEF Inv, TypeOK, IndexConsistent, EntriesSound, EntriesComplete, StatesAgree
<1>2. CASE WalkBit
  BY <1>2, WalkInv
<1>3. ASSUME NEW own \in SUBSET Piece, NEW want_num \in 1..MaxWant, GetRequest(own, want_num)
      PROVE  Inv'
  BY <1>3, GetRequestInv
<1>4. ASSUME NEW p \in Piece, NEW i \in 1..SliceCount[p],
             \/ \E valid \in BOOLEAN : SliceCompleted(p, i, valid)
             \/ AbortRequest(p, i)
      PROVE  Inv'
  BY <1>4, SliceCompletedInv, AbortRequestInv
<1>5. CASE UNCHANGED vars
  BY <1>5 DEF vars, Inv, TypeOK, IndexConsistent, EntriesSound, EntriesComplete, StatesAgree
<1>6. QED
  BY <1>1, <1>2, <1>3, <1>4, <1>5 DEF Next

\* Every reachable state is typed, whatever the torrent and the peers.
THEOREM TypeCorrect == Spec => []TypeOK
<1>1. Inv => TypeOK
  BY DEF Inv
<1>2. QED
  BY InitInv, NextInv, <1>1, PTL DEF Spec

\* m_interests and m_pos_in_interests are inverse to each other in every
\* reachable state: shift_over never finds another piece at the position it
\* erases, and a lookup by have count finds every unfinished piece.
THEOREM IndexIsConsistent == Spec => []IndexConsistent
<1>1. Inv => IndexConsistent
  BY DEF Inv
<1>2. QED
  BY InitInv, NextInv, <1>1, PTL DEF Spec

\* The bitfield, m_started_pieces and the piece states say the same in every
\* reachable state: none of the asserts on them can fail.
THEOREM StatesDoAgree == Spec => []StatesAgree
<1>1. Inv => StatesAgree
  BY DEF Inv
<1>2. QED
  BY InitInv, NextInv, <1>1, PTL DEF Spec

\* The rarest free piece a peer owns is the one started (the most common one
\* at the very start): the index finds it although it orders positions by
\* swap-remove, for any number of pieces, peers and buckets.
THEOREM RarityIsRespected == Spec => StartsByRarity
<1>1. ASSUME Inv, NEW own \in SUBSET Piece, NEW want_num \in 1..MaxWant,
             GetRequest(own, want_num), NEW p \in started' \ started
      PROVE  /\ p \in own
             /\ \A q \in own : state[q] = P_FREE /\ have[q] > 0 =>
                   IF BarelyBegun(bitfield) THEN have[q] <= have[p] ELSE have[p] <= have[q]
  <2>1. p \in BestDownloading(own) /\ p \notin started
    BY <1>1 DEF GetRequest
  <2>2. p \in ReqPiece(own) /\ p \in own
    BY <2>1, <1>1, BestFacts DEF BestDownloading, MostOwned, Continuable
  <2>3. PICK e \in FreeEntries(own) :
           /\ p = interests[e[1]][e[2]]
           /\ e \in IF BarelyBegun(bitfield) THEN Mostly(FreeEntries(own))
                    ELSE Rarely(FreeEntries(own))
    BY <2>2 DEF ReqPiece, Mostly, Rarely
  <2>4. top \in Nat /\ have \in [Piece -> Nat]
    BY <1>1 DEF Inv, TypeOK
  <2>5. PICK b \in 1..top : \E i \in 1..Len(interests[b]) : e = <<b, i>>
    BY <2>3 DEF FreeEntries, Entries
  <2>6. have[p] = e[1] /\ e[1] \in Nat
    BY <1>1, <2>3, <2>4, <2>5, SMT DEF Inv, IndexConsistent, EntriesSound
  <2>7. ASSUME NEW q \in own, state[q] = P_FREE, have[q] > 0
        PROVE  IF BarelyBegun(bitfield) THEN have[q] <= have[p] ELSE have[p] <= have[q]
    <3> DEFINE f == <<have[q], pos[q]>>
    <3>1. state[q] # P_DONE
      BY <2>7 DEF P_DONE, P_FREE
    <3>2. /\ have[q] \in 0..top /\ pos[q] \in 1..Len(interests[have[q]])
          /\ interests[have[q]][pos[q]] = q
      BY <1>1, <3>1 DEF Inv, IndexConsistent, EntriesComplete
    <3>3. have[q] \in 1..top
      BY <3>2, <2>7, <2>4, SMT
    <3>4. f \in FreeEntries(own)
      BY <3>2, <3>3, <2>7 DEF FreeEntries, Entries
    <3>5. CASE BarelyBegun(bitfield)
      <4>1. e[1] > f[1] \/ e[1] = f[1]
        BY <3>4, <3>5, <2>3 DEF Mostly
      <4>2. QED
        BY <4>1, <3>5, <3>3, <2>4, <2>6, SMT
    <3>6. CASE ~BarelyBegun(bitfield)
      <4>1. e[1] < f[1] \/ e[1] = f[1]
        BY <3>4, <3>6, <2>3 DEF Rarely
      <4>2. QED
        BY <4>1, <3>6, <3>3, <2>4, <2>6, SMT
    <3>7. QED
      BY <3>5, <3>6
  <2>8. QED
    BY <2>2, <2>7
<1>2. Inv => [\A own \in SUBSET Piece, want_num \in 1..MaxWant :
                GetRequest(own, want_num) =>
                  \A p \in started' \ started :
                    /\ p \in own
                    /\ \A q \in own : state[q] = P_FREE /\ have[q] > 0 =>
                          IF BarelyBegun(bitfield) THEN have[q] <= have[p]
                          ELSE have[p] <= have[q]]_vars
  BY <1>1
<1>3. QED
  BY InitInv, NextInv, <1>2, PTL DEF Spec, StartsByRarity

\* Endgame is on exactly while fewer than END_GAME_LINE pieces are missing.
THEOREM EndgameIsExact == Spec => []EndgameExact
<1>1. Init => EndgameExact
  BY DEF Init, EndgameExact
<1>2. Inv /\ EndgameExact /\ [Next]_vars => EndgameExact'
  <2> SUFFICES ASSUME Inv, EndgameExact, [Next]_vars PROVE EndgameExact'
    OBVIOUS
  <2>1. CASE UNCHANGED <<bitfield, is_endgame>>
    BY <2>1 DEF EndgameExact, NeedEndgame
  <2>2. ASSUME NEW p \in Piece, bitfield' = bitfield \cup {p},
               is_endgame' = EndgameAfter(bitfield')
        PROVE  EndgameExact'
    <3>1. IsFiniteSet(Piece)
      BY PiecesAssumption, FS_Interval DEF Piece
    <3>2. IsFiniteSet(Piece \ bitfield) /\ IsFiniteSet(Piece \ bitfield')
      BY <3>1, FS_Subset
    <3>3. Cardinality(Piece \ bitfield') <= Cardinality(Piece \ bitfield)
      BY <3>2, <2>2, FS_Subset
    <3>4. Cardinality(Piece \ bitfield) \in Nat /\ Cardinality(Piece \ bitfield') \in Nat
      BY <3>2, FS_CardinalityType
    <3>5. NeedEndgame(bitfield) => NeedEndgame(bitfield')
      BY <3>3, <3>4, PiecesAssumption, SMT DEF NeedEndgame
    <3>6. QED
      BY <3>5, <2>2 DEF EndgameExact, EndgameAfter
  <2>3. CASE \E bitf \in SUBSET Piece : IncreaseHave(bitf) \/ DecreaseHave(bitf)
    BY <2>3, <2>1 DEF IncreaseHave, DecreaseHave
  <2>4. CASE WalkBit
    BY <2>4, <2>1 DEF WalkBit
  <2>5. CASE \E own \in SUBSET Piece, want_num \in 1..MaxWant : GetRequest(own, want_num)
    BY <2>5, <2>1 DEF GetRequest
  <2>6. ASSUME NEW p \in Piece, NEW i \in 1..SliceCount[p], NEW valid \in BOOLEAN,
               SliceCompleted(p, i, valid)
        PROVE  EndgameExact'
    <3>1. \/ UNCHANGED <<bitfield, is_endgame>>
          \/ /\ bitfield' = bitfield \cup {p}
             /\ is_endgame' = EndgameAfter(bitfield')
      BY <2>6 DEF SliceCompleted
    <3>2. QED
      BY <3>1, <2>1, <2>2
  <2>7. CASE \E p \in Piece : \E i \in 1..SliceCount[p] : AbortRequest(p, i)
    BY <2>7, <2>1 DEF AbortRequest
  <2>8. CASE UNCHANGED vars
    BY <2>8, <2>1 DEF vars
  <2>9. QED
    BY <2>3, <2>4, <2>5, <2>6, <2>7, <2>8 DEF Next
<1>3. QED
  BY InitInv, NextInv, <1>1, <1>2, PTL DEF Spec

\* No piece is left started with nothing outstanding or received, or with
\* nothing missing: every way out of P_DOWNLOADING is taken in time.
THEOREM NoPieceIsStuck == Spec => []NoStuckPiece
<1>1. ASSUME Init PROVE NoStuckPiece
  <2>1. ASSUME NEW p \in Piece PROVE NotRequested(slice[p])
    BY <1>1, ResetIsUntouched DEF Init, NoRequests
  <2>2. QED
    BY <1>1, <2>1 DEF Init, NoStuckPiece
<1>2. ASSUME Inv, NoStuckPiece, [Next]_vars PROVE NoStuckPiece'
  <2>1. ASSUME UNCHANGED <<started, slice>> PROVE NoStuckPiece'
    BY <1>2, <2>1 DEF NoStuckPiece
  <2>2. ASSUME NEW own \in SUBSET Piece, NEW want \in 1..MaxWant, GetRequest(own, want)
        PROVE  NoStuckPiece'
    <3>1. PICK p \in BestDownloading(own) :
             /\ started' = started \cup {p}
             /\ slice' = [slice EXCEPT ![p] = GetBatch(@, want, is_endgame)]
      BY <2>2 DEF GetRequest
    <3>2. p \in Piece /\ (p \in started \/ state[p] = P_FREE)
      BY <1>2, <3>1, BestFacts
    <3>3. slice[p] \in [1..SliceCount[p] -> SliceState] /\ SliceCount[p] \in Nat \ {0}
      BY <1>2, <3>2, PiecesAssumption DEF Inv, TypeOK
    <3>4. HasFreeSlice(slice[p], is_endgame)
      <4>1. CASE Continuable(own, started, have, slice, is_endgame) # {}
        BY <3>1, <4>1 DEF BestDownloading, MostOwned, Continuable
      <4>2. CASE Continuable(own, started, have, slice, is_endgame) = {}
        <5>1. p \in ReqPiece(own)
          BY <3>1, <4>2 DEF BestDownloading
        <5>2. PICK e \in FreeEntries(own) : p = interests[e[1]][e[2]]
          BY <5>1 DEF ReqPiece, Mostly, Rarely
        <5>3. state[p] = P_FREE
          BY <5>2 DEF FreeEntries
        <5>4. p \notin started
          BY <1>2, <5>3 DEF Inv, StatesAgree, P_FREE, P_DOWNLOADING
        <5>5. NotRequested(slice[p])
          BY <1>2, <3>2, <5>4 DEF NoStuckPiece
        <5>6. QED
          BY <3>3, <5>5, UntouchedHasFree
      <4>3. QED
        BY <4>1, <4>2
    <3>5. ~NotRequested(slice'[p]) /\ ~IsCompleted(slice'[p])
      <4>1. want \in Nat \ {0} /\ is_endgame \in BOOLEAN
        BY <1>2 DEF Inv, TypeOK
      <4>2. slice'[p] = GetBatch(slice[p], want, is_endgame)
        BY <1>2, <3>1, <3>2 DEF Inv, TypeOK
      <4>3. QED
        BY <3>3, <3>4, <4>1, <4>2, BatchIsAlive
    <3>6. \A q \in Piece : q # p => slice'[q] = slice[q]
      BY <1>2, <3>1 DEF Inv, TypeOK
    <3>7. started \in SUBSET Piece
      BY <1>2 DEF Inv, TypeOK
    <3>8. QED
      BY <1>2, <3>1, <3>2, <3>5, <3>6, <3>7 DEF NoStuckPiece
  <2>3. ASSUME NEW p \in Piece, NEW i \in 1..SliceCount[p], NEW valid \in BOOLEAN,
               SliceCompleted(p, i, valid)
        PROVE  NoStuckPiece'
    <3> DEFINE table == RequestCompleted(slice[p], i)
    <3>1. slice[p] \in [1..SliceCount[p] -> SliceState] /\ SliceCount[p] \in Nat
      BY <1>2, PiecesAssumption DEF Inv, TypeOK
    <3>2. \/ /\ ~IsCompleted(table) /\ slice' = [slice EXCEPT ![p] = table]
             /\ started' = started
          \/ /\ slice' = [slice EXCEPT ![p] = Reset(SliceCount[p])]
             /\ started' = started \ {p}
      BY <2>3 DEF SliceCompleted
    <3>3. ~NotRequested(table) /\ NotRequested(Reset(SliceCount[p]))
      BY <3>1, CompleteTouches, ResetIsUntouched
    <3>4. p \in started
      BY <2>3 DEF SliceCompleted
    <3>5. DOMAIN slice = Piece /\ started \in SUBSET Piece
      BY <1>2 DEF Inv, TypeOK
    <3> HIDE DEF table
    <3>6. QED
      BY <1>2, <3>2, <3>3, <3>4, <3>5 DEF NoStuckPiece
  <2>4. ASSUME NEW p \in Piece, NEW i \in 1..SliceCount[p], AbortRequest(p, i)
        PROVE  NoStuckPiece'
    <3> DEFINE table == AbortRequests(slice[p], {i})
    <3>1. slice[p] \in [1..SliceCount[p] -> SliceState] /\ SliceCount[p] \in Nat
      BY <1>2, PiecesAssumption DEF Inv, TypeOK
    <3>2. p \in started /\ slice' = [slice EXCEPT ![p] = table]
      BY <2>4 DEF AbortRequest
    <3>3. DOMAIN slice = Piece /\ started \in SUBSET Piece
      BY <1>2 DEF Inv, TypeOK
    <3>4. slice'[p] = table /\ \A q \in Piece : q # p => slice'[q] = slice[q]
      BY <3>2, <3>3
    <3>5. IF NotRequested(table) THEN started' = started \ {p} ELSE started' = started
      BY <2>4, <3>4 DEF AbortRequest
    <3>6. ~IsCompleted(table)
      BY <1>2, <3>1, <3>2, AbortFinishesNothing DEF NoStuckPiece
    <3> HIDE DEF table
    <3>7. QED
      BY <1>2, <3>2, <3>3, <3>4, <3>5, <3>6 DEF NoStuckPiece
  <2>5. CASE \E bitf \in SUBSET Piece : IncreaseHave(bitf) \/ DecreaseHave(bitf)
    BY <2>1, <2>5 DEF IncreaseHave, DecreaseHave
  <2>6. CASE WalkBit
    BY <2>1, <2>6 DEF WalkBit
  <2>7. CASE UNCHANGED vars
    BY <2>1, <2>7 DEF vars
  <2>8. QED
    BY <1>2, <2>2, <2>3, <2>4, <2>5, <2>6, <2>7 DEF Next
<1>3. QED
  BY InitInv, NextInv, <1>1, <1>2, PTL DEF Spec

(***************************************************************************)
(* The trackers.                                                           *)
(***************************************************************************)

(***************************************************************************)
(* The inductive invariant.                                                *)
(***************************************************************************)

Queue == Range(queue)
Once(s) == \A i, j \in DOMAIN s : s[i] = s[j] => i = j
Datagrams == {"connect", "connected", "announce", "announced"}
PC == Running \cup {"none", "pool", "loop", "dequeue", "wait", "timed out", "ended"}

\* The service has the request, or a tracker has.
IsHeld(r) == r \in Queue \/ \E t \in Thread : handed[t] = r \/ current[t] = r
HasTracker(r) == \E u \in Url : m_request[u] = r

ServiceShape ==
    /\ TrackerTypeOK
    /\ handed \in [Thread -> Request \cup {NoRequest}]
    /\ current \in [Thread -> Request \cup {NoRequest}]
    /\ count \in [Request -> Nat]

\* A request is in one place of the service: once in the queue, handed to one
\* thread, or run by one.
HeldOnce ==
    /\ Once(queue)
    /\ \A t, u \in Thread :
          /\ handed[t] = handed[u] => t = u \/ handed[t] = NoRequest
          /\ current[t] = current[u] => t = u \/ current[t] = NoRequest
          /\ handed[t] = current[u] => handed[t] = NoRequest
    /\ \A t \in Thread : handed[t] \notin Queue /\ current[t] \notin Queue

\* Who waits is in the queue of the waiters until something is handed to it.
WaitersOK ==
    /\ Once(wait_queue)
    /\ \A t \in Thread :
          /\ t \in Range(wait_queue) <=> pc[t] \in {"wait", "timed out"} /\ handed[t] = NoRequest
          /\ handed[t] # NoRequest => pc[t] \in {"wait", "timed out"}

\* A request has a reference of the service and one of its tracker.
CountOK ==
    \A r \in Request :
        count[r] = (IF IsHeld(r) THEN 1 ELSE 0) + (IF HasTracker(r) THEN 1 ELSE 0)
AskedOK ==
    /\ \A u, v \in Url : m_request[u] = m_request[v] => u = v \/ m_request[u] = NoRequest
    /\ \A u \in Url : m_request[u] # NoRequest => u \in trackers

\* A request is done only after its response is there, and is then with nobody
\* but the thread that is about to release it; its memory is new for the next.
Results == {"error", "page", "announced"}
ResultsOK ==
    /\ \A r \in Request : is_done[r] =>
          /\ response[r] \in Results /\ r \notin Queue
          /\ \A t \in Thread : handed[t] # r /\ (current[t] = r => pc[t] = "release")
    /\ \A t \in Thread :
          /\ pc[t] = "release" => is_done[current[t]]
          /\ pc[t] = "answered" => response[current[t]] \in Results
    /\ \A r \in Request : count[r] = 0 => response[r] = "none" /\ ~is_done[r]
    /\ \A u \in Url : m_request[u] # NoRequest => IsHeld(m_request[u]) \/ is_done[m_request[u]]

\* The service runs as long as there are trackers, and its threads while it does.
StopOK ==
    /\ ~is_started => trackers = {}
    /\ joining => ~is_started
    /\ ~is_started /\ ~joining => \A t \in Thread : pc[t] \in {"none", "ended"}

RequestsInv == ServiceShape /\ HeldOnce /\ WaitersOK /\ CountOK /\ AskedOK /\ ResultsOK /\ StopOK

(***************************************************************************)
(* Queues in which nothing is twice.                                       *)
(***************************************************************************)

LEMMA Appended ==
    ASSUME NEW S, NEW s \in Seq(S), NEW x \in S
    PROVE  /\ Append(s, x) \in Seq(S) /\ Range(Append(s, x)) = Range(s) \cup {x}
           /\ Once(s) /\ x \notin Range(s) => Once(Append(s, x))
<1>1. PICK new : new = Append(s, x)
  OBVIOUS
<1>2. /\ new \in Seq(S) /\ Len(s) \in Nat /\ DOMAIN s = 1..Len(s) /\ DOMAIN new = 1..(Len(s) + 1)
      /\ \A i \in 1..Len(s) : new[i] = s[i]
      /\ new[Len(s) + 1] = x
  BY <1>1, AppendProperties, LenProperties
<1>3. Range(new) = Range(s) \cup {x}
  BY <1>2 DEF Range
<1>4. ASSUME Once(s), x \notin Range(s) PROVE Once(new)
  <2>1. \A i \in DOMAIN s : s[i] # x
    BY <1>4 DEF Range
  <2>2. \A i, j \in DOMAIN new : new[i] = new[j] => i = j
    BY <1>2, <1>4, <2>1 DEF Once
  <2>3. QED
    BY <2>2 DEF Once
<1>5. QED
  BY <1>1, <1>2, <1>3, <1>4

LEMMA Shortened ==
    ASSUME NEW S, NEW s \in Seq(S), s # <<>>, Once(s)
    PROVE  /\ Tail(s) \in Seq(S) /\ Range(Tail(s)) = Range(s) \ {Head(s)} /\ Once(Tail(s))
           /\ Head(s) \in S /\ Head(s) \in Range(s)
<1>1. PICK new : new = Tail(s)
  OBVIOUS
<1>2. /\ new \in Seq(S) /\ Len(s) \in Nat /\ Len(s) # 0 /\ DOMAIN s = 1..Len(s)
      /\ Len(new) = Len(s) - 1 /\ DOMAIN new = 1..(Len(s) - 1)
      /\ \A i \in 1..(Len(s) - 1) : new[i] = s[i + 1]
  BY <1>1, HeadTailProperties, LenProperties, EmptySeq
<1>3. Head(s) = s[1] /\ 1 \in DOMAIN s /\ s[1] \in S
  BY <1>2, HeadTailProperties, ElementOfSeq
<1>4. \A y : y \in Range(new) => y \in Range(s) \ {s[1]}
  <2> SUFFICES ASSUME NEW i \in DOMAIN new PROVE new[i] \in Range(s) /\ new[i] # s[1]
    BY DEF Range
  <2>1. i + 1 \in DOMAIN s /\ i + 1 # 1 /\ new[i] = s[i + 1]
    BY <1>2
  <2>2. QED
    BY <2>1, <1>3 DEF Once, Range
<1>5. \A y : y \in Range(s) \ {s[1]} => y \in Range(new)
  <2> SUFFICES ASSUME NEW i \in DOMAIN s, s[i] # s[1] PROVE s[i] \in Range(new)
    BY DEF Range
  <2>1. i - 1 \in DOMAIN new /\ new[i - 1] = s[(i - 1) + 1] /\ (i - 1) + 1 = i
    BY <1>2
  <2>2. QED
    BY <2>1 DEF Range
<1>6. Once(new)
  <2> SUFFICES ASSUME NEW i \in DOMAIN new, NEW j \in DOMAIN new, new[i] = new[j] PROVE i = j
    BY DEF Once
  <2>1. s[i + 1] = s[j + 1] /\ i + 1 \in DOMAIN s /\ j + 1 \in DOMAIN s /\ i \in Nat /\ j \in Nat
    BY <1>2
  <2>2. i + 1 = j + 1
    BY <2>1 DEF Once
  <2>3. QED
    BY <2>1, <2>2
<1>7. Head(s) \in Range(s)
  BY <1>3 DEF Range
<1>8. Range(new) = Range(s) \ {s[1]}
  BY <1>4, <1>5
<1>9. QED
  BY <1>1, <1>2, <1>3, <1>6, <1>7, <1>8

LEMMA WithoutOne ==
    ASSUME NEW S, NEW s \in Seq(S), Once(s), NEW n \in 1..Len(s)
    PROVE  /\ RemoveAt(s, n) \in Seq(S) /\ Range(RemoveAt(s, n)) = Range(s) \ {s[n]}
           /\ Once(RemoveAt(s, n))
<1>1. PICK new : new = RemoveAt(s, n)
  OBVIOUS
<1>2. Len(s) \in Nat /\ DOMAIN s = 1..Len(s) /\ s \in [1..Len(s) -> S]
  BY LenProperties
<1>3. PICK front : front = SubSeq(s, 1, n - 1)
  OBVIOUS
<1>4. PICK back : back = SubSeq(s, n + 1, Len(s))
  OBVIOUS
<1>5. /\ front \in Seq(S) /\ Len(front) = n - 1
      /\ \A i \in 1..(n - 1) : front[i] = s[i]
  BY <1>2, <1>3, SubSeqProperties
<1>6. /\ back \in Seq(S) /\ Len(back) = Len(s) - n
      /\ \A i \in 1..(Len(s) - n) : back[i] = s[n + i]
  <2>1. \A i \in (n + 1)..Len(s) : s[i] \in S
    BY <1>2
  <2>2. QED
    BY <1>2, <1>4, <2>1, SubSeqProperties
<1>7. /\ new \in Seq(S) /\ Len(new) = Len(s) - 1 /\ DOMAIN new = 1..(Len(s) - 1)
      /\ \A i \in 1..(Len(s) - 1) : new[i] = IF i < n THEN s[i] ELSE s[i + 1]
  <2>1. new = front \o back
    BY <1>1, <1>3, <1>4 DEF RemoveAt
  <2>2. /\ new \in Seq(S) /\ Len(new) = Len(front) + Len(back)
        /\ \A i \in 1..(Len(front) + Len(back)) :
              new[i] = IF i <= Len(front) THEN front[i] ELSE back[i - Len(front)]
    <3>1. front \in Seq(S) /\ back \in Seq(S)
      BY <1>5, <1>6
    <3>2. QED
      BY <2>1, <3>1, ConcatProperties
  <2>3. ASSUME NEW i \in 1..(Len(s) - 1), ~(i < n) PROVE new[i] = s[i + 1]
    <3>1. /\ i - (n - 1) \in 1..(Len(s) - n) /\ n + (i - (n - 1)) = i + 1
          /\ ~(i <= Len(front)) /\ i \in 1..(Len(front) + Len(back))
      BY <2>3, <2>2, <1>2, <1>5, <1>6
    <3>2. new[i] = back[i - (n - 1)]
      BY <3>1, <2>2, <1>5
    <3>3. QED
      BY <3>1, <3>2, <1>6
  <2>4. ASSUME NEW i \in 1..(Len(s) - 1), i < n PROVE new[i] = s[i]
    <3>1. i <= Len(front) /\ i \in 1..(Len(front) + Len(back)) /\ i \in 1..(n - 1)
      BY <2>4, <1>2, <1>5, <1>6
    <3>2. QED
      BY <3>1, <2>2, <1>5
  <2>5. Len(new) = Len(s) - 1
    BY <2>2, <1>2, <1>5, <1>6
  <2>6. QED
    BY <2>2, <2>3, <2>4, <2>5, LenProperties
<1>8. \A i \in DOMAIN new : \E j \in DOMAIN s : j # n /\ new[i] = s[j] /\ j = IF i < n THEN i ELSE i + 1
  BY <1>2, <1>7
<1>9. Once(new)
  <2> SUFFICES ASSUME NEW i \in DOMAIN new, NEW j \in DOMAIN new, new[i] = new[j] PROVE i = j
    BY DEF Once
  <2>1. PICK a \in DOMAIN s : new[i] = s[a] /\ a = IF i < n THEN i ELSE i + 1
    BY <1>8
  <2>2. PICK b \in DOMAIN s : new[j] = s[b] /\ b = IF j < n THEN j ELSE j + 1
    BY <1>8
  <2>3. a = b
    BY <2>1, <2>2 DEF Once
  <2>4. QED
    BY <2>1, <2>2, <2>3, <1>2, <1>7
<1>10. \A y : y \in Range(new) => y \in Range(s) \ {s[n]}
  <2> SUFFICES ASSUME NEW i \in DOMAIN new PROVE new[i] \in Range(s) /\ new[i] # s[n]
    BY DEF Range
  <2>1. PICK j \in DOMAIN s : j # n /\ new[i] = s[j]
    BY <1>8
  <2>2. s[j] # s[n]
    BY <2>1, <1>2 DEF Once
  <2>3. QED
    BY <2>1, <2>2 DEF Range
<1>11. \A y : y \in Range(s) \ {s[n]} => y \in Range(new)
  <2> SUFFICES ASSUME NEW j \in DOMAIN s, s[j] # s[n] PROVE s[j] \in Range(new)
    BY DEF Range
  <2>1. CASE j < n
    <3>1. j \in DOMAIN new /\ new[j] = s[j]
      BY <2>1, <1>2, <1>7
    <3>2. QED
      BY <3>1 DEF Range
  <2>2. CASE j > n
    <3>1. j - 1 \in DOMAIN new /\ ~(j - 1 < n) /\ (j - 1) + 1 = j
      BY <2>2, <1>2, <1>7
    <3>2. new[j - 1] = s[j]
      BY <3>1, <1>7
    <3>3. QED
      BY <3>1, <3>2 DEF Range
  <2>3. QED
    BY <2>1, <2>2, <1>2
<1>12. Range(new) = Range(s) \ {s[n]}
  BY <1>10, <1>11
<1>13. QED
  BY <1>1, <1>7, <1>9, <1>12

LEMMA TakenOut ==
    ASSUME NEW S, NEW s \in Seq(S), Once(s), NEW e
    PROVE  /\ RemoveFirst(s, e) \in Seq(S) /\ Range(RemoveFirst(s, e)) = Range(s) \ {e}
           /\ Once(RemoveFirst(s, e))
<1> DEFINE I == {i \in 1..Len(s) : s[i] = e}
<1>0. Len(s) \in Nat /\ DOMAIN s = 1..Len(s)
  BY LenProperties
<1>1. CASE I = {}
  <2>1. RemoveFirst(s, e) = s
    BY <1>1 DEF RemoveFirst
  <2>2. e \notin Range(s)
    BY <1>0, <1>1 DEF Range
  <2>3. Range(s) = Range(s) \ {e}
    BY <2>2
  <2>4. QED
    BY <2>1, <2>3
<1>2. CASE I # {}
  <2>2. I \in SUBSET Nat
    BY <1>0
  <2>3. \E x \in I : \A y \in I : x <= y
    BY <1>2, <2>2, NatMin
  <2>4. Min(I) \in I
    BY <2>3 DEF Min
  <2>6. RemoveFirst(s, e) = RemoveAt(s, Min(I))
    BY <1>2 DEF RemoveFirst, SelectInSeq
  <2>7. PICK n \in 1..Len(s) : n = Min(I) /\ s[n] = e
    BY <2>4
  <2>8. RemoveFirst(s, e) = RemoveAt(s, n) /\ s[n] = e
    BY <2>6, <2>7
  <2>9. QED
    BY <2>8, WithoutOne
<1>3. QED
  BY <1>1, <1>2

(***************************************************************************)
(* The steps of the threads.                                               *)
(***************************************************************************)

LEMMA RequestsInit == TrackerInit => RequestsInv
<1> SUFFICES ASSUME TrackerInit PROVE RequestsInv
  OBVIOUS
<1> USE ServiceAssumption DEF TrackerInit, InitService, InitExchange
<1>1. queue = <<>> /\ Queue = {} /\ Range(wait_queue) = {} /\ Once(queue) /\ Once(wait_queue)
  BY DEF Queue, Range, Once
<1>2. ServiceShape
  <2>1. <<>> \in Seq(Request) /\ <<>> \in Seq(Thread)
    BY EmptySeq
  <2>2. ServiceOK
    BY <2>1 DEF ServiceOK, Running
  <2>3. ExchangeOK /\ trackers \subseteq Url /\ m_request \in [Url -> Request \cup {NoRequest}]
    BY DEF ExchangeOK
  <2>4. QED
    BY <2>2, <2>3 DEF ServiceShape, TrackerTypeOK
<1>3. HeldOnce /\ WaitersOK
  BY <1>1 DEF HeldOnce, WaitersOK
<1>4. CountOK
  BY <1>1 DEF CountOK, IsHeld, HasTracker
<1>5. AskedOK /\ ResultsOK /\ StopOK
  BY <1>1 DEF AskedOK, ResultsOK, StopOK, Results
<1>6. QED
  BY <1>2, <1>3, <1>4, <1>5 DEF RequestsInv

\* Where no count changes, no request is deleted.
LEMMA NothingDeleted ==
    ASSUME ServiceShape, ResultsOK, Deleted, UNCHANGED count
    PROVE  response' = response /\ is_done' = is_done /\ wire' = wire
<1>1. \A r \in Request : response'[r] = response[r] /\ is_done'[r] = is_done[r]
  BY DEF Deleted, ResultsOK, ServiceShape, TrackerTypeOK, ExchangeOK
<1>2. response \in [Request -> {"none", "error", "page", "announced", "connected"}]
      /\ is_done \in [Request -> BOOLEAN]
  BY DEF ServiceShape, TrackerTypeOK, ExchangeOK
<1>3. response' \in [Request -> {"none", "error", "page", "announced", "connected"}]
      /\ is_done' \in [Request -> BOOLEAN]
  BY <1>2 DEF Deleted, ServiceShape
<1>4. QED
  BY <1>1, <1>2, <1>3 DEF Deleted

LEMMA QueueType ==
    ASSUME ServiceShape
    PROVE  Queue \subseteq Request /\ NoRequest \notin Queue
<1>1. queue \in Seq(Request)
  BY DEF ServiceShape, TrackerTypeOK, ServiceOK
<1>2. \A i \in DOMAIN queue : queue[i] \in Request
  BY <1>1, LenProperties, ElementOfSeq
<1>3. QED
  BY <1>2, ServiceAssumption DEF Queue, Range

\* A thread goes on with what it has: its request, or its place in the queue of
\* the waiters.
LEMMA ThreadGoes ==
    ASSUME RequestsInv, NEW t \in Thread, NEW from \in PC, NEW to \in PC, At(t, from, to),
           UNCHANGED <<is_started, joining, queue, wait_queue, handed, current, count,
                       task, response, is_done>>,
           wire' \in [Thread -> SUBSET Datagrams],
           from \notin {"none", "ended"}, from \in Running <=> to \in Running,
           from \in {"wait", "timed out"} <=> to \in {"wait", "timed out"},
           from # "release",
           to = "release" => is_done[current[t]],
           to = "answered" => response[current[t]] \in Results
    PROVE  RequestsInv'
<1> USE DEF RequestsInv
<1>1. pc' = [pc EXCEPT ![t] = to] /\ pc[t] = from /\ pc \in [Thread -> PC] /\ pc' \in [Thread -> PC]
  BY DEF At, ServiceShape, TrackerTypeOK, ServiceOK, PC
<1>2. ServiceShape'
  BY <1>1 DEF ServiceShape, TrackerTypeOK, ServiceOK, ExchangeOK, Datagrams, PC, task
<1>3. HeldOnce'
  BY DEF HeldOnce, Queue
<1>4. WaitersOK'
  BY <1>1 DEF WaitersOK
<1>5. CountOK' /\ AskedOK'
  BY DEF CountOK, AskedOK, IsHeld, HasTracker, Queue, task
<1>6. ResultsOK'
  BY <1>1 DEF ResultsOK, IsHeld, Queue, task
<1>7. StopOK'
  BY <1>1 DEF StopOK, task
<1>8. QED
  BY <1>2, <1>3, <1>4, <1>5, <1>6, <1>7

LEMMA ReturnsInv ==
    ASSUME RequestsInv, NEW t \in Thread, NEW from \in Running \ {"answered", "release"},
           NEW result \in Results, Returns(t, from, result), UNCHANGED task
    PROVE  RequestsInv'
<1> USE DEF RequestsInv, Returns, InThread, task
<1>1. /\ pc' = [pc EXCEPT ![t] = "answered"] /\ pc[t] = from
      /\ pc \in [Thread -> PC] /\ pc' \in [Thread -> PC]
  BY DEF At, ServiceShape, TrackerTypeOK, ServiceOK, PC, Running
<1>2. /\ current[t] \in Request /\ response' = [response EXCEPT ![current[t]] = result]
      /\ \A u \in Thread : current[u] = current[t] => u = t
  BY <1>1 DEF ServiceShape, TrackerTypeOK, ServiceOK, HeldOnce
<1>3. ServiceShape'
  <2>1. ServiceOK'
    BY <1>1 DEF ServiceShape, TrackerTypeOK, ServiceOK, PC, Running
  <2>2. ExchangeOK'
    BY <1>2 DEF ServiceShape, TrackerTypeOK, ExchangeOK, Results
  <2>3. QED
    BY <2>1, <2>2 DEF ServiceShape, TrackerTypeOK
<1>4. HeldOnce' /\ CountOK' /\ AskedOK'
  BY DEF HeldOnce, Queue, CountOK, AskedOK, IsHeld, HasTracker
<1>5. WaitersOK' /\ StopOK'
  BY <1>1 DEF WaitersOK, StopOK, Running
<1>6. ResultsOK'
  <2>1. \A r \in Request : response'[r] = IF r = current[t] THEN result ELSE response[r]
    BY <1>2 DEF ServiceShape, TrackerTypeOK, ExchangeOK
  <2>2. \A r \in Request : is_done'[r] =>
          /\ response'[r] \in Results /\ r \notin Queue'
          /\ \A u \in Thread : handed'[u] # r /\ (current'[u] = r => pc'[u] = "release")
    BY <1>1, <2>1, <1>2 DEF ResultsOK, Queue
  <2>3. \A u \in Thread :
          /\ pc'[u] = "release" => is_done'[current'[u]]
          /\ pc'[u] = "answered" => response'[current'[u]] \in Results
    <3> SUFFICES ASSUME NEW u \in Thread
                 PROVE  /\ pc'[u] = "release" => is_done'[current'[u]]
                        /\ pc'[u] = "answered" => response'[current'[u]] \in Results
      OBVIOUS
    <3>1. CASE u = t
      BY <3>1, <1>1, <1>2, <2>1
    <3>2. CASE u # t
      <4>1. pc'[u] = pc[u] /\ current'[u] = current[u] /\ is_done' = is_done
        BY <3>2, <1>1
      <4>2. pc[u] = "answered" => current[u] \in Request /\ current[u] # current[t]
        BY <3>2, <1>2 DEF ServiceShape, TrackerTypeOK, ServiceOK, Running
      <4>3. QED
        BY <4>1, <4>2, <2>1 DEF ResultsOK
    <3>3. QED
      BY <3>1, <3>2
  <2>4. \A r \in Request : count'[r] = 0 => response'[r] = "none" /\ ~is_done'[r]
    <3>1. count[current[t]] # 0
      BY <1>2 DEF CountOK, IsHeld
    <3>2. QED
      BY <3>1, <2>1 DEF ResultsOK
  <2>5. \A u \in Url : m_request'[u] # NoRequest => IsHeld(m_request[u])' \/ is_done'[m_request'[u]]
    BY DEF ResultsOK, IsHeld, Queue
  <2>6. QED
    BY <2>2, <2>3, <2>4, <2>5 DEF ResultsOK
<1>7. QED
  BY <1>3, <1>4, <1>5, <1>6

LEMMA DoneInv ==
    ASSUME RequestsInv, NEW t \in Thread, Done(t), UNCHANGED task
    PROVE  RequestsInv'
<1> USE DEF RequestsInv, Done, InThread, task
<1>1. /\ pc' = [pc EXCEPT ![t] = "release"] /\ pc[t] = "answered"
      /\ pc \in [Thread -> PC] /\ pc' \in [Thread -> PC]
  BY DEF At, ServiceShape, TrackerTypeOK, ServiceOK, PC, Running
<1>2. /\ current[t] \in Request /\ is_done' = [is_done EXCEPT ![current[t]] = TRUE]
      /\ \A u \in Thread : current[u] = current[t] => u = t
      /\ response[current[t]] \in Results
  BY <1>1 DEF ServiceShape, TrackerTypeOK, ServiceOK, HeldOnce, Running, ResultsOK
<1>3. ServiceShape'
  <2>1. ServiceOK'
    BY <1>1 DEF ServiceShape, TrackerTypeOK, ServiceOK, PC, Running
  <2>2. ExchangeOK'
    BY <1>2 DEF ServiceShape, TrackerTypeOK, ExchangeOK
  <2>3. QED
    BY <2>1, <2>2 DEF ServiceShape, TrackerTypeOK
<1>4. HeldOnce' /\ CountOK' /\ AskedOK'
  BY DEF HeldOnce, Queue, CountOK, AskedOK, IsHeld, HasTracker
<1>5. WaitersOK' /\ StopOK'
  BY <1>1 DEF WaitersOK, StopOK, Running
<1>6. ResultsOK'
  <2>1. \A r \in Request : is_done'[r] <=> r = current[t] \/ is_done[r]
    BY <1>2 DEF ServiceShape, TrackerTypeOK, ExchangeOK
  <2>2. ASSUME NEW r \in Request, is_done'[r]
        PROVE  /\ response'[r] \in Results /\ r \notin Queue'
               /\ \A u \in Thread : handed'[u] # r /\ (current'[u] = r => pc'[u] = "release")
    <3>1. CASE r = current[t]
      <4>1. r \notin Queue /\ \A u \in Thread : handed[u] # r
        BY <3>1, <1>2, ServiceAssumption DEF HeldOnce
      <4>2. QED
        BY <3>1, <4>1, <1>1, <1>2 DEF Queue
    <3>2. CASE r # current[t]
      BY <3>2, <2>1, <2>2, <1>1 DEF ResultsOK, Queue
    <3>3. QED
      BY <3>1, <3>2
  <2>3. \A u \in Thread :
          /\ pc'[u] = "release" => is_done'[current'[u]]
          /\ pc'[u] = "answered" => response'[current'[u]] \in Results
    <3>1. \A u \in Thread : pc'[u] = "release" => current[u] \in Request
      BY <1>1, <1>2 DEF ServiceShape, TrackerTypeOK, ServiceOK, Running
    <3>2. QED
      BY <3>1, <1>1, <1>2, <2>1 DEF ResultsOK
  <2>4. \A r \in Request : count'[r] = 0 => response'[r] = "none" /\ ~is_done'[r]
    <3>1. count[current[t]] # 0
      BY <1>2 DEF CountOK, IsHeld
    <3>2. QED
      BY <3>1, <2>1 DEF ResultsOK
  <2>5. \A u \in Url : m_request'[u] # NoRequest => IsHeld(m_request[u])' \/ is_done'[m_request'[u]]
    <3>1. \A u \in Url : m_request[u] # NoRequest => m_request[u] \in Request
      BY DEF ServiceShape, TrackerTypeOK
    <3>2. QED
      BY <3>1, <2>1 DEF ResultsOK, IsHeld, Queue
  <2>6. QED
    BY <2>2, <2>3, <2>4, <2>5 DEF ResultsOK
<1>7. QED
  BY <1>3, <1>4, <1>5, <1>6

LEMMA RunInv ==
    ASSUME RequestsInv, NEW t \in Thread, Run(t), UNCHANGED task
    PROVE  RequestsInv'
<1> USE DEF RequestsInv, Results
<1>1. Running \subseteq PC /\ wire \in [Thread -> SUBSET Datagrams]
  BY DEF PC, ServiceShape, TrackerTypeOK, ExchangeOK, Datagrams
<1>2. ASSUME NEW from \in Running \ {"answered", "release"},
             NEW to \in Running \ {"answered", "release"},
             Goes(t, from, to)
      PROVE  RequestsInv'
  BY <1>1, <1>2, ThreadGoes DEF Goes, InThread, exchange, Running
<1>3. ASSUME NEW from \in Running \ {"answered", "release"},
             NEW to \in Running \ {"answered", "release"},
             NEW d \in {"connect", "announce"}, Sends(t, from, to, d)
      PROVE  RequestsInv'
  <2>1. wire' \in [Thread -> SUBSET Datagrams]
    BY <1>1, <1>3 DEF Sends, Datagrams
  <2>2. QED
    BY <1>1, <1>3, <2>1, ThreadGoes DEF Sends, InThread, Running
<1>4. CASE Begins(t)
  BY <1>4, <1>2 DEF Begins, Running
<1>5. CASE HttpEnds(t)
  BY <1>5, ReturnsInv DEF HttpEnds, Running
<1>6. CASE Redirected(t)
  BY <1>6, <1>2 DEF Redirected, Running
<1>7. CASE ResetNewUrl(t)
  BY <1>7, <1>2, ReturnsInv DEF ResetNewUrl, Running
<1>8. CASE AsksConnection(t)
  BY <1>8, <1>3, ReturnsInv DEF AsksConnection, Running
<1>9. CASE Announces(t)
  BY <1>9, <1>3, ReturnsInv DEF Announces, Running
<1>10. CASE GetTrackerResponse(t)
  BY <1>10, ReturnsInv DEF GetTrackerResponse, Running
<1>11. CASE Done(t)
  BY <1>11, DoneInv
<1>12. QED
  BY <1>4, <1>5, <1>6, <1>7, <1>8, <1>9, <1>10, <1>11 DEF Run

LEMMA HostInv ==
    ASSUME RequestsInv, NEW t \in Thread, Host(t), UNCHANGED task
    PROVE  RequestsInv'
<1> USE DEF RequestsInv, Host, service, task
<1>1. wire' \in [Thread -> SUBSET Datagrams]
  BY DEF ServiceShape, TrackerTypeOK, ExchangeOK, Datagrams
<1>2. ServiceShape'
  BY <1>1 DEF ServiceShape, TrackerTypeOK, ServiceOK, ExchangeOK, Datagrams
<1>3. HeldOnce' /\ WaitersOK' /\ CountOK' /\ AskedOK' /\ StopOK'
  BY DEF HeldOnce, WaitersOK, CountOK, AskedOK, StopOK, IsHeld, HasTracker, Queue
<1>4. ResultsOK'
  BY DEF ResultsOK, IsHeld, Queue
<1>5. QED
  BY <1>2, <1>3, <1>4

\* A thread takes a request from the queue, or the one that was handed to it.
LEMMA RequestTaken ==
    ASSUME RequestsInv, NEW t \in Thread, NEW from \in {"dequeue", "wait", "timed out"}, NEW r \in Request,
           At(t, from, "run"), Takes(t, r), Deleted, t \notin Range(wait_queue),
           UNCHANGED <<is_started, joining, wait_queue, count, task>>,
           queue' \in Seq(Request), Once(queue'),
           handed' \in [Thread -> Request \cup {NoRequest}],
           handed'[t] = NoRequest, \A u \in Thread \ {t} : handed'[u] = handed[u],
           \/ r \in Queue /\ handed[t] = NoRequest /\ Queue' = Queue \ {r}
           \/ r = handed[t] /\ Queue' = Queue
    PROVE  RequestsInv'
<1> USE ServiceAssumption DEF RequestsInv, task
<1>1. /\ pc' = [pc EXCEPT ![t] = "run"] /\ pc[t] = from
      /\ pc \in [Thread -> PC] /\ pc' \in [Thread -> PC]
  BY DEF At, ServiceShape, TrackerTypeOK, ServiceOK, PC, Running
<1>2. /\ current[t] = NoRequest /\ current' = [current EXCEPT ![t] = r]
      /\ current' \in [Thread -> Request \cup {NoRequest}]
      /\ \A u \in Thread : current'[u] = IF u = t THEN r ELSE current[u]
  BY <1>1 DEF ServiceShape, TrackerTypeOK, ServiceOK, Running, Takes
<1>3. response' = response /\ is_done' = is_done /\ wire' = wire
  BY NothingDeleted
<1>4. ServiceShape'
  <2>1. ServiceOK'
    BY <1>1, <1>2 DEF ServiceShape, TrackerTypeOK, ServiceOK, PC, Running
  <2>2. QED
    BY <1>2, <1>3, <2>1 DEF ServiceShape, TrackerTypeOK, ExchangeOK
<1>5. /\ r \notin Queue' /\ \A u \in Thread : handed'[u] # r /\ current[u] # r
      /\ \A u \in Thread : handed'[u] # NoRequest => handed'[u] = handed[u]
      /\ Queue' \subseteq Queue
  <2>1. \A u \in Thread : handed'[u] # NoRequest => u # t /\ handed'[u] = handed[u]
    OBVIOUS
  <2>2. r \notin Queue' /\ Queue' \subseteq Queue
    BY DEF HeldOnce
  <2>3. \A u \in Thread : handed'[u] # r /\ current[u] # r
    <3>1. r # NoRequest
      OBVIOUS
    <3>2. QED
      BY <2>1, <3>1 DEF HeldOnce
  <2>4. QED
    BY <2>1, <2>2, <2>3
<1>6. HeldOnce'
  <2>1. \A u, v \in Thread :
          /\ handed'[u] = handed'[v] => u = v \/ handed'[u] = NoRequest
          /\ handed[u] = handed[v] => u = v \/ handed[u] = NoRequest
    BY <1>5 DEF HeldOnce
  <2>2. \A u, v \in Thread : current'[u] = current'[v] => u = v \/ current'[u] = NoRequest
    BY <1>2, <1>5 DEF HeldOnce
  <2>3. \A u, v \in Thread : handed'[u] = current'[v] => handed'[u] = NoRequest
    <3> SUFFICES ASSUME NEW u \in Thread, NEW v \in Thread,
                        handed'[u] = current'[v], handed'[u] # NoRequest
                 PROVE  FALSE
      OBVIOUS
    <3>1. v # t /\ handed[u] = current[v] /\ handed[u] # NoRequest
      BY <1>2, <1>5
    <3>2. QED
      BY <3>1 DEF HeldOnce
  <2>4. \A u \in Thread : handed'[u] \notin Queue' /\ current'[u] \notin Queue'
    <3>1. NoRequest \notin Queue
      BY <1>2 DEF HeldOnce
    <3>2. QED
      BY <3>1, <1>2, <1>5 DEF HeldOnce
  <2>5. QED
    BY <2>1, <2>2, <2>3, <2>4 DEF HeldOnce
<1>7. WaitersOK'
  BY <1>1 DEF WaitersOK
<1>8. \A x \in Request : IsHeld(x)' <=> IsHeld(x)
  BY <1>2, <1>5 DEF IsHeld
<1>9. CountOK' /\ AskedOK'
  BY <1>8 DEF CountOK, AskedOK, HasTracker
<1>10. ResultsOK'
  <2>1. is_done[r] => r \notin Queue /\ handed[t] # r
    BY DEF ResultsOK
  <2>2. \A u \in Url : m_request[u] # NoRequest => m_request[u] \in Request
    BY DEF ServiceShape, TrackerTypeOK
  <2>3. \A u \in Url : m_request'[u] # NoRequest => IsHeld(m_request[u])' \/ is_done'[m_request'[u]]
    BY <1>3, <1>8, <2>2 DEF ResultsOK, IsHeld
  <2>4. \A x \in Request : is_done[x] =>
          /\ response[x] \in Results /\ x \notin Queue'
          /\ \A u \in Thread : handed'[u] # x /\ (current'[u] = x => pc'[u] = "release")
    <3> SUFFICES ASSUME NEW x \in Request, is_done[x]
                 PROVE  /\ response[x] \in Results /\ x \notin Queue'
                        /\ \A u \in Thread : /\ handed'[u] # x
                                             /\ current'[u] = x => pc'[u] = "release"
      OBVIOUS
    <3>1. /\ x # r /\ response[x] \in Results /\ x \notin Queue
          /\ \A u \in Thread : handed[u] # x /\ (current[u] = x => pc[u] = "release")
      BY <2>1 DEF ResultsOK
    <3>2. \A u \in Thread : handed'[u] # x
      BY <3>1, <1>5
    <3>3. \A u \in Thread : current'[u] = x => pc'[u] = "release"
      BY <3>1, <1>1, <1>2
    <3>4. QED
      BY <3>1, <3>2, <3>3, <1>5
  <2>5. \A u \in Thread :
          /\ pc'[u] = "release" => is_done[current'[u]]
          /\ pc'[u] = "answered" => response[current'[u]] \in Results
    BY <1>1, <1>2 DEF ResultsOK
  <2>6. QED
    BY <1>3, <2>3, <2>4, <2>5 DEF ResultsOK
<1>11. StopOK'
  BY <1>1 DEF StopOK
<1>12. QED
  BY <1>4, <1>6, <1>7, <1>9, <1>10, <1>11

LEMMA DequeueInv ==
    ASSUME RequestsInv, NEW t \in Thread, Dequeue(t), Deleted, UNCHANGED task
    PROVE  RequestsInv'
<1>1. queue \in Seq(Request) /\ queue # <<>> /\ Once(queue) /\ queue' = Tail(queue)
  BY DEF Dequeue, RequestsInv, ServiceShape, TrackerTypeOK, ServiceOK, HeldOnce
<1>2. PICK r \in Request : r = Head(queue) /\ r \in Queue /\ Queue' = Queue \ {r}
  BY <1>1, Shortened DEF Queue
<1>3. queue' \in Seq(Request) /\ Once(queue')
  BY <1>1, Shortened
<1>4. t \notin Range(wait_queue) /\ handed[t] = NoRequest
  BY DEF Dequeue, At, RequestsInv, WaitersOK
<1>5. handed' \in [Thread -> Request \cup {NoRequest}]
  BY DEF Dequeue, RequestsInv, ServiceShape
<1>6. QED
  BY <1>2, <1>3, <1>4, <1>5, RequestTaken DEF Dequeue

LEMMA HandedInv ==
    ASSUME RequestsInv, NEW t \in Thread, Woken(t) \/ HandedAfterAll(t), Deleted, UNCHANGED task
    PROVE  RequestsInv'
<1>1. PICK from \in {"wait", "timed out"} : At(t, from, "run")
  BY DEF Woken, HandedAfterAll
<1>2. handed[t] # NoRequest /\ t \notin Range(wait_queue)
  BY <1>1 DEF Woken, HandedAfterAll, At, RequestsInv, WaitersOK
<1>3. /\ UNCHANGED <<is_started, joining, wait_queue, queue, count>>
      /\ Takes(t, handed[t]) /\ handed' = [handed EXCEPT ![t] = NoRequest]
  BY DEF Woken, HandedAfterAll
<1>4. PICK r \in Request : r = handed[t]
  BY <1>2 DEF RequestsInv, ServiceShape
<1>5. /\ handed' \in [Thread -> Request \cup {NoRequest}] /\ handed'[t] = NoRequest
      /\ \A u \in Thread \ {t} : handed'[u] = handed[u]
      /\ queue' \in Seq(Request) /\ Once(queue') /\ Queue' = Queue
  BY <1>3 DEF RequestsInv, ServiceShape, TrackerTypeOK, ServiceOK, HeldOnce, Queue
<1>6. QED
  BY <1>1, <1>2, <1>3, <1>4, <1>5, RequestTaken

\* The threads that wait.
LEMMA WaitersInv ==
    ASSUME RequestsInv, NEW t \in Thread, Wait(t) \/ GiveUp(t), Deleted, UNCHANGED task
    PROVE  RequestsInv'
<1> USE DEF RequestsInv, task
<1>1. UNCHANGED <<is_started, joining, queue, handed, current, count, task>>
  BY DEF Wait, GiveUp
<1>2. response' = response /\ is_done' = is_done /\ wire' = wire
  BY <1>1, NothingDeleted
<1>3. wait_queue \in Seq(Thread) /\ Once(wait_queue) /\ pc \in [Thread -> PC]
  BY DEF ServiceShape, TrackerTypeOK, ServiceOK, WaitersOK, PC
<1>4. PICK to \in {"wait", "loop"} :
          /\ pc' = [pc EXCEPT ![t] = to] /\ pc[t] \in {"dequeue", "timed out"}
          /\ wait_queue' \in Seq(Thread) /\ Once(wait_queue')
          /\ Range(wait_queue') = IF to = "wait" THEN Range(wait_queue) \cup {t}
                                                 ELSE Range(wait_queue) \ {t}
          /\ handed[t] = NoRequest
  <2>1. CASE Wait(t)
    <3>1. t \notin Range(wait_queue) /\ handed[t] = NoRequest
      BY <2>1 DEF Wait, At, WaitersOK
    <3>2. QED
      BY <2>1, <3>1, <1>3, Appended DEF Wait, At
  <2>2. CASE GiveUp(t)
    <3>1. handed[t] = NoRequest
      BY <2>2 DEF GiveUp, At, WaitersOK
    <3>2. QED
      BY <2>2, <3>1, <1>3, TakenOut DEF GiveUp, At
  <2>3. QED
    BY <2>1, <2>2
<1>5. ServiceShape'
  BY <1>1, <1>2, <1>3, <1>4 DEF ServiceShape, TrackerTypeOK, ServiceOK, ExchangeOK, PC, Running
<1>6. HeldOnce' /\ CountOK' /\ AskedOK'
  BY <1>1 DEF HeldOnce, Queue, CountOK, AskedOK, IsHeld, HasTracker
<1>7. WaitersOK'
  BY <1>1, <1>3, <1>4 DEF WaitersOK
<1>8. ResultsOK' /\ StopOK'
  <2>1. \A u \in Thread : u # t => pc'[u] = pc[u]
    BY <1>3, <1>4
  <2>2. pc'[t] \in {"wait", "loop"} /\ pc[t] \in {"dequeue", "timed out"}
    BY <1>3, <1>4
  <2>3. current[t] = NoRequest
    BY <2>2 DEF ServiceShape, TrackerTypeOK, ServiceOK, Running
  <2>4. ResultsOK'
    <3>1. \A r \in Request : is_done[r] =>
            /\ response[r] \in Results /\ r \notin Queue
            /\ \A u \in Thread : handed[u] # r /\ (current[u] = r => pc'[u] = "release")
      BY <2>1, <2>3, ServiceAssumption DEF ResultsOK
    <3>2. \A u \in Thread :
            /\ pc'[u] = "release" => is_done[current[u]]
            /\ pc'[u] = "answered" => response[current[u]] \in Results
      BY <2>1, <2>2 DEF ResultsOK
    <3>3. \A u \in Url : m_request'[u] # NoRequest => IsHeld(m_request[u])' \/ is_done'[m_request'[u]]
      BY <1>1, <1>2 DEF ResultsOK, IsHeld, Queue
    <3>4. QED
      BY <1>1, <1>2, <3>1, <3>2, <3>3 DEF ResultsOK, Queue
  <2>5. StopOK'
    BY <1>1, <2>1, <2>2 DEF StopOK
  <2>6. QED
    BY <2>4, <2>5
<1>9. QED
  BY <1>5, <1>6, <1>7, <1>8

\* What is deleted, and what stays.
LEMMA DeletedFacts ==
    ASSUME ServiceShape, Deleted
    PROVE  /\ ExchangeOK' /\ wire' = wire
           /\ \A r \in Request : response'[r] = IF count'[r] = 0 THEN "none" ELSE response[r]
           /\ \A r \in Request : is_done'[r] <=> count'[r] # 0 /\ is_done[r]
BY DEF ServiceShape, TrackerTypeOK, ExchangeOK, Deleted

LEMMA ReleaseInv ==
    ASSUME RequestsInv, NEW t \in Thread, Release(t), Deleted, UNCHANGED task
    PROVE  RequestsInv'
<1> USE ServiceAssumption DEF RequestsInv, task
<1>1. /\ UNCHANGED <<is_started, joining, queue, wait_queue, handed>>
      /\ pc' = [pc EXCEPT ![t] = "loop"] /\ pc[t] = "release"
      /\ pc \in [Thread -> PC] /\ pc' \in [Thread -> PC]
  BY DEF Release, At, ServiceShape, TrackerTypeOK, ServiceOK, PC, Running
<1>2. PICK r \in Request : r = current[t]
  BY <1>1 DEF ServiceShape, TrackerTypeOK, ServiceOK, Running
<1>3. /\ count' = [count EXCEPT ![r] = @ - 1]
      /\ \A u \in Thread : current'[u] = IF u = t THEN NoRequest ELSE current[u]
      /\ current' \in [Thread -> Request \cup {NoRequest}]
  BY <1>2 DEF Release, ServiceShape
<1>4. /\ r \notin Queue /\ \A u \in Thread : handed[u] # r /\ (current[u] = r => u = t)
      /\ is_done[r]
  BY <1>1, <1>2 DEF HeldOnce, ResultsOK
<1>5. \A x \in Request : IsHeld(x)' <=> IsHeld(x) /\ x # r
  BY <1>1, <1>2, <1>3, <1>4 DEF IsHeld, Queue
<1>6. CountOK' /\ \A x \in Request : count'[x] = IF x = r THEN count[x] - 1 ELSE count[x]
  BY <1>2, <1>3, <1>5 DEF CountOK, IsHeld, HasTracker, ServiceShape
<1>7. ServiceShape'
  <2>1. count' \in [Request -> Nat]
    BY <1>3, <1>6 DEF CountOK, ServiceShape
  <2>2. ServiceOK'
    BY <1>1, <1>3 DEF ServiceShape, TrackerTypeOK, ServiceOK, PC, Running
  <2>3. QED
    BY <1>1, <1>3, <2>1, <2>2, DeletedFacts DEF ServiceShape, TrackerTypeOK
<1>8. HeldOnce'
  <2>1. NoRequest \notin Queue
    BY QueueType
  <2>2. \A u \in Thread : current'[u] \notin Queue
    BY <2>1, <1>3 DEF HeldOnce
  <2>3. \A u, v \in Thread :
          /\ current'[u] = current'[v] => u = v \/ current'[u] = NoRequest
          /\ handed'[u] = current'[v] => handed'[u] = NoRequest
    BY <1>1, <1>3 DEF HeldOnce
  <2>4. QED
    BY <2>2, <2>3, <1>1 DEF HeldOnce, Queue
<1>9. WaitersOK' /\ AskedOK' /\ StopOK'
  BY <1>1 DEF WaitersOK, AskedOK, StopOK
<1>10. ResultsOK'
  <2>1. \A x \in Request : is_done'[x] => count'[x] # 0 /\ is_done[x] /\ response'[x] = response[x]
    BY DeletedFacts
  <2>2. ASSUME NEW x \in Request, is_done'[x]
        PROVE  /\ response'[x] \in Results /\ x \notin Queue'
               /\ \A u \in Thread : handed'[u] # x /\ (current'[u] = x => pc'[u] = "release")
    BY <2>1, <2>2, <1>1, <1>3 DEF ResultsOK, Queue
  <2>3. ASSUME NEW u \in Thread
        PROVE  /\ pc'[u] = "release" => is_done'[current'[u]]
               /\ pc'[u] = "answered" => response'[current'[u]] \in Results
    <3>1. CASE u = t
      BY <3>1, <1>1
    <3>2. CASE u # t /\ pc[u] \in {"release", "answered"}
      <4>1. PICK x \in Request : x = current[u] /\ x # r
        BY <3>2, <1>4 DEF ServiceShape, TrackerTypeOK, ServiceOK, Running
      <4>2. count'[x] = count[x] /\ count[x] # 0
        BY <1>6, <4>1 DEF CountOK, IsHeld
      <4>3. QED
        BY <3>2, <4>1, <4>2, <1>1, <1>3, DeletedFacts DEF ResultsOK
    <3>3. QED
      BY <3>1, <3>2, <1>1
  <2>4. \A x \in Request : count'[x] = 0 => response'[x] = "none" /\ ~is_done'[x]
    BY DeletedFacts
  <2>5. ASSUME NEW u \in Url, m_request'[u] # NoRequest
        PROVE  IsHeld(m_request[u])' \/ is_done'[m_request'[u]]
    <3>1. PICK x \in Request : x = m_request[u] /\ x = m_request'[u]
      BY <2>5 DEF ServiceShape, TrackerTypeOK
    <3>2. HasTracker(x)' /\ count'[x] # 0
      BY <3>1, <1>6 DEF HasTracker, CountOK
    <3>3. IsHeld(x) \/ is_done[x]
      BY <2>5, <3>1 DEF ResultsOK
    <3>4. IsHeld(x)' \/ is_done'[x]
      BY <3>2, <3>3, <1>4, <1>5, DeletedFacts
    <3>5. QED
      BY <3>1, <3>4 DEF IsHeld
  <2>6. QED
    BY <2>2, <2>3, <2>4, <2>5 DEF ResultsOK
<1>11. QED
  BY <1>6, <1>7, <1>8, <1>9, <1>10

LEMMA ThreadInv ==
    ASSUME RequestsInv, NEW t \in Thread, ThreadStep(t), Deleted, UNCHANGED task
    PROVE  RequestsInv'
<1>1. ASSUME NEW from \in {"pool", "loop", "wait"},
             NEW to \in {"loop", "ended", "dequeue", "pool", "timed out"},
             At(t, from, to), from = "wait" <=> to = "timed out",
             UNCHANGED <<is_started, joining, queue, wait_queue, handed, current, count>>
      PROVE  RequestsInv'
  <2>1. response' = response /\ is_done' = is_done /\ wire' = wire
    BY <1>1, NothingDeleted DEF RequestsInv
  <2>2. wire' \in [Thread -> SUBSET Datagrams]
    BY <2>1 DEF RequestsInv, ServiceShape, TrackerTypeOK, ExchangeOK, Datagrams
  <2>3. /\ from \in PC /\ to \in PC /\ from \notin {"none", "ended", "release"}
        /\ from \notin Running /\ to \notin Running
        /\ from \in {"wait", "timed out"} <=> to \in {"wait", "timed out"}
    BY <1>1 DEF PC, Running
  <2>4. to # "release" /\ to # "answered"
    OBVIOUS
  <2>5. QED
    BY <1>1, <2>1, <2>2, <2>3, <2>4, ThreadGoes
<1>2. CASE TakeJob(t)
  BY <1>2, <1>1 DEF TakeJob
<1>3. CASE Loop(t)
  BY <1>3, <1>1 DEF Loop
<1>4. CASE TimeOut(t)
  BY <1>4, <1>1 DEF TimeOut
<1>5. QED
  BY <1>2, <1>3, <1>4, DequeueInv, HandedInv, WaitersInv, ReleaseInv DEF ThreadStep

(***************************************************************************)
(* What starts and stops the service, and the worker of the task.          *)
(***************************************************************************)

LEMMA StartStopInv ==
    ASSUME RequestsInv, Start \/ (trackers = {} /\ Stop), Deleted, UNCHANGED task
    PROVE  RequestsInv'
<1> USE ServiceAssumption DEF RequestsInv, task
<1>1. UNCHANGED <<queue, wait_queue, handed, current, count, task>>
  BY DEF Start, Stop
<1>2. response' = response /\ is_done' = is_done /\ wire' = wire
  BY <1>1, NothingDeleted
<1>3. HeldOnce' /\ CountOK' /\ AskedOK'
  BY <1>1 DEF HeldOnce, Queue, CountOK, AskedOK, IsHeld, HasTracker
<1>4. CASE Stop /\ trackers = {}
  <2>1. ServiceShape'
    BY <1>1, <1>2, <1>4 DEF Stop, ServiceShape, TrackerTypeOK, ServiceOK, ExchangeOK
  <2>2. pc' = pc
    BY <1>4 DEF Stop
  <2>3. WaitersOK'
    BY <1>1, <2>2 DEF WaitersOK
  <2>4. ResultsOK'
    BY <1>1, <1>2, <2>2 DEF ResultsOK, IsHeld, Queue
  <2>5. StopOK'
    BY <1>1, <1>4 DEF Stop, StopOK
  <2>6. QED
    BY <2>1, <2>3, <2>4, <2>5, <1>3
<1>5. CASE Start
  <2>1. \A t \in Thread : pc[t] \in {"none", "ended"} /\ pc'[t] = "pool"
    BY <1>5 DEF Start, StopOK
  <2>2. \A t \in Thread : current[t] = NoRequest
    BY <2>1 DEF ServiceShape, TrackerTypeOK, ServiceOK, Running
  <2>3. ServiceShape'
    <3>1. pc' \in [Thread -> PC] /\ is_started' \in BOOLEAN /\ joining' \in BOOLEAN
      BY <1>5 DEF Start, PC, ServiceShape, TrackerTypeOK, ServiceOK
    <3>2. ServiceOK'
      BY <3>1, <2>1, <2>2, <1>1 DEF ServiceShape, TrackerTypeOK, ServiceOK, PC, Running
    <3>3. QED
      BY <3>2, <1>1, <1>2 DEF ServiceShape, TrackerTypeOK, ExchangeOK
  <2>4. WaitersOK'
    BY <2>1, <1>1 DEF WaitersOK
  <2>5. ResultsOK'
    <3>1. \A r \in Request, t \in Thread : current[t] # r
      BY <2>2
    <3>2. \A t \in Thread : pc'[t] # "release" /\ pc'[t] # "answered"
      BY <2>1
    <3>3. \A u \in Url : m_request'[u] # NoRequest => IsHeld(m_request[u])' \/ is_done'[m_request'[u]]
      BY <1>1, <1>2 DEF ResultsOK, IsHeld, Queue
    <3>4. \A r \in Request : is_done'[r] =>
            /\ response'[r] \in Results /\ r \notin Queue'
            /\ \A t \in Thread : handed'[t] # r /\ (current'[t] = r => pc'[t] = "release")
      BY <3>1, <1>1, <1>2 DEF ResultsOK, Queue
    <3>5. \A r \in Request : count'[r] = 0 => response'[r] = "none" /\ ~is_done'[r]
      BY <1>1, <1>2 DEF ResultsOK
    <3>6. QED
      BY <3>2, <3>3, <3>4, <3>5 DEF ResultsOK
  <2>6. StopOK'
    BY <1>5 DEF Start, StopOK
  <2>7. QED
    BY <2>3, <2>4, <2>5, <2>6, <1>3
<1>6. QED
  BY <1>4, <1>5

LEMMA QueuedOnce ==
    ASSUME ServiceShape, Once(queue), NEW r
    PROVE  Queued(r) = IF r \in Queue THEN 1 ELSE 0
<1> DEFINE K == {k \in DOMAIN queue : queue[k] = r}
<1>1. CASE r \in Queue
  <2>1. PICK k \in DOMAIN queue : queue[k] = r
    BY <1>1 DEF Queue, Range
  <2>2. K = {k}
    BY <2>1 DEF Once
  <2>3. Cardinality(K) = 1
    BY <2>2, FS_Singleton
  <2>4. QED
    BY <2>3, <1>1 DEF Queued
<1>2. CASE r \notin Queue
  <2>1. K = {}
    BY <1>2 DEF Queue, Range
  <2>2. Cardinality(K) = 0
    BY <2>1, FS_EmptySet
  <2>3. QED
    BY <2>2, <1>2 DEF Queued
<1>3. QED
  BY <1>1, <1>2

\* When the threads ended, only the queue has requests: the service was stopped
\* after the tasks, so no tracker has one.
LEMMA JoinedInv ==
    ASSUME RequestsInv, Joined, Deleted, UNCHANGED task
    PROVE  RequestsInv'
<1> USE ServiceAssumption DEF RequestsInv, task
<1>1. UNCHANGED <<is_started, pc, wait_queue, handed, current>> /\ joining' = FALSE /\ queue' = <<>>
  BY DEF Joined
<1>2. Queue' = {} /\ Once(queue') /\ queue' \in Seq(Request)
  BY <1>1 DEF Queue, Range, Once
<1>3. \A t \in Thread : pc[t] = "ended" /\ handed[t] = NoRequest /\ current[t] = NoRequest
  BY DEF Joined, WaitersOK, ServiceShape, TrackerTypeOK, ServiceOK, Running
<1>4. ~is_started /\ trackers = {} /\ \A u \in Url : m_request[u] = NoRequest
  BY DEF Joined, StopOK, AskedOK
<1>5. \A r \in Request : ~IsHeld(r)' /\ ~HasTracker(r)' /\ ~HasTracker(r) /\ (IsHeld(r) <=> r \in Queue)
  BY <1>1, <1>2, <1>3, <1>4 DEF IsHeld, HasTracker
<1>6. \A r \in Request : count'[r] = 0
  <2>1. \A r \in Request : count[r] = (IF r \in Queue THEN 1 ELSE 0) + 0
    BY <1>5 DEF CountOK
  <2>2. \A r \in Request : Queued(r) = IF r \in Queue THEN 1 ELSE 0
    BY QueuedOnce DEF HeldOnce
  <2>3. \A r \in Request : count'[r] = count[r] - Queued(r)
    BY DEF Joined
  <2>4. QED
    BY <2>1, <2>2, <2>3
<1>7. CountOK'
  BY <1>5, <1>6 DEF CountOK
<1>8. ServiceShape'
  <2>1. count' \in [Request -> Nat]
    <3>1. count' = [r \in Request |-> count'[r]]
      BY DEF Joined
    <3>2. QED
      BY <3>1, <1>6
  <2>2. ServiceOK'
    BY <1>1, <1>2 DEF ServiceShape, TrackerTypeOK, ServiceOK
  <2>3. QED
    BY <1>1, <2>1, <2>2, DeletedFacts DEF ServiceShape, TrackerTypeOK
<1>9. HeldOnce' /\ WaitersOK' /\ AskedOK' /\ StopOK'
  BY <1>1, <1>2, <1>3, <1>4 DEF HeldOnce, WaitersOK, AskedOK, StopOK
<1>10. ResultsOK'
  BY <1>1, <1>3, <1>4, <1>6, DeletedFacts DEF ResultsOK
<1>11. QED
  BY <1>7, <1>8, <1>9, <1>10

LEMMA InsertInv ==
    ASSUME RequestsInv, NEW v \in Url, InsertTrackerUrl(v) \/ IntervalPasses(v)
    PROVE  RequestsInv'
<1> USE DEF RequestsInv, service, exchange
<1>1. /\ trackers \subseteq trackers' /\ trackers' \subseteq Url /\ m_request' = m_request
      /\ UNCHANGED <<service, exchange>> /\ (is_started \/ trackers' = trackers)
  <2>1. CASE InsertTrackerUrl(v)
    <3>1. m_request[v] = NoRequest
      BY <2>1 DEF InsertTrackerUrl, AskedOK
    <3>2. QED
      BY <2>1, <3>1 DEF InsertTrackerUrl, ServiceShape, TrackerTypeOK
  <2>2. CASE IntervalPasses(v)
    BY <2>2 DEF IntervalPasses, ServiceShape, TrackerTypeOK
  <2>3. QED
    BY <2>1, <2>2
<1>2. ServiceShape'
  BY <1>1 DEF ServiceShape, TrackerTypeOK, ServiceOK, ExchangeOK
<1>3. HeldOnce' /\ WaitersOK' /\ CountOK' /\ AskedOK' /\ StopOK'
  BY <1>1 DEF HeldOnce, WaitersOK, CountOK, AskedOK, StopOK, IsHeld, HasTracker, Queue
<1>4. ResultsOK'
  BY <1>1 DEF ResultsOK, IsHeld, Queue
<1>5. QED
  BY <1>2, <1>3, <1>4

\* A tracker lets go of its request: it was answered, or the tracker is deleted.
LEMMA LetGoInv ==
    ASSUME RequestsInv, NEW U \in SUBSET Url, Deleted,
           UNCHANGED <<is_started, joining, pc, queue, wait_queue, handed, current>>,
           trackers' = {} \/ trackers' = trackers,
           m_request' \in [Url -> Request \cup {NoRequest}],
           \A u \in Url : m_request'[u] = IF u \in U THEN NoRequest ELSE m_request[u],
           trackers' = {} => \A u \in Url : m_request'[u] = NoRequest,
           count' = [r \in Request |-> IF \E u \in U : m_request[u] = r
                                       THEN count[r] - 1 ELSE count[r]]
    PROVE  RequestsInv'
<1> USE ServiceAssumption DEF RequestsInv
<1>1. \A r \in Request :
        /\ IsHeld(r)' <=> IsHeld(r)
        /\ HasTracker(r)' <=> HasTracker(r) /\ ~\E u \in U : m_request[u] = r
  BY DEF IsHeld, HasTracker, Queue, AskedOK
<1>2. \A r \in Request : count'[r] = IF \E u \in U : m_request[u] = r
                                     THEN count[r] - 1 ELSE count[r]
  OBVIOUS
<1>3. CountOK'
  <2> SUFFICES ASSUME NEW r \in Request
               PROVE  count'[r] = (IF IsHeld(r)' THEN 1 ELSE 0) + (IF HasTracker(r)' THEN 1 ELSE 0)
    BY DEF CountOK, IsHeld, HasTracker
  <2>1. count[r] = (IF IsHeld(r) THEN 1 ELSE 0) + (IF HasTracker(r) THEN 1 ELSE 0)
    BY DEF CountOK
  <2>2. (\E u \in U : m_request[u] = r) => HasTracker(r)
    BY DEF HasTracker
  <2>3. QED
    BY <2>1, <2>2, <1>1, <1>2
<1>4. ServiceShape'
  <2>1. count' \in [Request -> Nat]
    <3>1. \A r \in Request : count'[r] \in Nat
      BY <1>3 DEF CountOK
    <3>2. QED
      BY <3>1
  <2>2. ServiceOK' /\ trackers' \subseteq Url
    BY DEF ServiceShape, TrackerTypeOK, ServiceOK
  <2>3. QED
    BY <2>1, <2>2, DeletedFacts DEF ServiceShape, TrackerTypeOK
<1>5. HeldOnce' /\ WaitersOK'
  BY DEF HeldOnce, WaitersOK, Queue
<1>6. AskedOK' /\ StopOK'
  BY DEF AskedOK, StopOK
<1>7. ResultsOK'
  <2>1. \A r \in Request : IsHeld(r) => count'[r] # 0
    BY <1>1, <1>3 DEF CountOK, IsHeld
  <2>2. \A r \in Request : is_done'[r] => is_done[r] /\ response'[r] = response[r]
    BY DeletedFacts
  <2>3. ASSUME NEW r \in Request, is_done'[r]
        PROVE  /\ response'[r] \in Results /\ r \notin Queue'
               /\ \A t \in Thread : handed'[t] # r /\ (current'[t] = r => pc'[t] = "release")
    BY <2>2, <2>3 DEF ResultsOK, Queue
  <2>4. ASSUME NEW t \in Thread
        PROVE  /\ pc'[t] = "release" => is_done'[current'[t]]
               /\ pc'[t] = "answered" => response'[current'[t]] \in Results
    <3>1. CASE pc[t] \in {"release", "answered"}
      <4>1. PICK r \in Request : r = current[t]
        BY <3>1 DEF ServiceShape, TrackerTypeOK, ServiceOK, Running
      <4>2. count'[r] # 0
        BY <4>1, <2>1 DEF IsHeld
      <4>3. QED
        BY <3>1, <4>1, <4>2, DeletedFacts DEF ResultsOK
    <3>2. QED
      BY <3>1
  <2>5. \A r \in Request : count'[r] = 0 => response'[r] = "none" /\ ~is_done'[r]
    BY DeletedFacts
  <2>6. ASSUME NEW u \in Url, m_request'[u] # NoRequest
        PROVE  IsHeld(m_request[u])' \/ is_done'[m_request'[u]]
    <3>1. PICK r \in Request : r = m_request[u] /\ r = m_request'[u]
      BY <2>6 DEF ServiceShape, TrackerTypeOK
    <3>2. count'[r] # 0
      BY <3>1, <1>3 DEF CountOK, HasTracker
    <3>3. IsHeld(r) \/ is_done[r]
      BY <2>6, <3>1 DEF ResultsOK
    <3>4. IsHeld(r)' \/ is_done'[r]
      BY <3>2, <3>3, <1>1, DeletedFacts
    <3>5. QED
      BY <3>1, <3>4 DEF IsHeld
  <2>7. QED
    BY <2>3, <2>4, <2>5, <2>6 DEF ResultsOK
<1>8. QED
  BY <1>3, <1>4, <1>5, <1>6, <1>7

LEMMA ClearInv ==
    ASSUME RequestsInv, Clear
    PROVE  RequestsInv'
<1>1. \A u \in Url : m_request[u] # NoRequest => u \in trackers
  BY DEF RequestsInv, AskedOK
<1>2. /\ trackers \in SUBSET Url /\ trackers' = {}
      /\ m_request' \in [Url -> Request \cup {NoRequest}]
      /\ \A u \in Url : m_request'[u] = IF u \in trackers THEN NoRequest ELSE m_request[u]
      /\ \A u \in Url : m_request'[u] = NoRequest
  BY <1>1 DEF Clear, RequestsInv, ServiceShape, TrackerTypeOK
<1>3. count' = [r \in Request |-> IF \E u \in trackers : m_request[u] = r
                                  THEN count[r] - 1 ELSE count[r]]
  BY DEF Clear
<1>4. Deleted /\ UNCHANGED <<is_started, joining, pc, queue, wait_queue, handed, current>>
  BY DEF Clear
<1>5. QED
  BY <1>2, <1>3, <1>4, LetGoInv

LEMMA HandleInv ==
    ASSUME RequestsInv, NEW v \in Url, Handle(v)
    PROVE  RequestsInv'
<1>1. PICK q \in Request : q = m_request[v]
  BY DEF Handle, RequestsInv, ServiceShape, TrackerTypeOK
<1>2. /\ {v} \in SUBSET Url /\ trackers' = trackers /\ v \in trackers
      /\ m_request' \in [Url -> Request \cup {NoRequest}]
      /\ \A u \in Url : m_request'[u] = IF u \in {v} THEN NoRequest ELSE m_request[u]
  BY DEF Handle, RequestsInv, ServiceShape, TrackerTypeOK
<1>3. count' = [r \in Request |-> IF \E u \in {v} : m_request[u] = r
                                  THEN count[r] - 1 ELSE count[r]]
  <2>1. count' = [count EXCEPT ![q] = @ - 1]
    BY <1>1 DEF Handle, Released
  <2>2. QED
    BY <2>1, <1>1 DEF RequestsInv, ServiceShape
<1>4. Deleted /\ UNCHANGED <<is_started, joining, pc, queue, wait_queue, handed, current>>
  BY DEF Handle
<1>5. trackers' # {}
  BY <1>2
<1>6. QED
  BY <1>2, <1>3, <1>4, <1>5, LetGoInv

\* A new request is queued, or handed to the thread that waits longest.
LEMMA EnqueueFacts ==
    ASSUME RequestsInv, NEW r \in Request, ~IsHeld(r), Enqueue(r)
    PROVE  /\ queue' \in Seq(Request) /\ Once(queue')
           /\ wait_queue' \in Seq(Thread) /\ Once(wait_queue')
           /\ handed' \in [Thread -> Request \cup {NoRequest}]
           /\ \/ /\ Queue' = Queue \cup {r}
                 /\ handed' = handed /\ Range(wait_queue') = Range(wait_queue)
              \/ \E h \in Thread :
                    /\ Queue' = Queue /\ handed[h] = NoRequest
                    /\ pc[h] \in {"wait", "timed out"}
                    /\ \A t \in Thread : handed'[t] = IF t = h THEN r ELSE handed[t]
                    /\ Range(wait_queue') = Range(wait_queue) \ {h}
<1>1. /\ queue \in Seq(Request) /\ Once(queue) /\ wait_queue \in Seq(Thread) /\ Once(wait_queue)
      /\ handed \in [Thread -> Request \cup {NoRequest}]
  BY DEF RequestsInv, ServiceShape, TrackerTypeOK, ServiceOK, HeldOnce, WaitersOK
<1>2. CASE wait_queue = <<>>
  <2>1. queue' = Append(queue, r) /\ UNCHANGED <<wait_queue, handed>>
    BY <1>2 DEF Enqueue
  <2>2. r \notin Range(queue)
    BY DEF IsHeld, Queue
  <2>3. queue' \in Seq(Request) /\ Once(queue') /\ Range(queue') = Range(queue) \cup {r}
    BY <2>1, <2>2, <1>1, Appended
  <2>4. QED
    BY <2>1, <2>3, <1>1 DEF Queue
<1>3. CASE wait_queue # <<>>
  <2>1. PICK h \in Thread : h = Head(wait_queue) /\ h \in Range(wait_queue)
    BY <1>1, <1>3, Shortened
  <2>2. /\ handed' = [handed EXCEPT ![h] = r] /\ wait_queue' = Tail(wait_queue)
        /\ queue' = queue
    BY <1>3, <2>1 DEF Enqueue
  <2>3. /\ wait_queue' \in Seq(Thread) /\ Once(wait_queue')
        /\ Range(wait_queue') = Range(wait_queue) \ {h}
    BY <2>1, <2>2, <1>1, <1>3, Shortened
  <2>4. handed[h] = NoRequest /\ pc[h] \in {"wait", "timed out"}
    BY <2>1 DEF RequestsInv, WaitersOK
  <2>5. QED
    BY <2>2, <2>3, <2>4, <1>1 DEF Queue
<1>4. QED
  BY <1>2, <1>3

LEMMA AskInv ==
    ASSUME RequestsInv, NEW v \in Url, NEW r \in Request, Ask(v, r)
    PROVE  RequestsInv'
<1> USE ServiceAssumption DEF RequestsInv
<1>1. /\ is_started /\ v \in trackers /\ m_request[v] = NoRequest /\ count[r] = 0
      /\ count' = [count EXCEPT ![r] = 2] /\ m_request' = [m_request EXCEPT ![v] = r]
      /\ UNCHANGED <<is_started, joining, pc, current, trackers, response, is_done, wire>>
  BY DEF Ask, PostRequest, exchange
<1>2. ~IsHeld(r) /\ ~HasTracker(r)
  <2>1. 0 = (IF IsHeld(r) THEN 1 ELSE 0) + (IF HasTracker(r) THEN 1 ELSE 0)
    BY <1>1 DEF CountOK
  <2>2. QED
    BY <2>1
<1>3. /\ queue' \in Seq(Request) /\ Once(queue')
      /\ wait_queue' \in Seq(Thread) /\ Once(wait_queue')
      /\ handed' \in [Thread -> Request \cup {NoRequest}]
  BY <1>2, EnqueueFacts DEF Ask, PostRequest
<1>4. PICK given \in SUBSET Thread :
      /\ \A t \in Thread : handed'[t] = IF t \in given THEN r ELSE handed[t]
      /\ \A t \in given : handed[t] = NoRequest /\ pc[t] \in {"wait", "timed out"}
      /\ \A t, u \in given : t = u
      /\ Range(wait_queue') = Range(wait_queue) \ given
      /\ Queue' = IF given = {} THEN Queue \cup {r} ELSE Queue
  <2>1. CASE /\ Queue' = Queue \cup {r}
             /\ handed' = handed /\ Range(wait_queue') = Range(wait_queue)
    BY <2>1
  <2>2. ASSUME NEW h \in Thread, Queue' = Queue, handed[h] = NoRequest,
               pc[h] \in {"wait", "timed out"},
               \A t \in Thread : handed'[t] = IF t = h THEN r ELSE handed[t],
               Range(wait_queue') = Range(wait_queue) \ {h}
        PROVE  \E given \in SUBSET Thread :
      /\ \A t \in Thread : handed'[t] = IF t \in given THEN r ELSE handed[t]
      /\ \A t \in given : handed[t] = NoRequest /\ pc[t] \in {"wait", "timed out"}
      /\ \A t, u \in given : t = u
      /\ Range(wait_queue') = Range(wait_queue) \ given
      /\ Queue' = IF given = {} THEN Queue \cup {r} ELSE Queue
    <3> WITNESS {h} \in SUBSET Thread
    <3> QED
      BY <2>2
  <2>3. \/ /\ Queue' = Queue \cup {r}
           /\ handed' = handed /\ Range(wait_queue') = Range(wait_queue)
        \/ \E h \in Thread :
              /\ Queue' = Queue /\ handed[h] = NoRequest
              /\ pc[h] \in {"wait", "timed out"}
              /\ \A t \in Thread : handed'[t] = IF t = h THEN r ELSE handed[t]
              /\ Range(wait_queue') = Range(wait_queue) \ {h}
    BY <1>2, EnqueueFacts DEF Ask, PostRequest
  <2>4. QED
    BY <2>1, <2>2, <2>3
<1>5. \A x \in Request : /\ IsHeld(x)' <=> IsHeld(x) \/ x = r
                         /\ HasTracker(x)' <=> HasTracker(x) \/ x = r
  <2>1. \A u \in Url : m_request'[u] = IF u = v THEN r ELSE m_request[u]
    BY <1>1 DEF ServiceShape, TrackerTypeOK
  <2>2. \A x \in Request : HasTracker(x)' <=> HasTracker(x) \/ x = r
    BY <2>1, <1>1 DEF HasTracker
  <2>3. ASSUME NEW x \in Request PROVE IsHeld(x)' <=> IsHeld(x) \/ x = r
    <3>1. CASE given = {}
      BY <3>1, <1>1, <1>4 DEF IsHeld
    <3>2. CASE given # {}
      BY <3>2, <1>1, <1>4 DEF IsHeld
    <3>3. QED
      BY <3>1, <3>2
  <2>4. QED
    BY <2>2, <2>3
<1>6. CountOK'
  BY <1>1, <1>2, <1>5 DEF CountOK, ServiceShape
<1>7. ServiceShape'
  BY <1>1, <1>3 DEF ServiceShape, TrackerTypeOK, ServiceOK, ExchangeOK
<1>8. HeldOnce'
  <2>1. r \notin Queue /\ \A t \in Thread : handed[t] # r /\ current[t] # r
    BY <1>2 DEF IsHeld
  <2>2. NoRequest \notin Queue' /\ Queue' \subseteq Queue \cup {r}
    BY <1>4, QueueType
  <2>3. \A t, u \in Thread :
          /\ handed'[t] = handed'[u] => t = u \/ handed'[t] = NoRequest
          /\ handed'[t] = current[u] => handed'[t] = NoRequest
    BY <2>1, <1>4 DEF HeldOnce
  <2>4. \A t \in Thread : handed'[t] \notin Queue' /\ current[t] \notin Queue'
    <3>1. \A t \in Thread : current[t] \notin Queue'
      BY <2>1, <2>2 DEF HeldOnce
    <3>2. ASSUME NEW t \in Thread PROVE handed'[t] \notin Queue'
      <4>1. CASE given = {}
        BY <4>1, <2>1, <1>4 DEF HeldOnce
      <4>2. CASE given # {}
        BY <4>2, <2>1, <1>4 DEF HeldOnce
      <4>3. QED
        BY <4>1, <4>2
    <3>3. QED
      BY <3>1, <3>2
  <2>5. QED
    BY <1>1, <1>3, <2>3, <2>4 DEF HeldOnce
<1>9. WaitersOK'
  BY <1>1, <1>3, <1>4 DEF WaitersOK
<1>10. AskedOK'
  <2>1. \A u \in Url : m_request'[u] = IF u = v THEN r ELSE m_request[u]
    BY <1>1 DEF ServiceShape, TrackerTypeOK
  <2>2. \A u \in Url : m_request[u] # r
    BY <1>2 DEF HasTracker
  <2>3. QED
    BY <2>1, <2>2, <1>1 DEF AskedOK
<1>11. StopOK'
  BY <1>1 DEF StopOK
<1>12. ResultsOK'
  <2>1. ~is_done[r]
    BY <1>1 DEF ResultsOK
  <2>2. ASSUME NEW x \in Request, is_done[x]
        PROVE  /\ response[x] \in Results /\ x \notin Queue'
               /\ \A t \in Thread : handed'[t] # x /\ (current[t] = x => pc[t] = "release")
    <3>1. x # r
      BY <2>1, <2>2
    <3>2. /\ response[x] \in Results /\ x \notin Queue
          /\ \A t \in Thread : handed[t] # x /\ (current[t] = x => pc[t] = "release")
      BY <2>2 DEF ResultsOK
    <3>3. QED
      BY <3>1, <3>2, <1>4
  <2>3. ASSUME NEW u \in Url, m_request'[u] # NoRequest
        PROVE  IsHeld(m_request[u])' \/ is_done'[m_request'[u]]
    <3>1. PICK x \in Request : x = m_request'[u] /\ (x = r \/ x = m_request[u])
      BY <2>3, <1>1 DEF ServiceShape, TrackerTypeOK
    <3>2. x # r => IsHeld(x) \/ is_done[x]
      BY <2>3, <3>1 DEF ResultsOK
    <3>3. IsHeld(x)' \/ is_done'[x]
      BY <3>2, <1>1, <1>5
    <3>4. QED
      BY <3>1, <3>3 DEF IsHeld
  <2>4. \A x \in Request : count'[x] = 0 => response[x] = "none" /\ ~is_done[x]
    BY <1>1 DEF ResultsOK, ServiceShape
  <2>5. QED
    BY <2>2, <2>3, <2>4, <1>1 DEF ResultsOK
<1>13. QED
  BY <1>3, <1>6, <1>7, <1>8, <1>9, <1>10, <1>11, <1>12

LEMMA RequestsNext ==
    ASSUME RequestsInv, [TrackerNext]_tracker_vars
    PROVE  RequestsInv'
<1>1. CASE Manager /\ Deleted /\ UNCHANGED task
  BY <1>1, StartStopInv, JoinedInv DEF Manager
<1>2. CASE Clear
  BY <1>2, ClearInv
<1>3. ASSUME NEW u \in Url,
             \/ InsertTrackerUrl(u) \/ Handle(u) \/ IntervalPasses(u)
             \/ \E r \in Request : Ask(u, r)
      PROVE  RequestsInv'
  BY <1>3, InsertInv, HandleInv, AskInv
<1>4. ASSUME NEW t \in Thread,
             \/ ThreadStep(t) /\ Deleted /\ UNCHANGED task
             \/ (Run(t) \/ Host(t)) /\ UNCHANGED task
      PROVE  RequestsInv'
  BY <1>4, ThreadInv, RunInv, HostInv
<1>5. CASE UNCHANGED tracker_vars
  <2>1. UNCHANGED <<service, task, exchange>>
    BY <1>5 DEF tracker_vars
  <2>2. UNCHANGED <<is_started, joining, jobs, pc, queue, wait_queue, handed, current, count,
                    trackers, m_request, response, is_done, wire>>
    BY <2>1 DEF service, task, exchange
  <2>3. ServiceShape' /\ HeldOnce' /\ WaitersOK'
    BY <2>2 DEF RequestsInv, ServiceShape, TrackerTypeOK, ServiceOK, ExchangeOK, HeldOnce, WaitersOK, Queue
  <2>4. CountOK' /\ AskedOK' /\ ResultsOK' /\ StopOK'
    BY <2>2 DEF RequestsInv, CountOK, AskedOK, ResultsOK, StopOK, IsHeld, HasTracker, Queue
  <2>5. QED
    BY <2>3, <2>4 DEF RequestsInv
<1>6. QED
  BY <1>1, <1>2, <1>3, <1>4, <1>5 DEF TrackerNext

\* The invariant of Tracker, when the service uses a mark that is no request.
THEOREM RequestsInvariance == TrackerSpec => []RequestsInv
<1>1. TrackerInit => RequestsInv
  BY RequestsInit
<1>2. RequestsInv /\ [TrackerNext]_tracker_vars => RequestsInv'
  BY RequestsNext
<1>3. QED
  BY <1>1, <1>2, PTL DEF TrackerSpec

\* How many have x, if at most one has.
LEMMA AtMostOne ==
    ASSUME NEW S, NEW f, NEW x, \A t, u \in S : f[t] = x /\ f[u] = x => t = u
    PROVE  Cardinality({t \in S : f[t] = x}) = IF \E t \in S : f[t] = x THEN 1 ELSE 0
<1> DEFINE H == {t \in S : f[t] = x}
<1>1. CASE \E t \in S : f[t] = x
  <2>1. PICK t \in S : f[t] = x
    BY <1>1
  <2>2. H = {t}
    BY <2>1
  <2>3. Cardinality(H) = 1
    BY <2>2, FS_Singleton
  <2>4. QED
    BY <2>3, <1>1
<1>2. CASE ~\E t \in S : f[t] = x
  <2>1. H = {}
    BY <1>2
  <2>2. Cardinality(H) = 0
    BY <2>1, FS_EmptySet
  <2>3. QED
    BY <2>2, <1>2
<1>3. QED
  BY <1>1, <1>2

\* A request is in one place of the service, or in none.
LEMMA HeldCount ==
    ASSUME RequestsInv, NEW r \in Request
    PROVE  Held(r) = IF IsHeld(r) THEN 1 ELSE 0
<1> USE ServiceAssumption DEF RequestsInv
<1>1. Queued(r) = IF r \in Queue THEN 1 ELSE 0
  BY QueuedOnce DEF HeldOnce
<1>2. Cardinality({t \in Thread : handed[t] = r}) = IF \E t \in Thread : handed[t] = r THEN 1 ELSE 0
  <2>1. \A t, u \in Thread : handed[t] = r /\ handed[u] = r => t = u
    BY DEF HeldOnce
  <2>2. QED
    BY <2>1, AtMostOne
<1>3. Cardinality({t \in Thread : current[t] = r}) = IF \E t \in Thread : current[t] = r THEN 1 ELSE 0
  <2>1. \A t, u \in Thread : current[t] = r /\ current[u] = r => t = u
    BY DEF HeldOnce
  <2>2. QED
    BY <2>1, AtMostOne
<1>4. \A t, u \in Thread : /\ handed[t] = r => r \notin Queue /\ current[u] # r
                           /\ current[t] = r => r \notin Queue
  BY DEF HeldOnce
<1>5. QED
  BY <1>1, <1>2, <1>3, <1>4 DEF Held, IsHeld

\* RequestsOwned for every number of threads, trackers and requests: TrackerRequest
\* is deleted when the last of its users lets go of it, the queue delivers it once
\* however waits time out, and what a tracker reads in it is its answer.
THEOREM RequestsAreOwned == TrackerSpec => []RequestsOwned
<1>1. RequestsInv => RequestsOwned
  <2> SUFFICES ASSUME RequestsInv PROVE RequestsOwned
    OBVIOUS
  <2> USE ServiceAssumption DEF RequestsInv
  <2>1. CountsExact
    <3> SUFFICES ASSUME NEW r \in Request
                 PROVE  count[r] = Held(r) + Cardinality({u \in Url : m_request[u] = r})
      BY DEF CountsExact
    <3>1. \A u, v \in Url : m_request[u] = r /\ m_request[v] = r => u = v
      BY DEF AskedOK
    <3>2. Cardinality({u \in Url : m_request[u] = r}) = IF HasTracker(r) THEN 1 ELSE 0
      BY <3>1, AtMostOne DEF HasTracker
    <3>3. QED
      BY <3>2, HeldCount DEF CountOK
  <2>2. DeliveredOnce
    <3>1. ASSUME NEW u \in Url, m_request[u] # NoRequest
          PROVE  \/ Held(m_request[u]) = 1
                 \/ Held(m_request[u]) = 0 /\ is_done[m_request[u]]
      <4>1. m_request[u] \in Request
        BY <3>1 DEF ServiceShape, TrackerTypeOK
      <4>2. Held(m_request[u]) = IF IsHeld(m_request[u]) THEN 1 ELSE 0
        BY <4>1, HeldCount
      <4>3. IsHeld(m_request[u]) \/ is_done[m_request[u]]
        BY <3>1 DEF ResultsOK
      <4>4. QED
        BY <4>2, <4>3
    <3>2. QED
      BY <3>1 DEF DeliveredOnce, WaitersOK
  <2>3. DoneIsAnswered
    BY DEF DoneIsAnswered, ResultsOK, Results
  <2>4. QED
    BY <2>1, <2>2, <2>3 DEF RequestsOwned, ServiceShape
<1>2. QED
  BY <1>1, RequestsInvariance, PTL
=============================================================================
