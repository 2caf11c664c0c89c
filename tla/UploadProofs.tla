---------------------------- MODULE UploadProofs ----------------------------
(***************************************************************************)
(* Whatever the peers ask, cancel and show interest in, and however the    *)
(* rates change: the slots are neither exceeded nor left empty, data find  *)
(* a peer that expects them, and a request is lost only by overtaking the  *)
(* CANCEL sent before it.                                                   *)
(*                                                                         *)
(* One connection is described by what both ends know of it: list, what we *)
(* still have to answer; wire, what is under way to the peer; mail, what   *)
(* it sent and we have not handled, any of which may be next; want, what   *)
(* it waits for; late, the slices whose last request overtook a CANCEL; b, *)
(* whether it believes that it is choked; d, whether we choke it.          *)
(***************************************************************************)
EXTENDS Upload, FiniteSetTheorems, SequenceTheorems, WellFoundedInduction, TLAPS

ToPeer == {CHOKE, UNCHOKE} \cup {Piece(s) : s \in Slice}
ToLocal == {Request(s) : s \in Slice} \cup {Cancel(s) : s \in Slice}

\* h[i] is what the peer believes when it has handled i messages: it ends with
\* what we decided, and data are handled only by a peer that is not choked.
Follows(h, wire, b, d) ==
    /\ h \in [0..Len(wire) -> BOOLEAN]
    /\ h[0] = b /\ h[Len(wire)] = d
    /\ \A i \in 1..Len(wire) :
          IF wire[i].msg = "piece" THEN ~h[i - 1] /\ ~h[i] ELSE h[i] = (wire[i] = CHOKE)

Beliefs(wire, b, d) == \E h \in [0..Len(wire) -> BOOLEAN] : Follows(h, wire, b, d)

\* Of what the peer waits for, it cancelled no request after the last one.
AskedAgain(mail, s) ==
    \A i \in 1..Len(mail) : mail[i] = Cancel(s) =>
        \E j \in (i + 1)..Len(mail) : mail[j] = Request(s)

Somewhere(list, wire, mail, s) ==
    \/ Contains(mail, Request(s)) \/ Contains(list, s)
    \/ Contains(wire, Piece(s)) \/ Contains(wire, CHOKE)

Once(list) == \A i, j \in 1..Len(list) : list[i] = list[j] => i = j

Conversation(list, wire, mail, want, late, b, d) ==
    /\ list \in Seq(Slice) /\ wire \in Seq(ToPeer) /\ mail \in Seq(ToLocal)
    /\ want \in SUBSET Slice /\ late \in SUBSET Slice /\ b \in BOOLEAN /\ d \in BOOLEAN
    /\ Once(list) /\ (d => list = <<>>)
    /\ Beliefs(wire, b, d)
    /\ want # {} => ~b
    /\ \A s \in want \ late : AskedAgain(mail, s) /\ Somewhere(list, wire, mail, s)

\* The state of the choke decisions is that of a conversation with every peer.
DecisionOK(c) ==
    /\ c.choking \in [Link -> BOOLEAN]
    /\ c.list \in [Link -> Seq(Slice)] /\ c.wire \in [Link -> Seq(ToPeer)]
    /\ \A l \in Link :
          Conversation(c.list[l], c.wire[l], toLocal[l], asked[l], overtook[l], choked[l], c.choking[l])
    /\ \A l \in Link \ links : c.choking[l]

Shape ==
    /\ links \in SUBSET Link
    /\ remote_interested_local \in [Link -> BOOLEAN]
    /\ remote_choking_local \in [Link -> BOOLEAN]
    /\ toLocal \in [Link -> Seq(ToLocal)]
    /\ asked \in [Link -> SUBSET Slice]
    /\ overtook \in [Link -> SUBSET Slice]
    /\ choked \in [Link -> BOOLEAN]

Inv == Shape /\ SlotBound /\ DecisionOK(Decided)

(***************************************************************************)
(* Messages and lists.                                                     *)
(***************************************************************************)

LEMMA MessageFacts ==
    /\ CHOKE.msg # "piece" /\ UNCHOKE.msg # "piece" /\ CHOKE # UNCHOKE
    /\ \A s : Piece(s).msg = "piece" /\ Piece(s).slice = s /\ Piece(s) # CHOKE
    /\ \A s : /\ Request(s).msg = "request" /\ Request(s).slice = s
              /\ Cancel(s).msg = "cancel" /\ Cancel(s).slice = s
    /\ \A s, t : /\ Request(s) # Cancel(t)
                 /\ Piece(s) = Piece(t) => s = t
                 /\ Request(s) = Request(t) => s = t
                 /\ Cancel(s) = Cancel(t) => s = t
<1>1. CHOKE.msg # "piece" /\ UNCHOKE.msg # "piece" /\ CHOKE # UNCHOKE
  BY DEF CHOKE, UNCHOKE
<1>2. \A s : Piece(s).msg = "piece" /\ Piece(s).slice = s
  BY DEF Piece
<1>3. \A s : /\ Request(s).msg = "request" /\ Request(s).slice = s
             /\ Cancel(s).msg = "cancel" /\ Cancel(s).slice = s
  BY DEF Request, Cancel
<1>4. ASSUME NEW s PROVE Piece(s) # CHOKE
  BY <1>1, <1>2, Zenon
<1>5. ASSUME NEW s, NEW t
      PROVE  /\ Request(s) # Cancel(t)
             /\ Piece(s) = Piece(t) => s = t
             /\ Request(s) = Request(t) => s = t
             /\ Cancel(s) = Cancel(t) => s = t
  <2>1. Request(s).msg = "request" /\ Cancel(t).msg = "cancel" /\ "request" # "cancel"
    BY <1>3
  <2>2. Request(s) # Cancel(t)
    BY <2>1, Zenon
  <2>3. Piece(s).slice = s /\ Piece(t).slice = t /\ Request(s).slice = s
        /\ Request(t).slice = t /\ Cancel(s).slice = s /\ Cancel(t).slice = t
    BY <1>2, <1>3
  <2>4. QED
    BY <2>2, <2>3, Zenon
<1>6. QED
  BY <1>1, <1>2, <1>3, <1>4, <1>5

\* What was sent and is no choke is data.
LEMMA SentIsKnown ==
    ASSUME NEW m \in ToPeer
    PROVE  /\ m.msg = "piece" => \E s \in Slice : m = Piece(s)
           /\ m.msg # "piece" => m = CHOKE \/ m = UNCHOKE
<1>1. m = CHOKE \/ m = UNCHOKE \/ \E s \in Slice : m = Piece(s)
  BY DEF ToPeer
<1>2. QED
  BY <1>1, MessageFacts

LEMMA AppendFacts ==
    ASSUME NEW S, NEW w \in Seq(S), NEW m \in S
    PROVE  /\ Append(w, m) \in Seq(S)
           /\ Len(w) \in Nat /\ Len(Append(w, m)) = Len(w) + 1
           /\ \A i \in 1..Len(w) : Append(w, m)[i] = w[i]
           /\ Append(w, m)[Len(w) + 1] = m
           /\ \A x : Contains(Append(w, m), x) <=> Contains(w, x) \/ x = m
<1>1. /\ Append(w, m) \in Seq(S)
      /\ Len(w) \in Nat /\ Len(Append(w, m)) = Len(w) + 1
      /\ \A i \in 1..Len(w) : Append(w, m)[i] = w[i]
      /\ Append(w, m)[Len(w) + 1] = m
  BY AppendProperties, LenProperties
<1>2. \A i \in 1..(Len(w) + 1) : i \in 1..Len(w) \/ i = Len(w) + 1
  BY <1>1, SMT
<1>3. Len(w) + 1 \in 1..(Len(w) + 1) /\ \A i \in 1..Len(w) : i \in 1..(Len(w) + 1)
  BY <1>1, SMT
<1>4. ASSUME NEW x PROVE Contains(Append(w, m), x) <=> Contains(w, x) \/ x = m
  BY <1>1, <1>2, <1>3, Zenon DEF Contains
<1>5. QED
  BY <1>1, <1>4

LEMMA TailFacts ==
    ASSUME NEW S, NEW w \in Seq(S), w # <<>>
    PROVE  /\ Head(w) \in S /\ Head(w) = w[1] /\ Tail(w) \in Seq(S)
           /\ Len(w) \in Nat \ {0} /\ Len(Tail(w)) = Len(w) - 1
           /\ \A i \in 1..(Len(w) - 1) : Tail(w)[i] = w[i + 1]
           /\ \A x : Contains(w, x) <=> Contains(Tail(w), x) \/ x = Head(w)
<1>1. /\ Head(w) \in S /\ Tail(w) \in Seq(S)
      /\ Len(w) \in Nat \ {0} /\ Len(Tail(w)) = Len(w) - 1
      /\ \A i \in 1..(Len(w) - 1) : Tail(w)[i] = w[i + 1]
  BY HeadTailProperties, EmptySeq, LenProperties
<1>2. Head(w) = w[1]
  OBVIOUS
<1>3. \A i \in 1..Len(w) : i = 1 \/ (i - 1 \in 1..(Len(w) - 1) /\ (i - 1) + 1 = i)
  BY <1>1, SMT
<1>4. 1 \in 1..Len(w) /\ \A i \in 1..(Len(w) - 1) : i + 1 \in 1..Len(w)
  BY <1>1, SMT
<1>5. ASSUME NEW x PROVE Contains(w, x) <=> Contains(Tail(w), x) \/ x = Head(w)
  <2>1. ASSUME Contains(w, x), x # Head(w) PROVE Contains(Tail(w), x)
    <3>1. PICK i \in 1..Len(w) : w[i] = x
      BY <2>1 DEF Contains
    <3>2. i - 1 \in 1..(Len(w) - 1) /\ (i - 1) + 1 = i
      BY <3>1, <2>1, <1>2, <1>3
    <3>3. Tail(w)[i - 1] = x
      BY <3>1, <3>2, <1>1
    <3>4. QED
      BY <3>2, <3>3, <1>1 DEF Contains
  <2>2. ASSUME Contains(Tail(w), x) PROVE Contains(w, x)
    BY <2>2, <1>1, <1>4 DEF Contains
  <2>3. ASSUME x = Head(w) PROVE Contains(w, x)
    BY <2>3, <1>2, <1>4 DEF Contains
  <2>4. QED
    BY <2>1, <2>2, <2>3
<1>6. QED
  BY <1>1, <1>2, <1>5

LEMMA RemoveAtFacts ==
    ASSUME NEW S, NEW w \in Seq(S), NEW n \in 1..Len(w)
    PROVE  /\ RemoveAt(w, n) \in Seq(S)
           /\ Len(RemoveAt(w, n)) = Len(w) - 1
           /\ \A k \in 1..(Len(w) - 1) :
                 RemoveAt(w, n)[k] = IF k < n THEN w[k] ELSE w[k + 1]
<1> DEFINE before == SubSeq(w, 1, n - 1)
           after == SubSeq(w, n + 1, Len(w))
<1>1. Len(w) \in Nat /\ n \in 1..Len(w) /\ \A i \in 1..Len(w) : w[i] \in S
  BY LenProperties, ElementOfSeq
<1>2. /\ n - 1 \in Int /\ n + 1 \in Int /\ Len(w) \in Int /\ 1 \in Int
      /\ \A i \in 1..(n - 1) : i \in 1..Len(w)
      /\ \A i \in (n + 1)..Len(w) : i \in 1..Len(w)
  BY <1>1, SMT
<1>3. \A i \in 1..(n - 1) : w[i] \in S
  BY <1>1, <1>2
<1>4. \A i \in (n + 1)..Len(w) : w[i] \in S
  BY <1>1, <1>2
<1>5. /\ before \in Seq(S)
      /\ Len(before) = IF 1 <= n - 1 THEN (n - 1) - 1 + 1 ELSE 0
      /\ \A i \in 1..((n - 1) - 1 + 1) : before[i] = w[1 + i - 1]
  BY <1>2, <1>3, SubSeqProperties
<1>6. /\ after \in Seq(S)
      /\ Len(after) = IF n + 1 <= Len(w) THEN Len(w) - (n + 1) + 1 ELSE 0
      /\ \A i \in 1..(Len(w) - (n + 1) + 1) : after[i] = w[(n + 1) + i - 1]
  BY <1>2, <1>4, SubSeqProperties
<1>7. Len(before) = n - 1 /\ Len(after) = Len(w) - n
  BY <1>1, <1>5, <1>6, SMT
<1>8. RemoveAt(w, n) = before \o after
  BY DEF RemoveAt
<1> HIDE DEF before, after
<1>9. /\ before \o after \in Seq(S)
      /\ Len(before \o after) = Len(before) + Len(after)
      /\ \A i \in 1..(Len(before) + Len(after)) : (before \o after)[i] =
            IF i <= Len(before) THEN before[i] ELSE after[i - Len(before)]
  BY <1>5, <1>6, ConcatProperties
<1>10. ASSUME NEW k \in 1..(Len(w) - 1)
       PROVE  RemoveAt(w, n)[k] = IF k < n THEN w[k] ELSE w[k + 1]
  <2>1. k \in 1..(Len(before) + Len(after))
    BY <1>1, <1>7, SMT
  <2>2. RemoveAt(w, n)[k] = IF k <= Len(before) THEN before[k] ELSE after[k - Len(before)]
    BY <2>1, <1>8, <1>9
  <2>3. CASE k < n
    <3>1. k \in 1..((n - 1) - 1 + 1) /\ 1 + k - 1 = k /\ k <= Len(before)
      BY <2>3, <1>1, <1>7, SMT
    <3>2. before[k] = w[k]
      BY <3>1, <1>5
    <3>3. QED
      BY <3>1, <3>2, <2>2, <2>3
  <2>4. CASE ~(k < n)
    <3>1. /\ k - (n - 1) \in 1..(Len(w) - (n + 1) + 1)
          /\ (n + 1) + (k - (n - 1)) - 1 = k + 1 /\ ~(k <= Len(before))
          /\ Len(before) = n - 1
      BY <2>4, <1>1, <1>7, SMT
    <3>2. after[k - (n - 1)] = w[k + 1]
      BY <3>1, <1>6
    <3>3. QED
      BY <3>1, <3>2, <2>2, <2>4
  <2>5. QED
    BY <2>3, <2>4
<1>11. QED
  BY <1>1, <1>7, <1>8, <1>9, <1>10, SMT

\* A list of different slices without one of its entries.
LEMMA RemovedFromList ==
    ASSUME NEW list \in Seq(Slice), Once(list), NEW n \in 1..Len(list)
    PROVE  /\ RemoveAt(list, n) \in Seq(Slice) /\ Once(RemoveAt(list, n))
           /\ \A x : Contains(list, x) => x = list[n] \/ Contains(RemoveAt(list, n), x)
<1> DEFINE r == RemoveAt(list, n)
           from(k) == IF k < n THEN k ELSE k + 1
<1>1. /\ r \in Seq(Slice) /\ Len(r) = Len(list) - 1
      /\ \A k \in 1..(Len(list) - 1) : r[k] = IF k < n THEN list[k] ELSE list[k + 1]
  BY RemoveAtFacts
<1>2. Len(list) \in Nat
  BY LenProperties
<1>3. \A k \in 1..(Len(list) - 1) : from(k) \in 1..Len(list) /\ r[k] = list[from(k)]
  BY <1>1, <1>2
<1>4. \A j, k \in 1..(Len(list) - 1) : from(j) = from(k) => j = k
  BY <1>2
<1>5. Once(r)
  <2> SUFFICES ASSUME NEW j \in 1..(Len(list) - 1), NEW k \in 1..(Len(list) - 1), r[j] = r[k]
               PROVE  j = k
    BY <1>1 DEF Once
  <2>1. list[from(j)] = list[from(k)] /\ from(j) \in 1..Len(list) /\ from(k) \in 1..Len(list)
    BY <1>3
  <2>2. from(j) = from(k)
    BY <2>1 DEF Once
  <2>3. QED
    BY <2>2, <1>4
<1>6. ASSUME NEW x, Contains(list, x), x # list[n] PROVE Contains(r, x)
  <2>1. PICK i \in 1..Len(list) : list[i] = x
    BY <1>6 DEF Contains
  <2>2. i # n
    BY <2>1, <1>6
  <2>3. CASE i < n
    <3>1. i \in 1..(Len(list) - 1)
      BY <2>3, <1>2
    <3>2. r[i] = x
      BY <3>1, <2>1, <2>3, <1>1
    <3>3. QED
      BY <3>1, <3>2, <1>1 DEF Contains
  <2>4. CASE i > n
    <3>1. i - 1 \in 1..(Len(list) - 1) /\ ~(i - 1 < n) /\ (i - 1) + 1 = i
      BY <2>4, <1>2
    <3>2. r[i - 1] = x
      BY <3>1, <2>1, <1>1
    <3>3. QED
      BY <3>1, <3>2, <1>1 DEF Contains
  <2>5. QED
    BY <2>2, <2>3, <2>4, <1>2
<1>7. QED
  BY <1>1, <1>5, <1>6

LEMMA NatMin ==
    ASSUME NEW T \in SUBSET Nat, T # {}
    PROVE  \E x \in T : \A y \in T : x <= y
<1>1. PICK x \in T : \A y \in T : ~(<<y, x>> \in OpToRel(<, Nat))
  BY NatLessThanWellFounded, WFMin
<1>2. \A y \in T : ~(y < x)
  BY <1>1 DEF OpToRel
<1>3. QED
  BY <1>2

\* Cancelling takes one slice from the list, if it is there.
LEMMA CancelledFromList ==
    ASSUME NEW list \in Seq(Slice), Once(list), NEW e
    PROVE  /\ RemoveFirst(list, e) \in Seq(Slice) /\ Once(RemoveFirst(list, e))
           /\ list = <<>> => RemoveFirst(list, e) = <<>>
           /\ \A x : Contains(list, x) => x = e \/ Contains(RemoveFirst(list, e), x)
<1> DEFINE I == {i \in 1..Len(list) : list[i] = e}
<1>1. CASE I = {}
  <2>1. RemoveFirst(list, e) = list
    BY <1>1 DEF RemoveFirst
  <2>2. QED
    BY <2>1
<1>2. CASE I # {}
  <2>1. Len(list) \in Nat
    BY LenProperties
  <2>2. I \in SUBSET Nat
    BY <2>1
  <2>3. \E x \in I : \A y \in I : x <= y
    BY <1>2, <2>2, NatMin
  <2>4. Min(I) \in I
    BY <2>3 DEF Min
  <2>6. RemoveFirst(list, e) = RemoveAt(list, Min(I))
    BY <1>2 DEF RemoveFirst, SelectInSeq
  <2>7. Min(I) \in 1..Len(list) /\ list[Min(I)] = e /\ list # <<>>
    BY <2>4, EmptySeq
  <2>8. QED
    BY <2>6, <2>7, RemovedFromList
<1>3. QED
  BY <1>1, <1>2

(***************************************************************************)
(* What the peer believes.                                                 *)
(***************************************************************************)

LEMMA NothingSent == ASSUME NEW b \in BOOLEAN PROVE Beliefs(<<>>, b, b)
<1> DEFINE h == [i \in 0..0 |-> b]
<1>1. Len(<<>>) = 0 /\ 0 \in 0..0 /\ h \in [0..0 -> BOOLEAN] /\ h[0] = b
  BY EmptySeq
<1>2. \A i \in 1..0 : FALSE
  OBVIOUS
<1>3. Follows(h, <<>>, b, b)
  BY <1>1, <1>2 DEF Follows
<1>4. QED
  BY <1>1, <1>3 DEF Beliefs

\* What is sent next makes the belief, or is data and leaves it.
LEMMA OneMoreSent ==
    ASSUME NEW w \in Seq(ToPeer), NEW b, NEW d, Beliefs(w, b, d),
           NEW m \in ToPeer, NEW e \in BOOLEAN,
           IF m.msg = "piece" THEN ~d /\ ~e ELSE e = (m = CHOKE)
    PROVE  Beliefs(Append(w, m), b, e)
<1>1. PICK h \in [0..Len(w) -> BOOLEAN] : Follows(h, w, b, d)
  BY DEF Beliefs
<1>2. PICK n : n = Len(w)
  OBVIOUS
<1>3. /\ n \in Nat /\ Len(Append(w, m)) = n + 1
      /\ \A i \in 1..n : Append(w, m)[i] = w[i]
      /\ Append(w, m)[n + 1] = m
  BY <1>2, AppendFacts
<1>4. /\ h \in [0..n -> BOOLEAN] /\ h[0] = b /\ h[n] = d
      /\ \A i \in 1..n :
            IF w[i].msg = "piece" THEN ~h[i - 1] /\ ~h[i] ELSE h[i] = (w[i] = CHOKE)
  BY <1>1, <1>2 DEF Follows
<1> DEFINE g == [i \in 0..(n + 1) |-> IF i = n + 1 THEN e ELSE h[i]]
<1>5. g \in [0..(n + 1) -> BOOLEAN]
  <2>1. \A i \in 0..(n + 1) : i # n + 1 => i \in 0..n
    BY <1>3, SMT
  <2>2. \A i \in 0..n : h[i] \in BOOLEAN
    BY <1>4
  <2>3. QED
    BY <2>1, <2>2
<1>6. g[n + 1] = e /\ \A i \in 0..n : g[i] = h[i]
  <2>1. n + 1 \in 0..(n + 1) /\ \A i \in 0..n : i \in 0..(n + 1) /\ i # n + 1
    BY <1>3, SMT
  <2>2. QED
    BY <2>1
<1> HIDE DEF g
<1>7. ASSUME NEW i \in 1..(n + 1)
      PROVE  IF Append(w, m)[i].msg = "piece" THEN ~g[i - 1] /\ ~g[i]
             ELSE g[i] = (Append(w, m)[i] = CHOKE)
  <2>1. CASE i = n + 1
    <3>1. i - 1 = n /\ n \in 0..n
      BY <2>1, <1>3, SMT
    <3>2. Append(w, m)[i] = m /\ g[i] = e /\ g[i - 1] = d
      BY <2>1, <3>1, <1>3, <1>4, <1>6
    <3>3. QED
      BY <3>2, Zenon
  <2>2. CASE i # n + 1
    <3>1. i \in 1..n /\ i \in 0..n /\ i - 1 \in 0..n
      BY <2>2, <1>3, SMT
    <3>2. Append(w, m)[i] = w[i] /\ g[i] = h[i] /\ g[i - 1] = h[i - 1]
      BY <3>1, <1>3, <1>6
    <3>3. QED
      BY <3>1, <3>2, <1>4, Zenon
  <2>3. QED
    BY <2>1, <2>2
<1>8. g[0] = b
  <2>1. 0 \in 0..n
    BY <1>3, SMT
  <2>2. QED
    BY <2>1, <1>4, <1>6
<1>9. Follows(g, Append(w, m), b, e)
  BY <1>3, <1>5, <1>6, <1>7, <1>8, Zenon DEF Follows
<1>10. QED
  BY <1>3, <1>5, <1>9, Zenon DEF Beliefs

\* What is handled first.
LEMMA FirstHandled ==
    ASSUME NEW w \in Seq(ToPeer), w # <<>>, NEW b, NEW d, Beliefs(w, b, d)
    PROVE  /\ Head(w).msg = "piece" => ~b /\ Beliefs(Tail(w), FALSE, d)
           /\ Head(w).msg # "piece" => Beliefs(Tail(w), Head(w) = CHOKE, d)
<1>1. PICK h \in [0..Len(w) -> BOOLEAN] : Follows(h, w, b, d)
  BY DEF Beliefs
<1>2. PICK n : n = Len(w)
  OBVIOUS
<1>3. /\ n \in Nat \ {0} /\ Len(Tail(w)) = n - 1 /\ Head(w) = w[1]
      /\ \A i \in 1..(n - 1) : Tail(w)[i] = w[i + 1]
  BY <1>2, TailFacts
<1>4. /\ h \in [0..n -> BOOLEAN] /\ h[0] = b /\ h[n] = d
      /\ \A i \in 1..n :
            IF w[i].msg = "piece" THEN ~h[i - 1] /\ ~h[i] ELSE h[i] = (w[i] = CHOKE)
  BY <1>1, <1>2 DEF Follows
<1> DEFINE g == [i \in 0..(n - 1) |-> h[i + 1]]
<1>5. g \in [0..(n - 1) -> BOOLEAN] /\ \A i \in 0..(n - 1) : g[i] = h[i + 1]
  <2>1. \A i \in 0..(n - 1) : i + 1 \in 0..n
    BY <1>3, SMT
  <2>2. QED
    BY <2>1, <1>4
<1> HIDE DEF g
<1>6. ASSUME NEW i \in 1..(n - 1)
      PROVE  IF Tail(w)[i].msg = "piece" THEN ~g[i - 1] /\ ~g[i]
             ELSE g[i] = (Tail(w)[i] = CHOKE)
  <2>1. /\ i + 1 \in 1..n /\ i \in 0..(n - 1) /\ i - 1 \in 0..(n - 1)
        /\ (i + 1) - 1 = i /\ (i - 1) + 1 = i
    BY <1>3, SMT
  <2>2. g[i] = h[i + 1] /\ g[i - 1] = h[i] /\ Tail(w)[i] = w[i + 1]
    BY <2>1, <1>3, <1>5
  <2>3. IF w[i + 1].msg = "piece" THEN ~h[(i + 1) - 1] /\ ~h[i + 1]
        ELSE h[i + 1] = (w[i + 1] = CHOKE)
    BY <2>1, <1>4
  <2>4. QED
    BY <2>1, <2>2, <2>3, Zenon
<1>7. g[n - 1] = d /\ g[0] = h[1]
  <2>1. 0 \in 0..(n - 1) /\ n - 1 \in 0..(n - 1) /\ (n - 1) + 1 = n /\ 0 + 1 = 1
    BY <1>3, SMT
  <2>2. QED
    BY <2>1, <1>4, <1>5
<1>8. Beliefs(Tail(w), h[1], d)
  <2>1. Follows(g, Tail(w), h[1], d)
    BY <1>3, <1>5, <1>6, <1>7, Zenon DEF Follows
  <2>2. QED
    BY <2>1, <1>3, <1>5, Zenon DEF Beliefs
<1>9. IF Head(w).msg = "piece" THEN ~b /\ ~h[1] ELSE h[1] = (Head(w) = CHOKE)
  <2>1. 1 \in 1..n /\ 1 - 1 = 0
    BY <1>3, SMT
  <2>2. IF w[1].msg = "piece" THEN ~h[1 - 1] /\ ~h[1] ELSE h[1] = (w[1] = CHOKE)
    BY <2>1, <1>4
  <2>3. QED
    BY <2>1, <2>2, <1>3, <1>4, Zenon
<1>10. h[1] \in BOOLEAN
  <2>1. 1 \in 0..n
    BY <1>3, SMT
  <2>2. QED
    BY <2>1, <1>4
<1>11. ASSUME Head(w).msg = "piece" PROVE ~b /\ Beliefs(Tail(w), FALSE, d)
  <2>1. ~b /\ ~h[1]
    BY <1>9, <1>11
  <2>2. h[1] = FALSE
    BY <2>1, <1>10
  <2>3. QED
    BY <2>1, <2>2, <1>8, Zenon
<1>12. ASSUME Head(w).msg # "piece" PROVE Beliefs(Tail(w), Head(w) = CHOKE, d)
  BY <1>8, <1>9, <1>12, Zenon
<1>13. QED
  BY <1>11, <1>12

\* A peer that does not know yet that it is choked is about to.
LEMMA ChokeUnderWay ==
    ASSUME NEW w \in Seq(ToPeer), Beliefs(w, FALSE, TRUE)
    PROVE  Contains(w, CHOKE)
<1>1. PICK h \in [0..Len(w) -> BOOLEAN] : Follows(h, w, FALSE, TRUE)
  BY DEF Beliefs
<1>2. PICK n : n = Len(w)
  OBVIOUS
<1>3. n \in Nat
  BY <1>2, LenProperties
<1>4. /\ h[0] = FALSE /\ h[n] = TRUE
      /\ \A i \in 1..n :
            IF w[i].msg = "piece" THEN ~h[i - 1] /\ ~h[i] ELSE h[i] = (w[i] = CHOKE)
  BY <1>1, <1>2 DEF Follows
<1>5. n \in 1..n
  <2>1. n # 0
    BY <1>4
  <2>2. QED
    BY <2>1, <1>3, SMT
<1>6. w[n] = CHOKE
  BY <1>4, <1>5, Zenon
<1>7. QED
  BY <1>2, <1>5, <1>6 DEF Contains

(***************************************************************************)
(* What the two ends do to their conversation.                             *)
(***************************************************************************)

LEMMA Connecting == Conversation(<<>>, <<>>, <<>>, {}, {}, TRUE, TRUE)
<1>1. Beliefs(<<>>, TRUE, TRUE)
  BY NothingSent
<1>2. \A i \in 1..Len(<<>>) : FALSE
  BY EmptySeq
<1>3. <<>> \in Seq(Slice) /\ <<>> \in Seq(ToPeer) /\ <<>> \in Seq(ToLocal)
  BY EmptySeq
<1>4. QED
  BY <1>1, <1>2, <1>3 DEF Conversation, Once

\* ChokePeer.
LEMMA Choking ==
    ASSUME NEW list, NEW wire, NEW mail, NEW want, NEW late, NEW b, NEW d,
           Conversation(list, wire, mail, want, late, b, d), NEW c \in BOOLEAN
    PROVE  Conversation(IF c THEN <<>> ELSE list,
                        Append(wire, IF c THEN CHOKE ELSE UNCHOKE), mail, want, late, b, c)
<1> DEFINE m == IF c THEN CHOKE ELSE UNCHOKE
           new == IF c THEN <<>> ELSE list
<1>1. m \in ToPeer /\ m.msg # "piece" /\ (c = (m = CHOKE))
  BY MessageFacts DEF ToPeer
<1>2. wire \in Seq(ToPeer) /\ Beliefs(wire, b, d)
  BY DEF Conversation
<1>3. Beliefs(Append(wire, m), b, c)
  BY <1>1, <1>2, OneMoreSent
<1>4. /\ Append(wire, m) \in Seq(ToPeer)
      /\ \A x : Contains(Append(wire, m), x) <=> Contains(wire, x) \/ x = m
  BY <1>1, <1>2, AppendFacts
<1>5. new \in Seq(Slice) /\ Once(new) /\ (c => new = <<>>)
  <2>1. <<>> \in Seq(Slice) /\ Once(<<>>)
    BY EmptySeq DEF Once
  <2>2. QED
    BY <2>1 DEF Conversation
<1>6. ASSUME NEW s \in want \ late PROVE Somewhere(new, Append(wire, m), mail, s)
  <2>1. Somewhere(list, wire, mail, s)
    BY DEF Conversation
  <2>2. CASE c
    BY <2>2, <1>4 DEF Somewhere
  <2>3. CASE ~c
    <3>1. new = list
      BY <2>3
    <3>2. QED
      BY <2>1, <3>1, <1>4, Zenon DEF Somewhere
  <2>4. QED
    BY <2>2, <2>3
<1> HIDE DEF m, new
<1>7. Conversation(new, Append(wire, m), mail, want, late, b, c)
  BY <1>3, <1>4, <1>5, <1>6, Zenon DEF Conversation
<1>8. QED
  BY <1>7 DEF m, new

\* do_pieces_send.
LEMMA Sending ==
    ASSUME NEW list, NEW wire, NEW mail, NEW want, NEW late, NEW b, NEW d,
           Conversation(list, wire, mail, want, late, b, d), ~d, list # <<>>
    PROVE  Conversation(RemoveAt(list, 1), Append(wire, Piece(list[1])), mail, want, late, b, d)
<1>1. list \in Seq(Slice) /\ Once(list) /\ wire \in Seq(ToPeer) /\ Beliefs(wire, b, d)
  BY DEF Conversation
<1>2. PICK s : s = list[1]
  OBVIOUS
<1>3. 1 \in 1..Len(list) /\ s \in Slice
  BY <1>1, <1>2, EmptySeq, ElementOfSeq
<1>4. /\ RemoveAt(list, 1) \in Seq(Slice) /\ Once(RemoveAt(list, 1))
      /\ \A x : Contains(list, x) => x = s \/ Contains(RemoveAt(list, 1), x)
  BY <1>1, <1>2, <1>3, RemovedFromList
<1>5. Piece(s) \in ToPeer /\ Piece(s).msg = "piece"
  BY <1>3, MessageFacts DEF ToPeer
<1>6. d \in BOOLEAN
  BY DEF Conversation
<1>7. Beliefs(Append(wire, Piece(s)), b, d)
  BY <1>1, <1>5, <1>6, OneMoreSent
<1>8. /\ Append(wire, Piece(s)) \in Seq(ToPeer)
      /\ \A x : Contains(Append(wire, Piece(s)), x) <=> Contains(wire, x) \/ x = Piece(s)
  BY <1>1, <1>5, AppendFacts
<1>9. ASSUME NEW t \in want \ late
      PROVE  Somewhere(RemoveAt(list, 1), Append(wire, Piece(s)), mail, t)
  <2>1. Somewhere(list, wire, mail, t)
    BY DEF Conversation
  <2>2. QED
    BY <2>1, <1>4, <1>8, Zenon DEF Somewhere
<1>10. Conversation(RemoveAt(list, 1), Append(wire, Piece(s)), mail, want, late, b, d)
  BY <1>4, <1>7, <1>8, <1>9, Zenon DEF Conversation
<1>11. QED
  BY <1>2, <1>10

\* What is left when message n was handled: each slice is still asked for after
\* the CANCELs of it, unless message n was the request that overtook one.
LEMMA HandledMail ==
    ASSUME NEW mail \in Seq(ToLocal), NEW n \in 1..Len(mail)
    PROVE  /\ RemoveAt(mail, n) \in Seq(ToLocal)
           /\ \A x : Contains(mail, x) => Contains(RemoveAt(mail, n), x) \/ x = mail[n]
           /\ \A s : AskedAgain(mail, s) =>
                 /\ \/ AskedAgain(RemoveAt(mail, n), s)
                    \/ /\ mail[n] = Request(s)
                       /\ \E i \in 1..Len(mail) : mail[i] = Cancel(s) /\ i < n
                 /\ mail[n] = Cancel(s) => Contains(RemoveAt(mail, n), Request(s))
<1>1. PICK L, rest : L = Len(mail) /\ rest = RemoveAt(mail, n)
  OBVIOUS
<1>2. /\ L \in Nat /\ n \in 1..L /\ rest \in Seq(ToLocal) /\ Len(rest) = L - 1
      /\ \A k \in 1..(L - 1) : rest[k] = IF k < n THEN mail[k] ELSE mail[k + 1]
  BY <1>1, RemoveAtFacts, LenProperties
<1>3. ASSUME NEW j \in 1..L, j # n
      PROVE  \E k \in 1..(L - 1) : rest[k] = mail[j] /\ (IF j < n THEN k = j ELSE k = j - 1)
  <2>1. CASE j < n
    <3>1. j \in 1..(L - 1)
      BY <1>2, <2>1, SMT
    <3>2. QED
      BY <1>2, <2>1, <3>1
  <2>2. CASE ~(j < n)
    <3>1. j - 1 \in 1..(L - 1) /\ ~(j - 1 < n) /\ (j - 1) + 1 = j
      BY <1>2, <1>3, <2>2, SMT
    <3>2. QED
      BY <1>2, <2>2, <3>1
  <2>3. QED
    BY <2>1, <2>2
<1>4. ASSUME NEW x, Contains(mail, x), x # mail[n] PROVE Contains(rest, x)
  <2>1. PICK j \in 1..L : mail[j] = x
    BY <1>1, <1>4 DEF Contains
  <2>2. PICK k \in 1..(L - 1) : rest[k] = mail[j]
    BY <1>3, <1>4, <2>1
  <2>3. QED
    BY <1>2, <2>1, <2>2 DEF Contains
<1>5. ASSUME NEW s, AskedAgain(mail, s),
             ~(mail[n] = Request(s) /\ \E i \in 1..L : mail[i] = Cancel(s) /\ i < n)
      PROVE  AskedAgain(rest, s)
  <2> SUFFICES ASSUME NEW k \in 1..(L - 1), rest[k] = Cancel(s)
               PROVE  \E m \in (k + 1)..(L - 1) : rest[m] = Request(s)
    BY <1>2 DEF AskedAgain
  <2>1. PICK i : i = IF k < n THEN k ELSE k + 1
    OBVIOUS
  <2>2. i \in 1..L /\ mail[i] = Cancel(s)
    BY <1>2, <2>1
  <2>3. PICK j \in (i + 1)..L : mail[j] = Request(s)
    BY <1>1, <1>5, <2>2 DEF AskedAgain
  <2>4. j \in 1..L /\ i < j
    BY <1>2, <2>2, SMT
  <2>5. j # n
    BY <1>5, <2>2, <2>3, <2>4
  <2>6. PICK m \in 1..(L - 1) : rest[m] = mail[j] /\ (IF j < n THEN m = j ELSE m = j - 1)
    BY <1>3, <2>4, <2>5
  <2>7. m \in (k + 1)..(L - 1)
    BY <1>2, <2>1, <2>4, <2>5, <2>6, SMT
  <2>8. QED
    BY <2>3, <2>6, <2>7
<1>6. ASSUME NEW s, AskedAgain(mail, s), mail[n] = Cancel(s) PROVE Contains(rest, Request(s))
  <2>1. PICK j \in (n + 1)..L : mail[j] = Request(s)
    BY <1>1, <1>2, <1>6 DEF AskedAgain
  <2>2. j \in 1..L /\ j # n
    BY <1>2, SMT
  <2>3. PICK k \in 1..(L - 1) : rest[k] = mail[j]
    BY <1>3, <2>2
  <2>4. QED
    BY <1>2, <2>1, <2>3 DEF Contains
<1>7. QED
  BY <1>1, <1>2, <1>4, <1>5, <1>6, Zenon

\* on_request.
LEMMA Requested ==
    ASSUME NEW list, NEW wire, NEW mail, NEW want, NEW late, NEW b, NEW d,
           Conversation(list, wire, mail, want, late, b, d),
           NEW n \in 1..Len(mail), NEW s \in Slice, mail[n] = Request(s), NEW new,
           new = IF d \/ Contains(list, s) THEN list ELSE Append(list, s),
           NEW later, later = IF \E i \in 1..Len(mail) : mail[i] = Cancel(s) /\ i < n
                              THEN late \cup {s} ELSE late
    PROVE  Conversation(new, wire, RemoveAt(mail, n), want, later, b, d)
<1>1. list \in Seq(Slice) /\ mail \in Seq(ToLocal) /\ wire \in Seq(ToPeer) /\ d \in BOOLEAN
  BY DEF Conversation
<1>2. PICK rest : rest = RemoveAt(mail, n)
  OBVIOUS
<1>3. /\ rest \in Seq(ToLocal)
      /\ \A x : Contains(mail, x) => Contains(rest, x) \/ x = Request(s)
  BY <1>1, <1>2, HandledMail
<1>4. /\ new \in Seq(Slice) /\ Once(new) /\ (d => new = <<>>)
      /\ \A x : Contains(list, x) => Contains(new, x)
      /\ d \/ Contains(new, s)
  <2>1. CASE d \/ Contains(list, s)
    BY <2>1 DEF Conversation
  <2>2. CASE ~d /\ ~Contains(list, s)
    <3>1. PICK m : m = Len(list)
      OBVIOUS
    <3>2. /\ new = Append(list, s) /\ new \in Seq(Slice) /\ m \in Nat /\ Len(new) = m + 1
          /\ \A i \in 1..m : new[i] = list[i]
          /\ new[m + 1] = s
          /\ \A x : Contains(new, x) <=> Contains(list, x) \/ x = s
      BY <2>2, <3>1, <1>1, AppendFacts
    <3>3. Once(new)
      <4> SUFFICES ASSUME NEW i \in 1..(m + 1), NEW j \in 1..(m + 1), new[i] = new[j]
                   PROVE  i = j
        BY <3>2 DEF Once
      <4>1. \A k \in 1..m : new[k] # s
        BY <2>2, <3>1, <3>2 DEF Contains
      <4>2. \A k, j2 \in 1..m : new[k] = new[j2] => k = j2
        BY <3>1, <3>2 DEF Conversation, Once
      <4>3. (i \in 1..m \/ i = m + 1) /\ (j \in 1..m \/ j = m + 1)
        BY <3>2, SMT
      <4>4. QED
        BY <3>2, <4>1, <4>2, <4>3, Zenon
    <3>4. QED
      BY <2>2, <3>2, <3>3
  <2>3. QED
    BY <2>1, <2>2
<1>5. ASSUME NEW t \in want \ later
      PROVE  AskedAgain(rest, t) /\ Somewhere(new, wire, rest, t)
  <2>1. AskedAgain(mail, t) /\ Somewhere(list, wire, mail, t)
    <3>1. t \in want \ late
      OBVIOUS
    <3>2. QED
      BY <3>1 DEF Conversation
  <2>2. AskedAgain(rest, t)
    <3>1. \/ AskedAgain(rest, t)
          \/ mail[n] = Request(t) /\ \E i \in 1..Len(mail) : mail[i] = Cancel(t) /\ i < n
      BY <1>1, <1>2, <2>1, HandledMail
    <3>2. ASSUME mail[n] = Request(t), \E i \in 1..Len(mail) : mail[i] = Cancel(t) /\ i < n
          PROVE  FALSE
      <4>1. t = s
        BY <3>2, MessageFacts
      <4>2. QED
        BY <3>2, <4>1
    <3>3. QED
      BY <3>1, <3>2
  <2>3. CASE Request(t) # Request(s)
    BY <1>3, <1>4, <2>1, <2>2, <2>3, Zenon DEF Somewhere
  <2>4. CASE Request(t) = Request(s)
    <3>1. t = s
      BY <2>4, MessageFacts
    <3>2. CASE ~d
      BY <1>4, <2>2, <3>1, <3>2 DEF Somewhere
    <3>3. CASE d
      <4>1. Beliefs(wire, FALSE, TRUE)
        <5>1. b = FALSE /\ d = TRUE
          BY <3>3 DEF Conversation
        <5>2. QED
          BY <5>1 DEF Conversation
      <4>2. Contains(wire, CHOKE)
        BY <4>1, <1>1, ChokeUnderWay
      <4>3. QED
        BY <2>2, <4>2 DEF Somewhere
    <3>4. QED
      BY <3>2, <3>3
  <2>5. QED
    BY <2>3, <2>4
<1>6. later \in SUBSET Slice
  BY DEF Conversation
<1>7. Conversation(new, wire, rest, want, later, b, d)
  BY <1>3, <1>4, <1>5, <1>6, Zenon DEF Conversation
<1>8. QED
  BY <1>2, <1>7

\* on_cancel.
LEMMA Cancelled ==
    ASSUME NEW list, NEW wire, NEW mail, NEW want, NEW late, NEW b, NEW d,
           Conversation(list, wire, mail, want, late, b, d),
           NEW n \in 1..Len(mail), NEW s \in Slice, mail[n] = Cancel(s)
    PROVE  Conversation(RemoveFirst(list, s), wire, RemoveAt(mail, n), want, late, b, d)
<1>1. list \in Seq(Slice) /\ Once(list) /\ mail \in Seq(ToLocal)
  BY DEF Conversation
<1>2. PICK rest : rest = RemoveAt(mail, n)
  OBVIOUS
<1>3. /\ rest \in Seq(ToLocal)
      /\ \A x : Contains(mail, x) => Contains(rest, x) \/ x = Cancel(s)
  BY <1>1, <1>2, HandledMail
<1>4. PICK new : new = RemoveFirst(list, s)
  OBVIOUS
<1>5. /\ new \in Seq(Slice) /\ Once(new) /\ (list = <<>> => new = <<>>)
      /\ \A x : Contains(list, x) => x = s \/ Contains(new, x)
  BY <1>1, <1>4, CancelledFromList
<1>6. ASSUME NEW t \in want \ late
      PROVE  AskedAgain(rest, t) /\ Somewhere(new, wire, rest, t)
  <2>1. AskedAgain(mail, t) /\ Somewhere(list, wire, mail, t)
    BY DEF Conversation
  <2>2. Request(t) # Cancel(s)
    BY MessageFacts
  <2>3. /\ AskedAgain(rest, t)
        /\ s = t => Contains(rest, Request(t))
    BY <1>1, <1>2, <2>1, <2>2, HandledMail
  <2>4. QED
    BY <1>3, <1>5, <2>1, <2>2, <2>3, Zenon DEF Somewhere
<1>7. Conversation(new, wire, rest, want, late, b, d)
  BY <1>3, <1>5, <1>6, Zenon DEF Conversation
<1>8. QED
  BY <1>2, <1>4, <1>7

\* The peer asks for one slice more.
LEMMA Asking ==
    ASSUME NEW list, NEW wire, NEW mail, NEW want, NEW late, NEW b, NEW d,
           Conversation(list, wire, mail, want, late, b, d), ~b, NEW s \in Slice
    PROVE  Conversation(list, wire, Append(mail, Request(s)), want \cup {s}, late \ {s}, b, d)
<1>1. mail \in Seq(ToLocal) /\ Request(s) \in ToLocal
  BY DEF Conversation, ToLocal
<1>2. PICK n, new : n = Len(mail) /\ new = Append(mail, Request(s))
  OBVIOUS
<1>3. /\ new \in Seq(ToLocal) /\ n \in Nat /\ Len(new) = n + 1
      /\ \A i \in 1..n : new[i] = mail[i]
      /\ new[n + 1] = Request(s)
      /\ \A x : Contains(new, x) <=> Contains(mail, x) \/ x = Request(s)
  BY <1>1, <1>2, AppendFacts
<1>4. ASSUME NEW t \in (want \cup {s}) \ (late \ {s}) PROVE AskedAgain(new, t)
  <2> SUFFICES ASSUME NEW i \in 1..(n + 1), new[i] = Cancel(t)
               PROVE  \E j \in (i + 1)..(n + 1) : new[j] = Request(t)
    BY <1>3 DEF AskedAgain
  <2>1. i # n + 1
    BY <1>3, MessageFacts
  <2>2. i \in 1..n /\ n + 1 \in (i + 1)..(n + 1)
    BY <1>3, <2>1, SMT
  <2>3. CASE t = s
    BY <1>3, <2>2, <2>3
  <2>4. CASE t # s
    <3>1. t \in want \ late /\ mail[i] = Cancel(t)
      BY <1>3, <2>2, <2>4
    <3>2. PICK j \in (i + 1)..n : mail[j] = Request(t)
      BY <3>1, <2>2, <1>2 DEF Conversation, AskedAgain
    <3>3. j \in 1..n /\ j \in (i + 1)..(n + 1)
      BY <1>3, <2>2, SMT
    <3>4. QED
      BY <3>2, <3>3, <1>3
  <2>5. QED
    BY <2>3, <2>4
<1>5. ASSUME NEW t \in (want \cup {s}) \ (late \ {s}) PROVE Somewhere(list, wire, new, t)
  <2>1. CASE t = s
    BY <1>3, <2>1, Zenon DEF Somewhere
  <2>2. CASE t \in want \ late
    <3>1. Somewhere(list, wire, mail, t)
      BY <2>2 DEF Conversation
    <3>2. QED
      BY <1>3, <3>1, Zenon DEF Somewhere
  <2>3. QED
    BY <2>1, <2>2
<1>6. want \cup {s} \in SUBSET Slice /\ late \ {s} \in SUBSET Slice
  BY DEF Conversation
<1>7. Conversation(list, wire, new, want \cup {s}, late \ {s}, b, d)
  BY <1>3, <1>4, <1>5, <1>6, Zenon DEF Conversation
<1>8. QED
  BY <1>2, <1>7

\* The peer does not want one of its slices any more.
LEMMA Cancelling ==
    ASSUME NEW list, NEW wire, NEW mail, NEW want, NEW late, NEW b, NEW d,
           Conversation(list, wire, mail, want, late, b, d), NEW s \in want
    PROVE  Conversation(list, wire, Append(mail, Cancel(s)), want \ {s}, late, b, d)
<1>1. mail \in Seq(ToLocal) /\ Cancel(s) \in ToLocal
  BY DEF Conversation, ToLocal
<1>2. PICK n, new : n = Len(mail) /\ new = Append(mail, Cancel(s))
  OBVIOUS
<1>3. /\ new \in Seq(ToLocal) /\ n \in Nat /\ Len(new) = n + 1
      /\ \A i \in 1..n : new[i] = mail[i]
      /\ new[n + 1] = Cancel(s)
      /\ \A x : Contains(new, x) <=> Contains(mail, x) \/ x = Cancel(s)
  BY <1>1, <1>2, AppendFacts
<1>4. ASSUME NEW t \in (want \ {s}) \ late PROVE AskedAgain(new, t)
  <2> SUFFICES ASSUME NEW i \in 1..(n + 1), new[i] = Cancel(t)
               PROVE  \E j \in (i + 1)..(n + 1) : new[j] = Request(t)
    BY <1>3 DEF AskedAgain
  <2>1. i # n + 1
    BY <1>3, MessageFacts
  <2>2. i \in 1..n
    BY <1>3, <2>1, SMT
  <2>3. mail[i] = Cancel(t)
    BY <1>3, <2>2
  <2>4. PICK j \in (i + 1)..n : mail[j] = Request(t)
    BY <2>3, <2>2, <1>2 DEF Conversation, AskedAgain
  <2>5. j \in 1..n /\ j \in (i + 1)..(n + 1)
    BY <1>3, <2>2, SMT
  <2>6. QED
    BY <2>4, <2>5, <1>3
<1>5. ASSUME NEW t \in (want \ {s}) \ late PROVE Somewhere(list, wire, new, t)
  <2>1. Somewhere(list, wire, mail, t)
    BY DEF Conversation
  <2>2. QED
    BY <1>3, <2>1, Zenon DEF Somewhere
<1>6. want \ {s} \in SUBSET Slice /\ (want \ {s} # {} => ~b)
  BY DEF Conversation
<1>7. Conversation(list, wire, new, want \ {s}, late, b, d)
  BY <1>3, <1>4, <1>5, <1>6, Zenon DEF Conversation
<1>8. QED
  BY <1>2, <1>7

\* The peer handles what it got.
LEMMA Receiving ==
    ASSUME NEW list, NEW wire, NEW mail, NEW want, NEW late, NEW b, NEW d,
           Conversation(list, wire, mail, want, late, b, d), wire # <<>>,
           NEW m, m = Head(wire), NEW rest, NEW belief,
           rest = IF m = CHOKE THEN {} ELSE IF m.msg = "piece" THEN want \ {m.slice} ELSE want,
           belief = IF m.msg = "piece" THEN b ELSE m = CHOKE
    PROVE  Conversation(list, Tail(wire), mail, rest, late, belief, d)
<1>1. wire \in Seq(ToPeer) /\ Beliefs(wire, b, d) /\ b \in BOOLEAN
  BY DEF Conversation
<1>2. /\ m \in ToPeer /\ Tail(wire) \in Seq(ToPeer)
      /\ \A x : Contains(wire, x) <=> Contains(Tail(wire), x) \/ x = m
  BY <1>1, TailFacts
<1>3. /\ m.msg = "piece" => ~b /\ Beliefs(Tail(wire), FALSE, d)
      /\ m.msg # "piece" => Beliefs(Tail(wire), m = CHOKE, d)
  BY <1>1, FirstHandled
<1>4. belief \in BOOLEAN /\ Beliefs(Tail(wire), belief, d)
  <2>1. CASE m.msg = "piece"
    <3>1. belief = FALSE
      BY <2>1, <1>1, <1>3
    <3>2. QED
      BY <2>1, <3>1, <1>3
  <2>2. CASE m.msg # "piece"
    BY <2>2, <1>3
  <2>3. QED
    BY <2>1, <2>2
<1>5. rest \in SUBSET want /\ rest \in SUBSET Slice
  BY DEF Conversation
<1>6. ASSUME rest # {} PROVE ~belief
  <2>1. m # CHOKE /\ ~b
    BY <1>5, <1>6 DEF Conversation
  <2>2. QED
    BY <2>1, <1>1
<1>7. ASSUME NEW t \in rest \ late PROVE Somewhere(list, Tail(wire), mail, t)
  <2>1. Somewhere(list, wire, mail, t)
    BY <1>5 DEF Conversation
  <2>2. m # CHOKE
    BY <1>7
  <2>3. m # Piece(t)
    BY <1>7, <2>2, MessageFacts
  <2>4. QED
    BY <1>2, <2>1, <2>2, <2>3, Zenon DEF Somewhere
<1>8. QED
  BY <1>2, <1>4, <1>5, <1>6, <1>7, Zenon DEF Conversation

(***************************************************************************)
(* The first of a finite set.  before is the order, as a set of pairs.     *)
(***************************************************************************)

Orders(before, S) ==
    /\ \A x \in S : <<x, x>> \notin before
    /\ \A x, y, z \in S : <<x, y>> \in before /\ <<y, z>> \in before => <<x, z>> \in before
    /\ \A x, y \in S : x = y \/ <<x, y>> \in before \/ <<y, x>> \in before

Ahead(S, l, before) == {k \in S : <<k, l>> \in before}
First(S, n, before) == {l \in S : Cardinality(Ahead(S, l, before)) < n}

LEMMA OneIsFirst ==
    ASSUME NEW S, IsFiniteSet(S), NEW before, Orders(before, S), S # {}
    PROVE  \E x \in S : \A y \in S : y # x => <<x, y>> \in before
<1> DEFINE rank(x) == Cardinality(Ahead(S, x, before))
           ranks == {rank(x) : x \in S}
<1>1. \A x \in S : Ahead(S, x, before) \in SUBSET S /\ IsFiniteSet(Ahead(S, x, before))
  BY FS_Subset DEF Ahead
<1>2. ranks \in SUBSET Nat /\ ranks # {}
  BY <1>1, FS_CardinalityType
<1>3. PICK x \in S : \A y \in S : rank(x) <= rank(y)
  <2>1. PICK t \in ranks : \A u \in ranks : t <= u
    BY <1>2, NatMin
  <2>2. PICK x \in S : t = rank(x)
    OBVIOUS
  <2>3. QED
    BY <2>1, <2>2
<1>4. ASSUME NEW y \in S, <<y, x>> \in before PROVE FALSE
  <2>1. Ahead(S, y, before) \in SUBSET Ahead(S, x, before)
    BY <1>4 DEF Orders, Ahead
  <2>2. y \in Ahead(S, x, before) /\ y \notin Ahead(S, y, before)
    BY <1>4 DEF Orders, Ahead
  <2>3. rank(y) <= rank(x) /\ rank(x) # rank(y)
    BY <2>1, <2>2, <1>1, FS_Subset
  <2>4. rank(x) \in Nat /\ rank(y) \in Nat /\ rank(x) <= rank(y)
    BY <1>1, <1>3, FS_CardinalityType
  <2>5. QED
    BY <2>3, <2>4
<1>5. QED
  BY <1>4 DEF Orders

LEMMA OneIsLast ==
    ASSUME NEW S, IsFiniteSet(S), NEW before, Orders(before, S), S # {}
    PROVE  \E x \in S : \A y \in S : y # x => <<y, x>> \in before
<1> DEFINE after == {p \in S \X S : <<p[2], p[1]>> \in before}
<1>1. \A x, y \in S : <<x, y>> \in after <=> <<y, x>> \in before
  OBVIOUS
<1> HIDE DEF after
<1>2. Orders(after, S)
  BY <1>1 DEF Orders
<1>3. \E x \in S : \A y \in S : y # x => <<x, y>> \in after
  BY <1>2, OneIsFirst
<1>4. QED
  BY <1>1, <1>3

\* There are as many as there shall be, or there are no more.
LEMMA FirstCount ==
    ASSUME NEW S, IsFiniteSet(S), NEW before, Orders(before, S), NEW n \in Nat
    PROVE  LET F == First(S, n, before) IN
           /\ F \in SUBSET S /\ IsFiniteSet(F) /\ Cardinality(F) \in 0..n
           /\ Cardinality(F) = n \/ F = S
<1> DEFINE F == First(S, n, before)
<1>1. F \in SUBSET S /\ IsFiniteSet(F) /\ Cardinality(F) \in Nat
  BY FS_Subset, FS_CardinalityType DEF First
<1>2. \A x \in S : /\ Ahead(S, x, before) \in SUBSET S /\ IsFiniteSet(Ahead(S, x, before))
                   /\ Cardinality(Ahead(S, x, before)) \in Nat
  BY FS_Subset, FS_CardinalityType DEF Ahead
<1>3. \A T \in SUBSET S : IsFiniteSet(T) /\ Orders(before, T)
  BY FS_Subset DEF Orders
<1>4. Cardinality(F) <= n
  <2>1. CASE F = {}
    BY <2>1, <1>1, FS_EmptySet
  <2>2. CASE F # {}
    <3>1. PICK x \in F : \A y \in F : y # x => <<y, x>> \in before
      BY <2>2, <1>1, <1>3, OneIsLast
    <3>2. F \ {x} \in SUBSET Ahead(S, x, before)
      BY <3>1, <1>1 DEF Ahead
    <3>3. Cardinality(Ahead(S, x, before)) < n /\ x \in S
      BY <3>1 DEF First
    <3>4. Cardinality(F \ {x}) <= Cardinality(Ahead(S, x, before))
      BY <3>2, <3>3, <1>2, FS_Subset
    <3>5. Cardinality(F \ {x}) = Cardinality(F) - 1
      BY <3>1, <1>1, FS_RemoveElement
    <3>6. QED
      BY <3>3, <3>4, <3>5, <1>1, <1>2
  <2>3. QED
    BY <2>1, <2>2
<1>5. ASSUME F # S PROVE Cardinality(F) >= n
  <2>1. S \ F # {} /\ S \ F \in SUBSET S
    BY <1>1, <1>5
  <2>2. PICK x \in S \ F : \A y \in S \ F : y # x => <<x, y>> \in before
    BY <2>1, <1>3, OneIsFirst
  <2>3. Ahead(S, x, before) \in SUBSET F
    BY <2>2 DEF Ahead, Orders
  <2>4. ~(Cardinality(Ahead(S, x, before)) < n)
    BY <2>2 DEF First
  <2>5. Cardinality(Ahead(S, x, before)) <= Cardinality(F)
    BY <2>3, <1>1, FS_Subset
  <2>6. QED
    BY <2>2, <2>4, <2>5, <1>1, <1>2
<1>6. QED
  BY <1>1, <1>4, <1>5

LEMMA OnlyOneFirst ==
    ASSUME NEW S, IsFiniteSet(S), NEW before, Orders(before, S)
    PROVE  \A x, y \in First(S, 1, before) : x = y
<1> SUFFICES ASSUME NEW x \in First(S, 1, before), NEW y \in First(S, 1, before)
             PROVE  x = y
  OBVIOUS
<1>1. ASSUME NEW z \in First(S, 1, before) PROVE Ahead(S, z, before) = {} /\ z \in S
  <2>1. IsFiniteSet(Ahead(S, z, before))
    BY FS_Subset DEF Ahead
  <2>2. Cardinality(Ahead(S, z, before)) = 0
    BY <2>1, FS_CardinalityType DEF First
  <2>3. QED
    BY <2>1, <2>2, FS_EmptySet DEF First
<1>2. QED
  BY <1>1 DEF Ahead, Orders

----------------------------------------------------------------------------

\* The links of a set in the order in which the searches find them.
LEMMA SearchFacts ==
    ASSUME NEW S \in SUBSET links, Shape, NEW rate \in [links -> Rate], NEW n \in Nat
    PROVE  /\ IsFiniteSet(S) /\ IsFiniteSet(links)
           /\ Fastest(S, n, rate) \in SUBSET S /\ Slowest(S, 1, rate) \in SUBSET S
           /\ IsFiniteSet(Fastest(S, n, rate))
           /\ Cardinality(Fastest(S, n, rate)) \in 0..n
           /\ Cardinality(Fastest(S, n, rate)) = n \/ Fastest(S, n, rate) = S
           /\ \A x, y \in Fastest(S, 1, rate) : x = y
           /\ \A x, y \in Slowest(S, 1, rate) : x = y
<1> DEFINE fast == {p \in S \X S : Faster(p[1], p[2], rate)}
           slow == {p \in S \X S : Slower(p[1], p[2], rate)}
<1>1. IsFiniteSet(links) /\ IsFiniteSet(S)
  BY UploadAssumption, FS_Subset DEF Shape
<1>2. \A x \in S : x \in Int /\ rate[x] \in Int
  BY UploadAssumption DEF Shape
<1>3. \A x, y \in S : /\ <<x, y>> \in fast <=> Faster(x, y, rate)
                      /\ <<x, y>> \in slow <=> Slower(x, y, rate)
  OBVIOUS
<1> HIDE DEF fast, slow
<1>4. /\ \A x \in S : ~Faster(x, x, rate) /\ ~Slower(x, x, rate)
      /\ \A x, y, z \in S :
            /\ Faster(x, y, rate) /\ Faster(y, z, rate) => Faster(x, z, rate)
            /\ Slower(x, y, rate) /\ Slower(y, z, rate) => Slower(x, z, rate)
      /\ \A x, y \in S :
            /\ x = y \/ Faster(x, y, rate) \/ Faster(y, x, rate)
            /\ x = y \/ Slower(x, y, rate) \/ Slower(y, x, rate)
  BY <1>2, SMT DEF Faster, Slower
<1>5. Orders(fast, S) /\ Orders(slow, S)
  BY <1>3, <1>4 DEF Orders
<1>6. ASSUME NEW k \in Nat PROVE Fastest(S, k, rate) = First(S, k, fast)
  <2>1. \A l \in S : {i \in S : Faster(i, l, rate)} = Ahead(S, l, fast)
    BY <1>3 DEF Ahead
  <2>2. QED
    BY <2>1 DEF Fastest, First
<1>7. Slowest(S, 1, rate) = First(S, 1, slow)
  <2>1. \A l \in S : {i \in S : Slower(i, l, rate)} = Ahead(S, l, slow)
    BY <1>3 DEF Ahead
  <2>2. QED
    BY <2>1 DEF Slowest, First
<1>8. \A x, y \in Fastest(S, 1, rate) : x = y
  <2>1. Fastest(S, 1, rate) = First(S, 1, fast)
    BY <1>6
  <2>2. QED
    BY <2>1, <1>1, <1>5, OnlyOneFirst
<1>9. \A x, y \in Slowest(S, 1, rate) : x = y
  BY <1>1, <1>5, <1>7, OnlyOneFirst
<1>10. Slowest(S, 1, rate) \in SUBSET S
  BY DEF Slowest
<1>11. Fastest(S, n, rate) = First(S, n, fast)
  BY <1>6
<1>12. QED
  BY <1>1, <1>5, <1>8, <1>9, <1>10, <1>11, FirstCount

\* What ChokePeer makes of the decisions, by the message that it sends.
Tells(c, S, m, r) ==
    /\ r.choking = [l \in Link |-> IF l \in S THEN m = CHOKE ELSE c.choking[l]]
    /\ r.list = [l \in Link |-> IF l \in S /\ m = CHOKE THEN <<>> ELSE c.list[l]]
    /\ r.wire = [l \in Link |-> IF l \notin S THEN c.wire[l] ELSE Append(c.wire[l], m)]

LEMMA ChokePeerFacts ==
    ASSUME NEW c, DecisionOK(c), NEW S \in SUBSET links, links \in SUBSET Link,
           NEW m \in {CHOKE, UNCHOKE}, NEW r, Tells(c, S, m, r)
    PROVE  /\ DecisionOK(r)
           /\ Uploading(r) = IF m = CHOKE THEN Uploading(c) \ S ELSE Uploading(c) \cup S
<1>1. ASSUME NEW l \in Link
      PROVE  Conversation(r.list[l], r.wire[l], toLocal[l], asked[l], overtook[l], choked[l], r.choking[l])
  <2>1. Conversation(c.list[l], c.wire[l], toLocal[l], asked[l], overtook[l], choked[l], c.choking[l])
    BY DEF DecisionOK
  <2>2. CASE l \in S
    <3>1. PICK choke \in BOOLEAN : choke = (m = CHOKE)
      OBVIOUS
    <3>2. m = IF choke THEN CHOKE ELSE UNCHOKE
      BY <3>1
    <3>3. /\ r.choking[l] = choke /\ r.list[l] = IF choke THEN <<>> ELSE c.list[l]
          /\ r.wire[l] = Append(c.wire[l], m)
      BY <2>2, <3>1 DEF Tells
    <3>4. Conversation(IF choke THEN <<>> ELSE c.list[l],
                       Append(c.wire[l], IF choke THEN CHOKE ELSE UNCHOKE),
                       toLocal[l], asked[l], overtook[l], choked[l], choke)
      BY <2>1, Choking
    <3>5. QED
      BY <3>2, <3>3, <3>4
  <2>3. CASE l \notin S
    BY <2>1, <2>3 DEF Tells
  <2>4. QED
    BY <2>2, <2>3
<1>2. \A l \in Link : /\ r.list[l] \in Seq(Slice) /\ r.wire[l] \in Seq(ToPeer)
                      /\ r.choking[l] \in BOOLEAN
  BY <1>1 DEF Conversation
<1>3. /\ r.choking \in [Link -> BOOLEAN]
      /\ r.list \in [Link -> Seq(Slice)] /\ r.wire \in [Link -> Seq(ToPeer)]
  BY <1>2, Zenon DEF Tells
<1>4. \A l \in Link \ links : r.choking[l]
  BY DEF DecisionOK, Tells
<1>5. DecisionOK(r)
  BY <1>1, <1>3, <1>4, Zenon DEF DecisionOK
<1>6. Uploading(r) = IF m = CHOKE THEN Uploading(c) \ S ELSE Uploading(c) \cup S
  BY DEF Uploading, Tells
<1>7. QED
  BY <1>5, <1>6

LEMMA Chokes ==
    ASSUME NEW c, DecisionOK(c), NEW S \in SUBSET links, links \in SUBSET Link,
           NEW r, r = ChokePeer(c, S, TRUE)
    PROVE  DecisionOK(r) /\ Uploading(r) = Uploading(c) \ S
<1>1. PICK m \in {CHOKE, UNCHOKE} : m = CHOKE
  OBVIOUS
<1>2. Tells(c, S, m, r)
  BY <1>1 DEF ChokePeer, Tells
<1>3. /\ DecisionOK(r)
      /\ Uploading(r) = IF m = CHOKE THEN Uploading(c) \ S ELSE Uploading(c) \cup S
  BY <1>1, <1>2, ChokePeerFacts
<1>4. QED
  BY <1>1, <1>3

LEMMA Unchokes ==
    ASSUME NEW c, DecisionOK(c), NEW S \in SUBSET links, links \in SUBSET Link,
           NEW r, r = ChokePeer(c, S, FALSE)
    PROVE  DecisionOK(r) /\ Uploading(r) = Uploading(c) \cup S
<1>1. PICK m \in {CHOKE, UNCHOKE} : m = UNCHOKE /\ m # CHOKE
  BY MessageFacts
<1>2. Tells(c, S, m, r)
  BY <1>1 DEF ChokePeer, Tells
<1>3. /\ DecisionOK(r)
      /\ Uploading(r) = IF m = CHOKE THEN Uploading(c) \ S ELSE Uploading(c) \cup S
  BY <1>1, <1>2, ChokePeerFacts
<1>4. QED
  BY <1>1, <1>3

SlotsOK(c) == Cardinality(Uploading(c)) \in 0..MaxUpload

LEMMA UploadingFacts ==
    ASSUME Shape, NEW c
    PROVE  /\ Uploading(c) \in SUBSET links /\ IsFiniteSet(Uploading(c))
           /\ Cardinality(Uploading(c)) \in Nat /\ MaxUpload \in Nat
<1>1. IsFiniteSet(links) /\ MaxUpload \in Nat
  BY UploadAssumption, FS_Subset DEF Shape
<1>2. QED
  BY <1>1, FS_Subset, FS_CardinalityType DEF Uploading

\* count_download_from_local_peers.
LEMMA ChokeUninterestedFacts ==
    ASSUME Shape, NEW c, DecisionOK(c), SlotsOK(c), NEW r, r = ChokeUninterested(c)
    PROVE  /\ DecisionOK(r) /\ SlotsOK(r)
           /\ \A l \in Uploading(r) : remote_interested_local[l]
<1> DEFINE S == {l \in Uploading(c) : ~remote_interested_local[l]}
<1>1. S \in SUBSET links /\ links \in SUBSET Link
  BY DEF Uploading, Shape
<1>2. DecisionOK(r) /\ Uploading(r) = Uploading(c) \ S
  <2>1. r = ChokePeer(c, S, TRUE)
    BY DEF ChokeUninterested
  <2>2. QED
    BY <1>1, <2>1, Chokes
<1>3. Cardinality(Uploading(r)) <= Cardinality(Uploading(c))
  BY <1>2, UploadingFacts, FS_Subset
<1>4. QED
  BY <1>2, <1>3, UploadingFacts DEF SlotsOK

\* All slots are given away, or nobody waits.
LEMMA FillSlotsFacts ==
    ASSUME Shape, NEW c, DecisionOK(c), SlotsOK(c), NEW rate \in [links -> Rate],
           NEW r, r = FillSlots(c, rate)
    PROVE  /\ DecisionOK(r) /\ SlotsOK(r)
           /\ \/ Cardinality(Uploading(r)) = MaxUpload
              \/ \A l \in links : remote_interested_local[l] => ~r.choking[l]
<1> DEFINE free == MaxUpload - Cardinality(Uploading(c))
           S == Fastest(Waiting(c), free, rate)
<1>1. free \in Nat
  BY UploadingFacts DEF SlotsOK
<1>2. Waiting(c) \in SUBSET links /\ links \in SUBSET Link
  BY DEF Waiting, Shape
<1>3. /\ S \in SUBSET Waiting(c) /\ IsFiniteSet(S) /\ Cardinality(S) \in 0..free
      /\ Cardinality(S) = free \/ S = Waiting(c)
  BY <1>1, <1>2, SearchFacts
<1>4. r = ChokePeer(c, S, FALSE)
  BY DEF FillSlots
<1>5. S \in SUBSET links
  BY <1>2, <1>3
<1>6. DecisionOK(r) /\ Uploading(r) = Uploading(c) \cup S
  BY <1>2, <1>4, <1>5, Unchokes
<1>7. Uploading(c) \cap S = {}
  BY <1>3 DEF Uploading, Waiting
<1>8. Cardinality(Uploading(r)) = Cardinality(Uploading(c)) + Cardinality(S)
  <2>1. Cardinality(Uploading(c) \cup S)
           = Cardinality(Uploading(c)) + Cardinality(S) - Cardinality(Uploading(c) \cap S)
    BY <1>3, UploadingFacts, FS_Union
  <2>2. Cardinality(Uploading(c) \cap S) = 0
    BY <1>7, FS_EmptySet
  <2>3. Cardinality(S) \in Nat /\ Cardinality(Uploading(c)) \in Nat
    BY <1>3, UploadingFacts, FS_CardinalityType
  <2>4. QED
    BY <1>6, <2>1, <2>2, <2>3
<1>9. SlotsOK(r)
  <2>1. Cardinality(S) \in 0..free /\ Cardinality(Uploading(c)) \in Nat /\ MaxUpload \in Nat
    BY <1>3, UploadingFacts
  <2>2. QED
    BY <1>8, <2>1 DEF SlotsOK
<1>10. CASE Cardinality(S) = free
  <2>1. Cardinality(Uploading(c)) \in Nat /\ MaxUpload \in Nat
    BY UploadingFacts
  <2>2. Cardinality(Uploading(r)) = MaxUpload
    BY <1>8, <1>10, <2>1
  <2>3. QED
    BY <2>2, <1>6, <1>9
<1>11. CASE S = Waiting(c)
  <2>1. \A l \in links : remote_interested_local[l] => ~r.choking[l]
    <3>1. \A l \in links : remote_interested_local[l] => l \in Uploading(c) \cup S
      BY <1>11 DEF Waiting, Uploading
    <3>2. QED
      BY <3>1, <1>6 DEF Uploading
  <2>2. QED
    BY <2>1, <1>6, <1>9
<1>12. QED
  BY <1>3, <1>10, <1>11

\* The rotation gives one slot from one peer to another.
LEMMA RotateFacts ==
    ASSUME Shape, NEW c, DecisionOK(c), SlotsOK(c), NEW rate \in [links -> Rate],
           NEW r, r = Rotate(c, rate)
    PROVE  /\ DecisionOK(r) /\ SlotsOK(r)
           /\ r = c \/ Cardinality(Uploading(r)) = MaxUpload
<1> DEFINE W == {l \in Uploading(c) : remote_interested_local[l]}
           B == {l \in links : c.choking[l] /\ remote_choking_local[l]}
           worst == Slowest(W, 1, rate)
           best == Fastest(B, 1, rate)
<1>1. W \in SUBSET links /\ B \in SUBSET links /\ links \in SUBSET Link
  BY DEF Uploading, Shape
<1>2. worst \in SUBSET W /\ \A x, y \in worst : x = y
  BY <1>1, SearchFacts
<1>3. best \in SUBSET B /\ \A x, y \in best : x = y
  BY <1>1, SearchFacts
<1>4. ASSUME Cardinality(Uploading(c)) >= MaxUpload,
             NEW w \in worst, NEW b \in best,
             r = ChokePeer(ChokePeer(c, worst, TRUE), best, FALSE)
      PROVE  DecisionOK(r) /\ Cardinality(Uploading(r)) = MaxUpload
  <2>1. worst = {w} /\ best = {b} /\ worst \in SUBSET links /\ best \in SUBSET links
    BY <1>1, <1>2, <1>3
  <2>2. PICK d : d = ChokePeer(c, worst, TRUE)
    OBVIOUS
  <2>3. DecisionOK(d) /\ Uploading(d) = Uploading(c) \ {w}
    BY <1>1, <2>1, <2>2, Chokes
  <2>4. DecisionOK(r) /\ Uploading(r) = Uploading(d) \cup {b}
    BY <1>1, <1>4, <2>1, <2>2, <2>3, Unchokes
  <2>5. w \in Uploading(c) /\ b \notin Uploading(c)
    BY <1>2, <1>3 DEF Uploading
  <2>6. IsFiniteSet(Uploading(d)) /\ Cardinality(Uploading(d)) = Cardinality(Uploading(c)) - 1
    BY <2>3, <2>5, UploadingFacts, FS_RemoveElement
  <2>7. Cardinality(Uploading(r)) = Cardinality(Uploading(d)) + 1
    BY <2>3, <2>4, <2>5, <2>6, FS_AddElement
  <2>8. Cardinality(Uploading(c)) = MaxUpload
    BY <1>4, UploadingFacts DEF SlotsOK
  <2>9. QED
    BY <2>4, <2>6, <2>7, <2>8, UploadingFacts
<1>5. \/ r = c
      \/ /\ Cardinality(Uploading(c)) >= MaxUpload /\ worst # {} /\ best # {}
         /\ r = ChokePeer(ChokePeer(c, worst, TRUE), best, FALSE)
  BY DEF Rotate
<1>6. MaxUpload \in 0..MaxUpload
  BY UploadingFacts
<1> HIDE DEF worst, best
<1>7. QED
  BY <1>4, <1>5, <1>6 DEF SlotsOK

\* check_peers_choke.
LEMMA CheckPeersChokeFacts ==
    ASSUME Shape, NEW c, DecisionOK(c), SlotsOK(c), NEW rate \in [links -> Rate],
           NEW r, r = CheckPeersChoke(c, rate)
    PROVE  /\ DecisionOK(r) /\ SlotsOK(r)
           /\ \/ Cardinality(Uploading(r)) = MaxUpload
              \/ \A l \in links : remote_interested_local[l] => ~r.choking[l]
<1>1. PICK d : d = ChokeUninterested(c)
  OBVIOUS
<1>2. PICK e : e = FillSlots(d, rate)
  OBVIOUS
<1>3. r = Rotate(e, rate)
  BY <1>1, <1>2 DEF CheckPeersChoke
<1>4. DecisionOK(d) /\ SlotsOK(d)
  BY <1>1, ChokeUninterestedFacts
<1>5. /\ DecisionOK(e) /\ SlotsOK(e)
      /\ \/ Cardinality(Uploading(e)) = MaxUpload
         \/ \A l \in links : remote_interested_local[l] => ~e.choking[l]
  BY <1>2, <1>4, FillSlotsFacts
<1>6. QED
  BY <1>3, <1>5, RotateFacts

\* do_pieces_send of every link.
LEMMA DoPiecesSendFacts ==
    ASSUME Shape, DecisionOK(Decided), NEW full, NEW r, r = DoPiecesSend(full)
    PROVE  DecisionOK(r) /\ Uploading(r) = Uploading(Decided)
<1> DEFINE served == {l \in links \ full : ~local_choking_remote[l] /\ remote_req[l] # <<>>}
<1>1. /\ Decided.choking = local_choking_remote /\ Decided.list = remote_req
      /\ Decided.wire = toPeer
  BY DEF Decided
<1>2. /\ r.choking = local_choking_remote
      /\ r.list = [l \in Link |-> IF l \in served THEN RemoveAt(remote_req[l], 1)
                                  ELSE remote_req[l]]
      /\ r.wire = [l \in Link |-> IF l \in served THEN Append(toPeer[l], Piece(remote_req[l][1]))
                                  ELSE toPeer[l]]
  BY DEF DoPiecesSend, Sent, Decided
<1>3. ASSUME NEW l \in Link
      PROVE  Conversation(r.list[l], r.wire[l], toLocal[l], asked[l], overtook[l], choked[l], r.choking[l])
  <2>1. Conversation(remote_req[l], toPeer[l], toLocal[l], asked[l], overtook[l], choked[l],
                     local_choking_remote[l])
    BY <1>1 DEF DecisionOK
  <2>2. CASE l \in served
    <3>1. /\ r.list[l] = RemoveAt(remote_req[l], 1)
          /\ r.wire[l] = Append(toPeer[l], Piece(remote_req[l][1]))
      BY <1>2, <2>2
    <3>2. Conversation(RemoveAt(remote_req[l], 1), Append(toPeer[l], Piece(remote_req[l][1])),
                       toLocal[l], asked[l], overtook[l], choked[l], local_choking_remote[l])
      BY <2>1, <2>2, Sending
    <3>3. QED
      BY <1>2, <3>1, <3>2
  <2>3. CASE l \notin served
    BY <1>2, <2>1, <2>3
  <2>4. QED
    BY <2>2, <2>3
<1>4. \A l \in Link : r.list[l] \in Seq(Slice) /\ r.wire[l] \in Seq(ToPeer)
  BY <1>3 DEF Conversation
<1>5. r.list \in [Link -> Seq(Slice)] /\ r.wire \in [Link -> Seq(ToPeer)]
  BY <1>2, <1>4, Zenon
<1>6. r.choking \in [Link -> BOOLEAN] /\ \A l \in Link \ links : r.choking[l]
  BY <1>1, <1>2 DEF DecisionOK
<1>7. DecisionOK(r)
  BY <1>3, <1>5, <1>6, Zenon DEF DecisionOK
<1>8. QED
  BY <1>1, <1>2, <1>7 DEF Uploading

(***************************************************************************)
(* The invariant.                                                          *)
(***************************************************************************)

Talks(l) ==
    Conversation(remote_req[l], toPeer[l], toLocal[l], asked[l], overtook[l], choked[l],
                 local_choking_remote[l])

\* One conversation changes.
Updates(l, list, wire, mail, want, late, b, d) ==
    /\ remote_req' = [remote_req EXCEPT ![l] = list]
    /\ toPeer' = [toPeer EXCEPT ![l] = wire]
    /\ toLocal' = [toLocal EXCEPT ![l] = mail]
    /\ asked' = [asked EXCEPT ![l] = want]
    /\ overtook' = [overtook EXCEPT ![l] = late]
    /\ choked' = [choked EXCEPT ![l] = b]
    /\ local_choking_remote' = [local_choking_remote EXCEPT ![l] = d]

LEMMA DecidedFacts ==
    ASSUME Inv
    PROVE  /\ Decided.choking = local_choking_remote /\ Decided.list = remote_req
           /\ Decided.wire = toPeer
           /\ local_choking_remote \in [Link -> BOOLEAN]
           /\ remote_req \in [Link -> Seq(Slice)] /\ toPeer \in [Link -> Seq(ToPeer)]
           /\ \A l \in Link : Talks(l)
           /\ \A l \in Link \ links : local_choking_remote[l]
           /\ SlotsOK(Decided)
<1>1. /\ Decided.choking = local_choking_remote /\ Decided.list = remote_req
      /\ Decided.wire = toPeer
  BY DEF Decided
<1>2. /\ local_choking_remote \in [Link -> BOOLEAN]
      /\ remote_req \in [Link -> Seq(Slice)] /\ toPeer \in [Link -> Seq(ToPeer)]
      /\ \A l \in Link : Talks(l)
      /\ \A l \in Link \ links : local_choking_remote[l]
  BY <1>1, Zenon DEF Inv, DecisionOK, Talks
<1>3. Cardinality(Uploading(Decided)) <= MaxUpload
  BY <1>1 DEF Inv, SlotBound, Uploading
<1>4. SlotsOK(Decided)
  BY <1>3, UploadingFacts DEF Inv, SlotsOK
<1>5. QED
  BY <1>1, <1>2, <1>4

LEMMA DecidedNext ==
    ASSUME local_choking_remote' \in [Link -> BOOLEAN],
           remote_req' \in [Link -> Seq(Slice)], toPeer' \in [Link -> Seq(ToPeer)],
           \A l \in Link : Talks(l)', \A l \in Link \ links' : local_choking_remote'[l]
    PROVE  DecisionOK(Decided)'
<1>1. /\ Decided'.choking = local_choking_remote' /\ Decided'.list = remote_req'
      /\ Decided'.wire = toPeer'
  BY DEF Decided
<1>2. QED
  BY <1>1, Zenon DEF DecisionOK, Talks

LEMMA OneTalks ==
    ASSUME Inv, NEW l \in Link,
           NEW list, NEW wire, NEW mail, NEW want, NEW late, NEW b, NEW d,
           Conversation(list, wire, mail, want, late, b, d),
           Updates(l, list, wire, mail, want, late, b, d),
           links' \in SUBSET Link,
           \A k \in Link \ links' : local_choking_remote'[k],
           remote_interested_local' \in [Link -> BOOLEAN],
           remote_choking_local' \in [Link -> BOOLEAN]
    PROVE  Shape' /\ DecisionOK(Decided)'
<1>1. /\ list \in Seq(Slice) /\ wire \in Seq(ToPeer) /\ mail \in Seq(ToLocal)
      /\ want \in SUBSET Slice /\ late \in SUBSET Slice /\ b \in BOOLEAN /\ d \in BOOLEAN
  BY DEF Conversation
<1>2. /\ local_choking_remote \in [Link -> BOOLEAN]
      /\ remote_req \in [Link -> Seq(Slice)] /\ toPeer \in [Link -> Seq(ToPeer)]
      /\ toLocal \in [Link -> Seq(ToLocal)] /\ asked \in [Link -> SUBSET Slice]
      /\ overtook \in [Link -> SUBSET Slice]
      /\ choked \in [Link -> BOOLEAN]
      /\ \A k \in Link : Talks(k)
  BY DecidedFacts DEF Inv, Shape
<1>3. /\ remote_req' \in [Link -> Seq(Slice)] /\ toPeer' \in [Link -> Seq(ToPeer)]
      /\ toLocal' \in [Link -> Seq(ToLocal)]
  BY <1>1, <1>2, SMT DEF Updates
<1>4. /\ asked' \in [Link -> SUBSET Slice] /\ overtook' \in [Link -> SUBSET Slice]
      /\ choked' \in [Link -> BOOLEAN]
      /\ local_choking_remote' \in [Link -> BOOLEAN]
  BY <1>1, <1>2 DEF Updates
<1>5. /\ remote_req'[l] = list /\ toPeer'[l] = wire /\ toLocal'[l] = mail /\ asked'[l] = want
      /\ overtook'[l] = late /\ choked'[l] = b /\ local_choking_remote'[l] = d
  BY <1>2 DEF Updates
<1>6. \A k \in Link : k # l =>
         /\ remote_req'[k] = remote_req[k] /\ toPeer'[k] = toPeer[k]
         /\ toLocal'[k] = toLocal[k] /\ asked'[k] = asked[k]
         /\ overtook'[k] = overtook[k]
         /\ choked'[k] = choked[k] /\ local_choking_remote'[k] = local_choking_remote[k]
  BY <1>2 DEF Updates
<1>7. ASSUME NEW k \in Link PROVE Talks(k)'
  <2>1. CASE k = l
    BY <1>5, <2>1, Zenon DEF Talks
  <2>2. CASE k # l
    <3>1. Talks(k)
      BY <1>2
    <3>2. QED
      BY <3>1, <1>6, <2>2, Zenon DEF Talks
  <2>3. QED
    BY <2>1, <2>2
<1>8. DecisionOK(Decided)'
  BY <1>3, <1>4, <1>7, DecidedNext
<1>9. QED
  BY <1>3, <1>4, <1>8 DEF Shape

\* What stays as it is.
LEMMA Unchanged ==
    ASSUME Inv, NEW l \in Link
    PROVE  /\ remote_req = [remote_req EXCEPT ![l] = remote_req[l]]
           /\ toPeer = [toPeer EXCEPT ![l] = toPeer[l]]
           /\ toLocal = [toLocal EXCEPT ![l] = toLocal[l]]
           /\ asked = [asked EXCEPT ![l] = asked[l]]
           /\ overtook = [overtook EXCEPT ![l] = overtook[l]]
           /\ choked = [choked EXCEPT ![l] = choked[l]]
           /\ local_choking_remote = [local_choking_remote EXCEPT ![l] = local_choking_remote[l]]
           /\ Talks(l)
BY DecidedFacts DEF Inv, Shape

\* A step of the conversation alone: no link comes or goes, nobody is choked.
LEMMA OneTalksOn ==
    ASSUME Inv, NEW l \in Link,
           NEW list, NEW wire, NEW mail, NEW want, NEW late, NEW b,
           Conversation(list, wire, mail, want, late, b, local_choking_remote[l]),
           Updates(l, list, wire, mail, want, late, b, local_choking_remote[l]),
           UNCHANGED <<links, chokeVars>>
    PROVE  Inv'
<1>1. /\ links' = links /\ local_choking_remote' = local_choking_remote
      /\ remote_interested_local' = remote_interested_local
      /\ remote_choking_local' = remote_choking_local
  BY DEF chokeVars
<1>2. /\ links' \in SUBSET Link
      /\ \A k \in Link \ links' : local_choking_remote'[k]
      /\ remote_interested_local' \in [Link -> BOOLEAN]
      /\ remote_choking_local' \in [Link -> BOOLEAN]
  BY <1>1, DecidedFacts DEF Inv, Shape
<1>3. Shape' /\ DecisionOK(Decided)'
  <2>1. PICK d : d = local_choking_remote[l]
    OBVIOUS
  <2>2. /\ Conversation(list, wire, mail, want, late, b, d)
        /\ Updates(l, list, wire, mail, want, late, b, d)
    BY <2>1
  <2>3. QED
    BY <1>2, <2>2, OneTalks
<1>4. SlotBound'
  BY <1>1 DEF Inv, SlotBound
<1>5. QED
  BY <1>3, <1>4 DEF Inv

LEMMA EstablishedKeeps == ASSUME Inv, NEW l \in Link, Established(l) PROVE Inv'
<1>1. /\ links' = links \cup {l} /\ l \notin links
      /\ UNCHANGED <<chokeVars, remote_req, toPeer, toLocal, peerVars, overtook>>
  BY DEF Established
<1>2. /\ Shape /\ local_choking_remote \in [Link -> BOOLEAN]
      /\ remote_req \in [Link -> Seq(Slice)] /\ toPeer \in [Link -> Seq(ToPeer)]
      /\ \A k \in Link : Talks(k)
      /\ \A k \in Link \ links : local_choking_remote[k]
  BY DecidedFacts DEF Inv
<1>3. Shape'
  BY <1>1, <1>2 DEF Shape, chokeVars, peerVars
<1>4. \A k \in Link : Talks(k)'
  BY <1>1, <1>2 DEF Talks, chokeVars, peerVars
<1>5. DecisionOK(Decided)'
  BY <1>1, <1>2, <1>4, DecidedNext DEF chokeVars
<1>6. {k \in links' : ~local_choking_remote'[k]} = {k \in links : ~local_choking_remote[k]}
  BY <1>1, <1>2 DEF chokeVars
<1>7. SlotBound'
  BY <1>6 DEF Inv, SlotBound
<1>8. QED
  BY <1>3, <1>5, <1>7 DEF Inv

LEMMA ClosedKeeps == ASSUME Inv, NEW l \in Link, Closed(l) PROVE Inv'
<1>1. Updates(l, <<>>, <<>>, <<>>, {}, {}, TRUE, TRUE)
  BY DEF Closed, Updates
<1>2. /\ links' = links \ {l}
      /\ local_choking_remote' = [local_choking_remote EXCEPT ![l] = TRUE]
      /\ remote_interested_local' = [remote_interested_local EXCEPT ![l] = FALSE]
      /\ remote_choking_local' = [remote_choking_local EXCEPT ![l] = TRUE]
  BY DEF Closed
<1>3. /\ Shape /\ local_choking_remote \in [Link -> BOOLEAN]
      /\ \A k \in Link \ links : local_choking_remote[k]
  BY DecidedFacts DEF Inv
<1>4. /\ links' \in SUBSET Link
      /\ \A k \in Link \ links' : local_choking_remote'[k]
      /\ remote_interested_local' \in [Link -> BOOLEAN]
      /\ remote_choking_local' \in [Link -> BOOLEAN]
  BY <1>2, <1>3 DEF Shape
<1>5. Shape' /\ DecisionOK(Decided)'
  <2>1. PICK list, none, t : list = <<>> /\ none = {} /\ t = TRUE
    OBVIOUS
  <2>2. Conversation(list, list, list, none, none, t, t) /\ Updates(l, list, list, list, none, none, t, t)
    BY <1>1, <2>1, Connecting
  <2>3. QED
    BY <1>4, <2>2, OneTalks
<1>6. {k \in links' : ~local_choking_remote'[k]}
         \in SUBSET {k \in links : ~local_choking_remote[k]}
  BY <1>2, <1>3 DEF Shape
<1>7. SlotBound'
  <2>1. PICK S : S = {k \in links : ~local_choking_remote[k]}
    OBVIOUS
  <2>2. PICK T : T = {k \in links' : ~local_choking_remote'[k]}
    OBVIOUS
  <2>3. S \in SUBSET Link /\ T \in SUBSET S
    BY <1>3, <1>6, <2>1, <2>2 DEF Shape
  <2>4. IsFiniteSet(S) /\ IsFiniteSet(T) /\ Cardinality(T) <= Cardinality(S)
    BY <2>3, UploadAssumption, FS_Subset
  <2>5. Cardinality(S) \in Nat /\ Cardinality(T) \in Nat /\ MaxUpload \in Nat
    BY <2>4, UploadAssumption, FS_CardinalityType
  <2>6. Cardinality(S) <= MaxUpload
    BY <2>1 DEF Inv, SlotBound
  <2>7. Cardinality(T) <= MaxUpload
    BY <2>4, <2>5, <2>6
  <2>8. QED
    BY <2>2, <2>7 DEF SlotBound
<1>8. QED
  BY <1>5, <1>7 DEF Inv

\* A tick decides, from a state of the decisions and to one of them.
LEMMA TickDecides ==
    ASSUME Inv, NEW due \in BOOLEAN, Tick(due)
    PROVE  \E c : /\ DecisionOK(c) /\ SlotsOK(c)
                  /\ local_choking_remote' = c.choking
                  /\ remote_req' = c.list /\ toPeer' = c.wire
                  /\ due => \/ Cardinality(Uploading(c)) = MaxUpload
                            \/ \A l \in links : remote_interested_local[l] => ~c.choking[l]
<1>1. PICK full \in SUBSET {l \in links : toPeer[l] # <<>>} :
         LET sent == DoPiecesSend(full) IN
         \E c \in IF due THEN {CheckPeersChoke(sent, rate) : rate \in [links -> Rate]}
                  ELSE {sent} :
            /\ local_choking_remote' = c.choking
            /\ remote_req' = c.list
            /\ toPeer' = c.wire
  BY DEF Tick
<1>2. PICK sent : sent = DoPiecesSend(full)
  OBVIOUS
<1>3. PICK c \in IF due THEN {CheckPeersChoke(sent, rate) : rate \in [links -> Rate]}
                 ELSE {sent} :
         local_choking_remote' = c.choking /\ remote_req' = c.list /\ toPeer' = c.wire
  BY <1>1, <1>2
<1>4. Shape /\ DecisionOK(Decided) /\ SlotsOK(Decided)
  BY DecidedFacts DEF Inv
<1>5. DecisionOK(sent) /\ Uploading(sent) = Uploading(Decided)
  BY <1>2, <1>4, DoPiecesSendFacts
<1>6. SlotsOK(sent)
  BY <1>4, <1>5 DEF SlotsOK
<1>7. CASE due
  <2>1. PICK rate \in [links -> Rate] : c = CheckPeersChoke(sent, rate)
    BY <1>3, <1>7
  <2>2. /\ DecisionOK(c) /\ SlotsOK(c)
        /\ \/ Cardinality(Uploading(c)) = MaxUpload
           \/ \A l \in links : remote_interested_local[l] => ~c.choking[l]
    BY <1>4, <1>5, <1>6, <2>1, CheckPeersChokeFacts
  <2>3. QED
    BY <1>3, <2>2
<1>8. CASE ~due
  BY <1>3, <1>5, <1>6, <1>8
<1>9. QED
  BY <1>7, <1>8

LEMMA TickKeeps == ASSUME Inv, NEW due \in BOOLEAN, Tick(due) PROVE Inv'
<1>1. PICK c : /\ DecisionOK(c) /\ SlotsOK(c)
               /\ local_choking_remote' = c.choking
               /\ remote_req' = c.list /\ toPeer' = c.wire
  BY TickDecides
<1>2. /\ links' = links /\ remote_interested_local' = remote_interested_local
      /\ remote_choking_local' = remote_choking_local /\ toLocal' = toLocal
      /\ asked' = asked /\ choked' = choked /\ overtook' = overtook
  BY DEF Tick, peerVars
<1>3. Shape'
  BY <1>2 DEF Inv, Shape
<1>4. \A l \in Link : Talks(l)'
  BY <1>1, <1>2 DEF DecisionOK, Talks
<1>5. DecisionOK(Decided)'
  BY <1>1, <1>2, <1>4, DecidedNext DEF DecisionOK
<1>6. SlotBound'
  BY <1>1, <1>2, UploadAssumption DEF SlotsOK, Uploading, SlotBound
<1>7. QED
  BY <1>3, <1>5, <1>6 DEF Inv

LEMMA ToldKeeps ==
    ASSUME Inv, NEW l \in Link, NEW b \in BOOLEAN, OnInterested(l, b) \/ OnChoke(l, b)
    PROVE  Inv'
<1>1. /\ links' = links /\ local_choking_remote' = local_choking_remote
      /\ remote_req' = remote_req /\ toPeer' = toPeer /\ toLocal' = toLocal
      /\ asked' = asked /\ choked' = choked /\ overtook' = overtook
  BY DEF OnInterested, OnChoke, peerVars
<1>2. Shape'
  BY <1>1 DEF Inv, Shape, OnInterested, OnChoke
<1>3. \A k \in Link : Talks(k)'
  <2>1. \A k \in Link : Talks(k)
    BY DecidedFacts
  <2>2. QED
    BY <1>1, <2>1 DEF Talks
<1>4. DecisionOK(Decided)'
  BY <1>1, <1>3, DecidedFacts, DecidedNext
<1>5. SlotBound'
  BY <1>1 DEF Inv, SlotBound
<1>6. QED
  BY <1>2, <1>4, <1>5 DEF Inv

LEMMA OnRequestKeeps == ASSUME Inv, NEW l \in Link, NEW s \in Wants[l], OnRequest(l, s) PROVE Inv'
<1>0. PICK i \in Arrived(l, Request(s)) :
         /\ toLocal' = [toLocal EXCEPT ![l] = RemoveAt(@, i)]
         /\ Overtakes(l, s, i)
  BY DEF OnRequest
<1>1. /\ s \in Slice /\ toLocal[l] \in Seq(ToLocal)
      /\ i \in 1..Len(toLocal[l]) /\ toLocal[l][i] = Request(s)
  BY <1>0, LenProperties DEF Arrived, Slice, Inv, Shape
<1>2. PICK later : later = IF \E j \in 1..Len(toLocal[l]) : toLocal[l][j] = Cancel(s) /\ j < i
                           THEN overtook[l] \cup {s} ELSE overtook[l]
  OBVIOUS
<1>3. PICK new : new = IF local_choking_remote[l] \/ Contains(remote_req[l], s)
                       THEN remote_req[l] ELSE Append(remote_req[l], s)
  OBVIOUS
<1>4. Talks(l)
  BY Unchanged
<1>5. Conversation(new, toPeer[l], RemoveAt(toLocal[l], i), asked[l], later, choked[l],
                   local_choking_remote[l])
  BY <1>1, <1>2, <1>3, <1>4, Requested DEF Talks
<1>6. overtook' = [overtook EXCEPT ![l] = later]
  <2>1. DOMAIN toLocal[l] = 1..Len(toLocal[l])
    BY <1>1, LenProperties
  <2>2. (\E j \in Arrived(l, Cancel(s)) : j < i) <=>
        (\E j \in 1..Len(toLocal[l]) : toLocal[l][j] = Cancel(s) /\ j < i)
    BY <2>1 DEF Arrived
  <2>3. overtook' = [overtook EXCEPT ![l] =
           IF \E j \in Arrived(l, Cancel(s)) : j < i THEN overtook[l] \cup {s} ELSE overtook[l]]
    BY <1>0 DEF Overtakes
  <2>4. QED
    BY <1>2, <2>2, <2>3
<1>7. /\ remote_req' = [remote_req EXCEPT ![l] = new]
      /\ toLocal' = [toLocal EXCEPT ![l] = RemoveAt(toLocal[l], i)]
      /\ UNCHANGED <<links, chokeVars, toPeer, peerVars>>
  BY <1>0, <1>3, Unchanged DEF OnRequest
<1>8. Updates(l, new, toPeer[l], RemoveAt(toLocal[l], i), asked[l], later, choked[l],
              local_choking_remote[l])
  BY <1>6, <1>7, Unchanged DEF Updates, chokeVars, peerVars
<1>9. QED
  BY <1>5, <1>7, <1>8, OneTalksOn

LEMMA OnCancelKeeps == ASSUME Inv, NEW l \in Link, NEW s \in Wants[l], OnCancel(l, s) PROVE Inv'
<1>1. PICK i \in Arrived(l, Cancel(s)) : toLocal' = [toLocal EXCEPT ![l] = RemoveAt(@, i)]
  BY DEF OnCancel
<1>2. /\ s \in Slice /\ i \in 1..Len(toLocal[l]) /\ toLocal[l][i] = Cancel(s)
  BY <1>1, LenProperties DEF Arrived, Slice, Inv, Shape
<1>3. PICK new : new = RemoveFirst(remote_req[l], s)
  OBVIOUS
<1>4. Talks(l)
  BY Unchanged
<1>5. Conversation(new, toPeer[l], RemoveAt(toLocal[l], i), asked[l], overtook[l], choked[l],
                   local_choking_remote[l])
  BY <1>2, <1>3, <1>4, Cancelled DEF Talks
<1>6. /\ remote_req' = [remote_req EXCEPT ![l] = new]
      /\ toLocal' = [toLocal EXCEPT ![l] = RemoveAt(toLocal[l], i)]
      /\ UNCHANGED <<links, chokeVars, toPeer, peerVars, overtook>>
  BY <1>1, <1>3 DEF OnCancel
<1>7. Updates(l, new, toPeer[l], RemoveAt(toLocal[l], i), asked[l], overtook[l], choked[l],
              local_choking_remote[l])
  BY <1>6, Unchanged DEF Updates, chokeVars, peerVars
<1>8. QED
  BY <1>5, <1>6, <1>7, OneTalksOn

LEMMA AsksKeeps == ASSUME Inv, NEW l \in Link, NEW s \in Wants[l], Asks(l, s) PROVE Inv'
<1>1. s \in Slice
  BY DEF Slice
<1>2. PICK mail, want, late : /\ mail = Append(toLocal[l], Request(s)) /\ want = asked[l] \cup {s}
                             /\ late = overtook[l] \ {s}
  OBVIOUS
<1>3. ~choked[l] /\ Talks(l)
  BY Unchanged DEF Asks
<1>4. Conversation(remote_req[l], toPeer[l], mail, want, late, choked[l], local_choking_remote[l])
  BY <1>1, <1>2, <1>3, Asking DEF Talks
<1>5. /\ asked' = [asked EXCEPT ![l] = want] /\ toLocal' = [toLocal EXCEPT ![l] = mail]
      /\ overtook' = [overtook EXCEPT ![l] = late]
      /\ UNCHANGED <<links, chokeVars, remote_req, toPeer, choked>>
  BY <1>2 DEF Asks
<1>6. Updates(l, remote_req[l], toPeer[l], mail, want, late, choked[l], local_choking_remote[l])
  BY <1>5, Unchanged DEF Updates, chokeVars
<1>7. QED
  BY <1>4, <1>5, <1>6, OneTalksOn

LEMMA CancelsKeeps == ASSUME Inv, NEW l \in Link, NEW s \in Wants[l], Cancels(l, s) PROVE Inv'
<1>1. PICK mail, want : mail = Append(toLocal[l], Cancel(s)) /\ want = asked[l] \ {s}
  OBVIOUS
<1>2. s \in asked[l] /\ Talks(l)
  BY Unchanged DEF Cancels
<1>3. Conversation(remote_req[l], toPeer[l], mail, want, overtook[l], choked[l], local_choking_remote[l])
  BY <1>1, <1>2, Cancelling DEF Talks
<1>4. /\ asked' = [asked EXCEPT ![l] = want] /\ toLocal' = [toLocal EXCEPT ![l] = mail]
      /\ UNCHANGED <<links, chokeVars, remote_req, toPeer, choked, overtook>>
  BY <1>1 DEF Cancels
<1>5. Updates(l, remote_req[l], toPeer[l], mail, want, overtook[l], choked[l], local_choking_remote[l])
  BY <1>4, Unchanged DEF Updates, chokeVars
<1>6. QED
  BY <1>3, <1>4, <1>5, OneTalksOn

LEMMA ReceivesKeeps == ASSUME Inv, NEW l \in Link, Receives(l) PROVE Inv'
<1>1. PICK m : m = Head(toPeer[l])
  OBVIOUS
<1>2. PICK want : want = IF m = CHOKE THEN {}
                         ELSE IF m.msg = "piece" THEN asked[l] \ {m.slice} ELSE asked[l]
  OBVIOUS
<1>3. PICK b : b = IF m.msg = "piece" THEN choked[l] ELSE m = CHOKE
  OBVIOUS
<1>4. toPeer[l] # <<>> /\ Talks(l)
  BY Unchanged DEF Receives
<1>5. Conversation(remote_req[l], Tail(toPeer[l]), toLocal[l], want, overtook[l], b, local_choking_remote[l])
  BY <1>1, <1>2, <1>3, <1>4, Receiving DEF Talks
<1>6. /\ asked' = [asked EXCEPT ![l] = want] /\ choked' = [choked EXCEPT ![l] = b]
      /\ toPeer' = [toPeer EXCEPT ![l] = Tail(toPeer[l])]
      /\ UNCHANGED <<links, chokeVars, remote_req, toLocal, overtook>>
  BY <1>1, <1>2, <1>3 DEF Receives
<1>7. Updates(l, remote_req[l], Tail(toPeer[l]), toLocal[l], want, overtook[l], b, local_choking_remote[l])
  BY <1>6, Unchanged DEF Updates, chokeVars
<1>8. QED
  BY <1>5, <1>6, <1>7, OneTalksOn

LEMMA InitOK == ASSUME Init PROVE Inv
<1>1. ASSUME NEW l \in Link PROVE Talks(l)
  BY Connecting DEF Init, Talks
<1>2. <<>> \in Seq(Slice) /\ <<>> \in Seq(ToPeer) /\ <<>> \in Seq(ToLocal)
  BY EmptySeq
<1>3. Shape
  BY <1>2 DEF Init, Shape
<1>4. /\ local_choking_remote \in [Link -> BOOLEAN]
      /\ remote_req \in [Link -> Seq(Slice)] /\ toPeer \in [Link -> Seq(ToPeer)]
      /\ \A l \in Link \ links : local_choking_remote[l]
  BY <1>2 DEF Init
<1>5. DecisionOK(Decided)
  <2>1. /\ Decided.choking = local_choking_remote /\ Decided.list = remote_req
        /\ Decided.wire = toPeer
    BY DEF Decided
  <2>2. QED
    BY <1>1, <1>4, <2>1, Zenon DEF DecisionOK, Talks
<1>6. SlotBound
  <2>1. {l \in links : ~local_choking_remote[l]} = {}
    BY DEF Init
  <2>2. QED
    BY <2>1, FS_EmptySet, UploadAssumption DEF SlotBound
<1>7. QED
  BY <1>3, <1>5, <1>6 DEF Inv

LEMMA NextKeeps == ASSUME Inv, [Next]_vars PROVE Inv'
<1>1. CASE UNCHANGED vars
  <2>1. /\ links' = links /\ UNCHANGED <<chokeVars, remote_req, toPeer, toLocal, asked, choked, overtook>>
    BY <1>1 DEF vars, peerVars
  <2>2. \A l \in Link : Talks(l)'
    <3>1. \A l \in Link : Talks(l)
      BY DecidedFacts
    <3>2. QED
      BY <2>1, <3>1 DEF Talks, chokeVars
  <2>3. DecisionOK(Decided)'
    BY <2>1, <2>2, DecidedFacts, DecidedNext DEF chokeVars
  <2>4. QED
    BY <2>1, <2>3 DEF Inv, Shape, SlotBound, chokeVars
<1>2. CASE SecondTick
  BY <1>2, TickKeeps DEF SecondTick
<1>3. ASSUME NEW l \in Link, Message(l) PROVE Inv'
  BY <1>3, OnRequestKeeps, OnCancelKeeps, ToldKeeps DEF Message
<1>4. QED
  BY <1>1, <1>2, <1>3, EstablishedKeeps, ClosedKeeps, ReceivesKeeps, AsksKeeps, CancelsKeeps
     DEF Next

(***************************************************************************)
(* The theorems.                                                           *)
(***************************************************************************)

\* The invariant holds for every number of peers, slots and slices, and
\* whatever the rates and the orders of what peers and network do.
THEOREM Invariance == Spec => []Inv
<1>1. Init => Inv
  BY InitOK
<1>2. Inv /\ [Next]_vars => Inv'
  BY NextKeeps
<1>3. QED
  BY <1>1, <1>2, PTL DEF Spec

LEMMA InvIsSound == ASSUME Inv PROVE ChokingSound
<1>1. /\ local_choking_remote \in [Link -> BOOLEAN]
      /\ remote_req \in [Link -> Seq(Slice)] /\ toPeer \in [Link -> Seq(ToPeer)]
      /\ \A l \in Link : Talks(l)
  BY DecidedFacts
<1>2. ASSUME NEW l \in Link, NEW i \in DOMAIN remote_req[l], NEW j \in DOMAIN remote_req[l]
      PROVE  ~local_choking_remote[l] /\ (remote_req[l][i] = remote_req[l][j] => i = j)
  <2>1. /\ Once(remote_req[l]) /\ (local_choking_remote[l] => remote_req[l] = <<>>)
        /\ remote_req[l] \in Seq(Slice)
    BY <1>1 DEF Talks, Conversation
  <2>2. DOMAIN remote_req[l] = 1..Len(remote_req[l])
    BY <2>1, LenProperties
  <2>3. remote_req[l] # <<>>
    BY <2>2, EmptySeq
  <2>4. QED
    BY <2>1, <2>2, <2>3 DEF Once
<1>3. TypeOK
  BY <1>1, <1>2 DEF Inv, Shape, TypeOK, ToPeer, ToLocal
<1>4. ASSUME NEW l \in links, toPeer[l] # <<>>, Head(toPeer[l]).msg = "piece"
      PROVE  ~choked[l]
  <2>1. l \in Link
    BY DEF Inv, Shape
  <2>2. toPeer[l] \in Seq(ToPeer) /\ Beliefs(toPeer[l], choked[l], local_choking_remote[l])
    BY <1>1, <2>1 DEF Talks, Conversation
  <2>3. QED
    BY <1>4, <2>2, FirstHandled
<1>5. QED
  BY <1>3, <1>4 DEF ChokingSound, DataFindUnchoked, Inv

\* No more peers are served than there are slots, a list has a request once and
\* none of a choked peer, and data reach only a peer that expects them: chokes,
\* requests and data under way at the same time never get mixed up.
THEOREM ChokingIsSound == Spec => []ChokingSound
BY Invariance, InvIsSound, PTL

LEMMA InvLosesNothing == ASSUME Inv PROVE NoLostRequest
<1>1. \A l \in links : l \in Link
  BY DEF Inv, Shape
<1>2. \A l \in Link : Talks(l)
  BY DecidedFacts
<1>3. QED
  BY <1>1, <1>2, Zenon DEF NoLostRequest, Talks, Conversation, Somewhere

\* No request is lost, whatever is cancelled and asked again meanwhile and in
\* whatever order the queue is emptied, but for one handled before an earlier
\* CANCEL of its slice.
THEOREM NoRequestIsLost == Spec => []NoLostRequest
BY Invariance, InvLosesNothing, PTL

LEMMA TickUsesSlots ==
    ASSUME Inv, Tick(TRUE)
    PROVE  \/ Cardinality({l \in links : ~local_choking_remote'[l]}) = MaxUpload
           \/ \A l \in links : remote_interested_local[l] => ~local_choking_remote'[l]
<1>1. PICK due \in BOOLEAN : due = TRUE
  OBVIOUS
<1>2. Tick(due)
  BY <1>1
<1>3. PICK c : /\ local_choking_remote' = c.choking
               /\ due => \/ Cardinality(Uploading(c)) = MaxUpload
                         \/ \A l \in links : remote_interested_local[l] => ~c.choking[l]
  BY <1>1, <1>2, TickDecides
<1>4. QED
  BY <1>1, <1>3 DEF Uploading

\* check_peers_choke leaves no slot empty while an interested peer waits.
THEOREM SlotsAreUsed == Spec => SlotsUsed
<1>1. Inv /\ [Next]_vars =>
        [Tick(TRUE) =>
            \/ Cardinality({l \in links : ~local_choking_remote'[l]}) = MaxUpload
            \/ \A l \in links : remote_interested_local[l] => ~local_choking_remote'[l]]_vars
  BY TickUsesSlots
<1>2. QED
  BY <1>1, Invariance, PTL DEF Spec, SlotsUsed
=============================================================================
