--------------------------- MODULE PeerLinkProofs ---------------------------
(***************************************************************************)
(* The links of a task share out the slices without losing track of who    *)
(* was asked for what, whatever peers connect, whatever they send and in   *)
(* whatever order the worker takes it.                                     *)
(***************************************************************************)
EXTENDS PeerLink, FiniteSetTheorems, SequenceTheorems, WellFoundedInduction, TLAPS

(***************************************************************************)
(* Request tables of every length.                                         *)
(***************************************************************************)

LEMMA BatchType ==
    ASSUME NEW n \in Nat, NEW table \in [1..n -> SliceState], NEW want, NEW eg
    PROVE  GetBatch(table, want, eg) \in [1..n -> SliceState]
BY DEF GetBatch, SliceState, REQUESTED

LEMMA CompleteType ==
    ASSUME NEW n \in Nat, NEW table \in [1..n -> SliceState], NEW i
    PROVE  RequestCompleted(table, i) \in [1..n -> SliceState]
BY DEF RequestCompleted, SliceState, COMPLETED

LEMMA ResetType ==
    ASSUME NEW n \in Nat
    PROVE  Reset(n) \in [1..n -> SliceState]
BY DEF Reset, SliceState, FREE

LEMMA ResetIsUntouched == ASSUME NEW n PROVE NotRequested(Reset(n))
BY DEF Reset, NotRequested

\* At most one slice is the first acceptable one.
LEMMA FirstIsUnique ==
    ASSUME NEW n \in Nat, NEW table \in [1..n -> SliceState], NEW eg \in BOOLEAN
    PROVE  \A i, j \in FirstRequest(table, eg) : i = j
<1> SUFFICES ASSUME NEW i \in FirstRequest(table, eg), NEW j \in FirstRequest(table, eg)
             PROVE  i = j
  OBVIOUS
<1>1. i \in 1..n /\ j \in 1..n /\ ~(i < j) /\ ~(j < i)
  BY DEF FirstRequest
<1>2. QED
  BY <1>1, SMT

LEMMA NatMin ==
    ASSUME NEW T \in SUBSET Nat, T # {}
    PROVE  \E x \in T : \A y \in T : x <= y
<1>1. PICK x \in T : \A y \in T : ~(<<y, x>> \in OpToRel(<, Nat))
  BY NatLessThanWellFounded, WFMin
<1>2. \A y \in T : ~(y < x)
  BY <1>1 DEF OpToRel
<1>3. QED
  BY <1>2

LEMMA IntervalMax ==
    ASSUME NEW n \in Nat, NEW T \in SUBSET (1..n), T # {}
    PROVE  \E x \in T : \A y \in T : y <= x
<1> DEFINE U == {n - y : y \in T}
<1>1. U \in SUBSET Nat /\ U # {}
  <2>1. \A y \in T : n - y \in Nat
    BY SMT
  <2>2. QED
    BY <2>1
<1>2. PICK u \in U : \A v \in U : u <= v
  BY <1>1, NatMin
<1>3. PICK x \in T : u = n - x
  OBVIOUS
<1>4. \A y \in T : n - x <= n - y
  BY <1>2, <1>3
<1>5. QED
  BY <1>4, SMT

\* A batch is a finite set, and its list is at most as long as was asked for:
\* the other assert there (340).
LEMMA BatchWithinWant ==
    ASSUME NEW n \in Nat, NEW table \in [1..n -> SliceState], NEW eg \in BOOLEAN,
           NEW want \in Nat
    PROVE  /\ IsFiniteSet(BatchSlices(table, want, eg))
           /\ Cardinality(BatchSlices(table, want, eg)) \in Nat
           /\ BatchCopies(want, eg) * Cardinality(BatchSlices(table, want, eg)) \in 0..want
<1> DEFINE B == BatchSlices(table, want, eg)
<1>1. B \in SUBSET (1..n)
  BY DEF BatchSlices, FirstRequest
<1>2. IsFiniteSet(1..n)
  BY FS_Interval
<1>3. IsFiniteSet(B) /\ Cardinality(B) \in Nat
  BY <1>1, <1>2, FS_Subset, FS_CardinalityType
<1>4. CASE B = {}
  <2>1. Cardinality(B) = 0
    BY <1>4, FS_EmptySet
  <2>2. BatchCopies(want, eg) \in Nat
    BY DEF BatchCopies
  <2>3. QED
    BY <1>3, <2>1, <2>2, SMT
<1>5. CASE B # {} /\ eg
  <2>1. PICK i \in B : TRUE
    BY <1>5
  <2>2. B = {i}
    BY <1>5, <2>1, FirstIsUnique DEF BatchSlices
  <2>3. Cardinality(B) = 1
    BY <2>2, FS_Singleton
  <2>4. BatchCopies(want, eg) = want
    BY <1>5 DEF BatchCopies
  <2>5. want * 1 \in 0..want
    OBVIOUS
  <2>6. QED
    BY <1>3, <2>3, <2>4, <2>5
<1>6. CASE B # {} /\ ~eg
  <2>1. PICK m \in B : \A i \in B : i <= m
    BY <1>1, <1>6, IntervalMax
  <2> DEFINE F == {j \in DOMAIN table : j <= m /\ table[j] = FREE}
  <2>2. Cardinality(F) <= want /\ B \subseteq F
    BY <1>6, <2>1 DEF BatchSlices
  <2>3. IsFiniteSet(F)
    BY <1>2, FS_Subset
  <2>4. Cardinality(F) \in Nat /\ Cardinality(B) <= Cardinality(F)
    BY <2>2, <2>3, FS_Subset, FS_CardinalityType
  <2>5. Cardinality(B) <= want
    BY <1>3, <2>2, <2>4, SMT
  <2>6. QED
    BY <1>3, <1>6, <2>5, SMT DEF BatchCopies
<1>7. QED
  BY <1>3, <1>4, <1>5, <1>6

Inv == TypeOK /\ Exclusive

\* A slice is a piece and an index into its request table.
LEMMA SliceFacts ==
    ASSUME NEW s \in Slice
    PROVE  s[1] \in Piece /\ s[2] \in 1..SliceCount[s[1]] /\ s = <<s[1], s[2]>>
<1>1. /\ s \in Piece \X UNION {1..SliceCount[p] : p \in Piece}
      /\ s[2] <= SliceCount[s[1]]
  BY DEF Slice
<1>2. s[1] \in Piece /\ s[2] \in UNION {1..SliceCount[p] : p \in Piece} /\ s = <<s[1], s[2]>>
  BY <1>1
<1>3. PICK p \in Piece : s[2] \in 1..SliceCount[p]
  BY <1>2
<1>4. SliceCount[p] \in Nat /\ SliceCount[s[1]] \in Nat
  BY <1>2, PiecesAssumption
<1>5. s[2] \in 1..SliceCount[s[1]]
  BY <1>1, <1>3, <1>4, SMT
<1>6. QED
  BY <1>2, <1>5

LEMMA SliceOfPiece ==
    ASSUME NEW p \in Piece, NEW i \in 1..SliceCount[p]
    PROVE  <<p, i>> \in Slice
BY PiecesAssumption DEF Slice

\* What AbortAll does to one slice, and which pieces it frees.
LEMMA AbortAllFacts ==
    ASSUME TypeOK, NEW S, AbortAll(S)
    PROVE  /\ DOMAIN slice' = Piece
           /\ \A p \in Piece : slice'[p] \in [1..SliceCount[p] -> SliceState]
           /\ started' \in SUBSET started
           /\ \A s \in Slice :
                 /\ s \notin S => slice'[s[1]][s[2]] = slice[s[1]][s[2]]
                 /\ s[1] \in started /\ slice'[s[1]][s[2]] = REQUESTED => s[1] \in started'
<1> DEFINE sel(p) == {i \in DOMAIN slice[p] : <<p, i>> \in S}
           table == [p \in Piece |-> AbortRequests(slice[p], sel(p))]
<1>1. /\ slice' = table
      /\ started' = {p \in started : slice[p] = table[p] \/ ~NotRequested(table[p])}
  BY DEF AbortAll
<1>2. ASSUME NEW p \in Piece
      PROVE  /\ slice'[p] = [i \in 1..SliceCount[p] |->
                               IF <<p, i>> \in S /\ slice[p][i] = REQUESTED
                               THEN FREE ELSE slice[p][i]]
             /\ slice'[p] \in [1..SliceCount[p] -> SliceState]
  <2>1. slice[p] \in [1..SliceCount[p] -> SliceState]
    BY DEF TypeOK
  <2>2. slice'[p] = AbortRequests(slice[p], sel(p))
    BY <1>1
  <2>3. slice'[p] = [i \in 1..SliceCount[p] |->
                        IF <<p, i>> \in S /\ slice[p][i] = REQUESTED
                        THEN FREE ELSE slice[p][i]]
    BY <2>1, <2>2 DEF AbortRequests, CanAbort
  <2>4. QED
    BY <2>1, <2>3 DEF SliceState, FREE
<1>3. ASSUME NEW s \in Slice
      PROVE  /\ s \notin S => slice'[s[1]][s[2]] = slice[s[1]][s[2]]
             /\ s[1] \in started /\ slice'[s[1]][s[2]] = REQUESTED => s[1] \in started'
  <2>1. s[1] \in Piece /\ s[2] \in 1..SliceCount[s[1]] /\ s = <<s[1], s[2]>>
    BY SliceFacts
  <2>2. s \notin S => slice'[s[1]][s[2]] = slice[s[1]][s[2]]
    <3>1. \A i \in 1..SliceCount[s[1]] :
             <<s[1], i>> \notin S => slice'[s[1]][i] = slice[s[1]][i]
      BY <2>1, <1>2
    <3>2. s \notin S => <<s[1], s[2]>> \notin S
      BY <2>1, Zenon
    <3>3. QED
      BY <2>1, <3>1, <3>2
  <2>3. ASSUME s[1] \in started, slice'[s[1]][s[2]] = REQUESTED PROVE s[1] \in started'
    <3>1. DOMAIN table[s[1]] = 1..SliceCount[s[1]] /\ table[s[1]][s[2]] # FREE
      BY <2>1, <2>3, <1>1, <1>2 DEF FREE, REQUESTED
    <3>2. ~NotRequested(table[s[1]])
      BY <2>1, <3>1 DEF NotRequested
    <3>3. QED
      BY <2>3, <3>2, <1>1
  <2>4. QED
    BY <2>2, <2>3
<1>4. QED
  BY <1>1, <1>2, <1>3

\* A link that is emptied, its outstanding slices freed, disturbs no other.
LEMMA AbortKeepsExclusive ==
    ASSUME Inv, NEW l \in Link, NEW S \in SUBSET Asked(l), AbortAll(S),
           req' = [req EXCEPT ![l] = NoneRequested], UNCHANGED is_endgame
    PROVE  Exclusive'
<1> SUFFICES ASSUME ~is_endgame, NEW k \in Link, NEW s \in Asked(k)'
             PROVE  /\ s[1] \in started'
                    /\ slice'[s[1]][s[2]] = REQUESTED
                    /\ req'[k][s] = 1
                    /\ \A j \in Link \ {k} : s \notin Asked(j)'
  BY DEF Exclusive
<1>1. s \in Slice /\ req'[k][s] > 0
  BY DEF Asked
<1>2. k # l
  BY <1>1 DEF NoneRequested, Inv, TypeOK
<1>3. \A j \in Link : j # l => req'[j] = req[j]
  BY DEF Inv, TypeOK
<1>4. s \in Asked(k)
  BY <1>1, <1>2, <1>3 DEF Asked
<1>5. /\ s[1] \in started /\ slice[s[1]][s[2]] = REQUESTED /\ req[k][s] = 1
      /\ \A j \in Link \ {k} : s \notin Asked(j)
  BY <1>4 DEF Inv, Exclusive
<1>6. s \notin S
  BY <1>2, <1>5
<1>7. s[1] \in started' /\ slice'[s[1]][s[2]] = REQUESTED
  BY <1>1, <1>5, <1>6, AbortAllFacts DEF Inv
<1>8. \A j \in Link \ {k} : s \notin Asked(j)'
  <2>1. s \notin Asked(l)'
    <3>1. req'[l][s] = 0
      BY <1>1 DEF NoneRequested, Inv, TypeOK
    <3>2. QED
      BY <3>1 DEF Asked
  <2>2. ASSUME NEW j \in Link \ {k}, j # l PROVE s \notin Asked(j)'
    BY <2>2, <1>3, <1>5 DEF Asked
  <2>3. QED
    BY <2>1, <2>2
<1>9. QED
  BY <1>2, <1>3, <1>5, <1>7, <1>8

\* Taking entries off the request lists disturbs nothing.
LEMMA FewerKeepExclusive ==
    ASSUME Exclusive, UNCHANGED <<started, slice, is_endgame>>,
           \A k \in Link, s \in Slice : req'[k][s] > 0 => req'[k][s] = req[k][s]
    PROVE  Exclusive'
<1> SUFFICES ASSUME ~is_endgame, NEW k \in Link, NEW s \in Asked(k)'
             PROVE  /\ s[1] \in started
                    /\ slice[s[1]][s[2]] = REQUESTED
                    /\ req'[k][s] = 1
                    /\ \A j \in Link \ {k} : s \notin Asked(j)'
  BY DEF Exclusive
<1>1. s \in Slice /\ req'[k][s] > 0
  BY DEF Asked
<1>2. s \in Asked(k) /\ req'[k][s] = req[k][s]
  BY <1>1 DEF Asked
<1>3. \A j \in Link : s \in Asked(j)' => s \in Asked(j)
  BY DEF Asked
<1>4. QED
  BY <1>2, <1>3 DEF Exclusive

(***************************************************************************)
(* Type correctness.                                                       *)
(***************************************************************************)

JobType == [call : {"request", "loop", "notify", "piece_end", "reset"},
            link : Link, arg : Nat]

LEMMA JobFacts ==
    ASSUME NEW name \in {"request", "loop", "notify", "piece_end", "reset"},
           NEW l \in Link, NEW arg \in Nat
    PROVE  Job(name, l, arg) \in JobType /\ <<Job(name, l, arg)>> \in Seq(JobType)
<1>1. Job(name, l, arg) \in JobType
  BY DEF Job, JobType
<1>2. QED
  BY <1>1, SMT

LEMMA SweepType ==
    ASSUME NEW name \in {"request", "notify", "reset"},
           NEW S \in SUBSET Link, NEW arg \in Nat, NEW calls \in Sweep(name, S, arg)
    PROVE  calls \in Seq(JobType)
<1>1. Cardinality(S) \in Nat
  BY PeerLinkAssumption, FS_Subset, FS_CardinalityType
<1>2. PICK order \in [1..Cardinality(S) -> S] :
         calls = [i \in DOMAIN order |-> Job(name, order[i], arg)]
  BY DEF Sweep
<1>3. calls \in [1..Cardinality(S) -> JobType]
  <2>1. \A i \in 1..Cardinality(S) : Job(name, order[i], arg) \in JobType
    BY JobFacts
  <2>2. QED
    BY <1>2, <2>1
<1>4. QED
  BY <1>1, <1>3, SMT

LEMMA TailType ==
    ASSUME NEW s \in Seq(JobType), s # <<>>
    PROVE  Tail(s) \in Seq(JobType) /\ s[1] \in JobType
BY SMT

\* TypeOK with the parts that most actions leave alone set apart.
PiecesTyped ==
    /\ bitfield \in SUBSET Piece
    /\ started \in SUBSET Piece
    /\ DOMAIN slice = Piece
    /\ \A p \in Piece : slice[p] \in [1..SliceCount[p] -> SliceState]
    /\ have \in [Piece -> Nat]
    /\ is_endgame \in BOOLEAN

LinksTyped ==
    /\ links \in SUBSET Link
    /\ own \in [Link -> SUBSET Piece]
    /\ received_bitfield \in [Link -> BOOLEAN]
    /\ remote_choking_local \in [Link -> BOOLEAN]
    /\ local_interested_remote \in [Link -> BOOLEAN]
    /\ req \in [Link -> [Slice -> Nat]]

StateTyped == PiecesTyped /\ LinksTyped /\ agenda \in Seq(JobType)
HistoryTyped == overtaken \in [Piece -> Nat] /\ lost \subseteq Slice

LEMMA TypeParts == TypeOK <=> StateTyped /\ HistoryTyped
BY DEF TypeOK, StateTyped, HistoryTyped, PiecesTyped, LinksTyped, JobType

LEMMA TypeFromParts ==
    ASSUME PiecesTyped', LinksTyped', agenda' \in Seq(JobType)
    PROVE  StateTyped'
BY DEF StateTyped

LEMMA NoneType == NoneRequested \in [Slice -> Nat]
BY DEF NoneRequested

LEMMA InitType == Init => TypeOK
<1> SUFFICES ASSUME Init PROVE TypeOK
  OBVIOUS
<1>1. PiecesTyped
  <2>1. \A p \in Piece : Reset(SliceCount[p]) \in [1..SliceCount[p] -> SliceState]
    BY ResetType, PiecesAssumption
  <2>2. is_endgame \in BOOLEAN
    BY DEF Init, NeedEndgame
  <2>3. QED
    BY <2>1, <2>2 DEF Init, PiecesTyped, NoRequests
<1>2. LinksTyped
  BY NoneType DEF Init, LinksTyped
<1>3. agenda \in Seq(JobType)
  BY SMT DEF Init
<1>4. HistoryTyped
  BY DEF Init, HistoryTyped
<1>5. QED
  BY <1>1, <1>2, <1>3, <1>4, TypeParts DEF StateTyped

LEMMA DestroyType ==
    ASSUME TypeOK, NEW l \in Link, NEW S, Destroy(l, S)
    PROVE  StateTyped'
<1>1. PiecesTyped'
  <2>1. /\ DOMAIN slice' = Piece /\ started' \in SUBSET started
        /\ \A p \in Piece : slice'[p] \in [1..SliceCount[p] -> SliceState]
    BY AbortAllFacts DEF Destroy
  <2>2. have' \in [Piece -> Nat]
    <3>1. \A p \in Piece : IF p \in own[l] /\ have[p] > 0 THEN have[p] - 1 \in Nat ELSE have[p] \in Nat
      BY DEF TypeOK
    <3>2. QED
      BY <3>1 DEF Destroy
  <2>3. QED
    BY <2>1, <2>2 DEF TypeOK, PiecesTyped, Destroy
<1>2. LinksTyped'
  BY NoneType DEF Destroy, TypeOK, LinksTyped
<1>3. agenda' \in Seq(JobType)
  BY TypeParts DEF Destroy, StateTyped
<1>4. QED
  BY <1>1, <1>2, <1>3, TypeFromParts

LEMMA HandlerType ==
    ASSUME TypeOK, NEW l \in Link, Handler(l)
    PROVE  StateTyped'
<1>1. CASE Established(l)
  <2>1. PiecesTyped' /\ LinksTyped'
    BY <1>1 DEF Established, TypeOK, PiecesTyped, LinksTyped, pieceVars
  <2>2. QED
    BY <1>1, <2>1, TypeParts, TypeFromParts DEF Established, StateTyped
<1>2. CASE Disconnect(l)
  BY <1>2, DestroyType DEF Disconnect
<1>3. ASSUME NEW bits \in SUBSET Piece, OnBitfield(l, bits) PROVE StateTyped'
  <2>1. have' \in [Piece -> Nat]
    <3>1. \A p \in Piece : have[p] \in Nat /\ have[p] + 1 \in Nat
      BY DEF TypeOK
    <3>2. QED
      BY <1>3, <3>1 DEF OnBitfield
  <2>2. PiecesTyped' /\ LinksTyped'
    BY <1>3, <2>1 DEF OnBitfield, TypeOK, PiecesTyped, LinksTyped
  <2>3. QED
    BY <1>3, <2>2, TypeParts, TypeFromParts DEF OnBitfield, StateTyped
<1>4. ASSUME NEW p \in Piece, OnHave(l, p) PROVE StateTyped'
  <2>1. have' \in [Piece -> Nat]
    BY <1>4, SMT DEF OnHave, TypeOK
  <2>2. PiecesTyped' /\ LinksTyped'
    BY <1>4, <2>1 DEF OnHave, TypeOK, PiecesTyped, LinksTyped
  <2>3. agenda' \in Seq(JobType)
    BY <1>4, JobFacts DEF OnHave
  <2>4. QED
    BY <2>2, <2>3, TypeFromParts
<1>5. CASE OnChoke(l)
  <2>1. /\ DOMAIN slice' = Piece /\ started' \in SUBSET started
        /\ \A p \in Piece : slice'[p] \in [1..SliceCount[p] -> SliceState]
    BY <1>5, AbortAllFacts DEF OnChoke
  <2>2. PiecesTyped' /\ LinksTyped'
    BY <1>5, <2>1, NoneType DEF OnChoke, TypeOK, PiecesTyped, LinksTyped
  <2>3. QED
    BY <1>5, <2>2, TypeParts, TypeFromParts DEF OnChoke, StateTyped
<1>6. CASE OnUnchoke(l)
  <2>1. PiecesTyped' /\ LinksTyped'
    BY <1>6 DEF OnUnchoke, TypeOK, PiecesTyped, LinksTyped, pieceVars
  <2>2. agenda' \in Seq(JobType)
    BY <1>6, JobFacts DEF OnUnchoke
  <2>3. QED
    BY <2>1, <2>2, TypeFromParts
<1>7. ASSUME NEW s \in Slice, NEW valid \in BOOLEAN, OnPiece(l, s, valid) PROVE StateTyped'
  <2> DEFINE p == s[1]
             table == RequestCompleted(slice[p], s[2])
  <2>1. p \in Piece /\ s[2] \in 1..SliceCount[p]
    BY SliceFacts
  <2>2. /\ table \in [1..SliceCount[p] -> SliceState]
        /\ Reset(SliceCount[p]) \in [1..SliceCount[p] -> SliceState]
    BY <2>1, CompleteType, ResetType, PiecesAssumption DEF TypeOK
  <2>3. PiecesTyped'
    <3>1. CASE UNCHANGED pieceVars
      BY <3>1 DEF TypeOK, PiecesTyped, pieceVars
    <3>2. CASE SliceCompleted(s, valid)
      <4>1. CASE ~IsCompleted(table)
        BY <3>2, <4>1, <2>1, <2>2 DEF SliceCompleted, TypeOK, PiecesTyped
      <4>2. CASE IsCompleted(table)
        <5>1. /\ slice' = [slice EXCEPT ![p] = Reset(SliceCount[p])]
              /\ started' = started \ {p}
              /\ bitfield' = IF valid THEN bitfield \cup {p} ELSE bitfield
              /\ is_endgame' = (is_endgame \/ (valid /\ NeedEndgame(bitfield')))
              /\ have' = have
          BY <3>2, <4>2 DEF SliceCompleted
        <5>2. is_endgame' \in BOOLEAN
          BY <5>1 DEF TypeOK, NeedEndgame
        <5>3. bitfield' \in SUBSET Piece
          BY <5>1, <2>1 DEF TypeOK
        <5>4. QED
          BY <5>1, <5>2, <5>3, <2>1, <2>2 DEF TypeOK, PiecesTyped
      <4>3. QED
        BY <4>1, <4>2
    <3>3. QED
      BY <1>7, <3>1, <3>2 DEF OnPiece
  <2>4. LinksTyped'
    <3>1. req[l] \in [Slice -> Nat] /\ req[l][s] > 0 /\ req' = [req EXCEPT ![l][s] = @ - 1]
      BY <1>7 DEF OnPiece, TypeOK, Asked
    <3>2. req[l][s] - 1 \in Nat
      BY <3>1
    <3>3. req' \in [Link -> [Slice -> Nat]]
      BY <3>1, <3>2 DEF TypeOK
    <3>4. QED
      BY <1>7, <3>3 DEF OnPiece, TypeOK, LinksTyped
  <2>5. agenda' \in Seq(JobType)
    <3>1. \/ agenda' = agenda
          \/ agenda' = <<Job("request", l, 0)>>
          \/ \E calls \in Sweep("notify", links, p) :
                agenda' = Append(calls, Job("piece_end", l, 0))
      BY <1>7 DEF OnPiece
    <3>2. p \in Nat
      BY <2>1, PiecesAssumption DEF Piece
    <3>3. ASSUME NEW calls \in Sweep("notify", links, p),
                 agenda' = Append(calls, Job("piece_end", l, 0))
          PROVE  agenda' \in Seq(JobType)
      <4>1. calls \in Seq(JobType)
        BY <3>2, SweepType DEF TypeOK
      <4>2. Job("piece_end", l, 0) \in JobType
        BY JobFacts
      <4>3. QED
        BY <3>3, <4>1, <4>2, SMT
    <3>4. QED
      BY <3>1, <3>3, JobFacts, TypeParts DEF StateTyped
  <2>6. QED
    BY <2>3, <2>4, <2>5, TypeFromParts
<1>8. ASSUME NEW s \in Slice, OnPieceBadLength(l, s) PROVE StateTyped'
  BY <1>8, DestroyType DEF OnPieceBadLength
<1>9. QED
  BY <1>1, <1>2, <1>3, <1>4, <1>5, <1>6, <1>7, <1>8 DEF Handler

LEMMA SecondTickType == TypeOK /\ SecondTick => StateTyped'
<1> SUFFICES ASSUME TypeOK, SecondTick PROVE StateTyped'
  OBVIOUS
<1>1. PiecesTyped' /\ LinksTyped'
  BY DEF SecondTick, TypeOK, PiecesTyped, LinksTyped, pieceVars, linkVars
<1>2. PICK calls \in Sweep("request", links, 0) :
         \/ agenda' = calls
         \/ \E S \in SUBSET links \ {{}} :
               \E resets \in Sweep("reset", S, 0) : agenda' = calls \o resets
  BY DEF SecondTick
<1>3. calls \in Seq(JobType)
  BY SweepType DEF TypeOK
<1>4. ASSUME NEW S \in SUBSET links \ {{}}, NEW resets \in Sweep("reset", S, 0)
      PROVE  calls \o resets \in Seq(JobType)
  <2>1. resets \in Seq(JobType)
    BY SweepType DEF TypeOK
  <2>2. QED
    BY <1>3, <2>1, SMT
<1>5. agenda' \in Seq(JobType)
  BY <1>2, <1>3, <1>4
<1>6. QED
  BY <1>1, <1>5, TypeFromParts

\* The running call is one of a link, and dropping it leaves calls.
LEMMA AgendaFacts ==
    ASSUME TypeOK, NEW name, Calling(name)
    PROVE  /\ agenda # <<>> /\ Tail(agenda) \in Seq(JobType)
           /\ agenda[1].link \in Link /\ agenda[1].arg \in Nat
           /\ \A job \in JobType : <<job>> \o Tail(agenda) \in Seq(JobType)
<1>1. agenda \in Seq(JobType) /\ agenda # <<>>
  BY TypeParts DEF Calling, StateTyped
<1>2. Tail(agenda) \in Seq(JobType) /\ agenda[1] \in JobType
  BY <1>1, TailType
<1>3. \A job \in JobType : <<job>> \o Tail(agenda) \in Seq(JobType)
  BY <1>2, SMT
<1>4. QED
  BY <1>1, <1>2, <1>3 DEF JobType

\* What a turn of the loop may ask for is within what remains, and the piece
\* is one of the peer's that has a slice to hand out.
LEMMA BestFacts ==
    ASSUME TypeOK, NEW pieces \in SUBSET Piece, NEW p \in BestDownloading(pieces)
    PROVE  /\ p \in Piece /\ p \in pieces /\ have[p] > 0
           /\ \/ p \in started /\ HasFreeSlice(slice[p], is_endgame)
              \/ p \notin started /\ p \notin bitfield
<1> DEFINE going == Continuable(pieces, started, have, slice, is_endgame)
           free == {q \in pieces \ (bitfield \cup started) : have[q] > 0}
<1>1. CASE going # {}
  <2>1. p \in going
    BY <1>1 DEF BestDownloading, MostOwned
  <2>2. QED
    BY <2>1 DEF Continuable
<1>2. CASE going = {}
  <2>1. p \in Rated(free)
    BY <1>2 DEF BestDownloading
  <2>2. p \in free
    BY <2>1 DEF Rated
  <2>3. QED
    BY <2>2
<1>3. QED
  BY <1>1, <1>2

\* The branch of RequestLoop that asks for something, field by field.
Request(l, remain, p) ==
    LET given == BatchSlices(slice[p], remain, is_endgame) IN
    /\ started' = started \cup {p}
    /\ slice' = [slice EXCEPT ![p] = GetBatch(@, remain, is_endgame)]
    /\ req' = [req EXCEPT ![l] =
                  [s \in Slice |-> IF s[1] = p /\ s[2] \in given
                                   THEN @[s] + BatchCopies(remain, is_endgame) ELSE @[s]]]
    /\ local_interested_remote' = [local_interested_remote EXCEPT ![l] = TRUE]
    /\ \/ agenda' = Tail(agenda)
       \/ /\ remain - BatchCopies(remain, is_endgame) * Cardinality(given) # 0
          /\ agenda' = <<Job("loop", l, remain - BatchCopies(remain, is_endgame) * Cardinality(given))>>
                       \o Tail(agenda)
    /\ lost' = lost \ {<<p, i>> : i \in given}
    /\ UNCHANGED <<bitfield, have, is_endgame, links, own, received_bitfield,
                   remote_choking_local, overtaken>>

LEMMA RequestLoopCases ==
    ASSUME RequestLoop
    PROVE  \/ /\ agenda' = Tail(agenda)
              /\ local_interested_remote' =
                    [local_interested_remote EXCEPT ![agenda[1].link] = FALSE]
              /\ UNCHANGED <<pieceVars, links, own, received_bitfield,
                             remote_choking_local, req, history>>
           \/ \E p \in BestDownloading(own[agenda[1].link]) :
                 Request(agenda[1].link, agenda[1].arg, p)
<1> DEFINE l == agenda[1].link
           remain == agenda[1].arg
<1>1. CASE BestDownloading(own[l]) = {}
  BY <1>1 DEF RequestLoop, pieceVars, history
<1>2. CASE BestDownloading(own[l]) # {}
  <2>1. \E p \in BestDownloading(own[l]) : Request(l, remain, p)
    BY <1>2, Zenon DEF RequestLoop, Request
  <2>2. QED
    BY <2>1
<1>3. QED
  BY <1>1, <1>2

LEMMA RequestType ==
    ASSUME TypeOK, Calling("loop"), NEW p \in BestDownloading(own[agenda[1].link]),
           Request(agenda[1].link, agenda[1].arg, p)
    PROVE  StateTyped'
<1> DEFINE l == agenda[1].link
           remain == agenda[1].arg
           given == BatchSlices(slice[p], remain, is_endgame)
           copies == BatchCopies(remain, is_endgame)
           left == remain - copies * Cardinality(given)
<1>1. l \in Link /\ remain \in Nat
  BY AgendaFacts
<1>2. p \in Piece
  <2>1. own[l] \in SUBSET Piece
    BY <1>1 DEF TypeOK
  <2>2. QED
    BY <2>1, BestFacts
<1>3. slice[p] \in [1..SliceCount[p] -> SliceState] /\ SliceCount[p] \in Nat /\ is_endgame \in BOOLEAN
  BY <1>2, PiecesAssumption DEF TypeOK
<1>4. copies * Cardinality(given) \in 0..remain
  BY <1>1, <1>3, BatchWithinWant
<1>5. left \in Nat
  BY <1>1, <1>4, SMT
<1>6. copies \in Nat
  BY <1>1 DEF BatchCopies
<1>7. PiecesTyped'
  <2>1. GetBatch(slice[p], remain, is_endgame) \in [1..SliceCount[p] -> SliceState]
    BY <1>3, BatchType
  <2>2. QED
    BY <1>2, <2>1 DEF Request, PiecesTyped, TypeOK
<1>8. LinksTyped'
  <2>1. \A s \in Slice : req[l][s] \in Nat
    BY <1>1 DEF TypeOK
  <2>2. \A s \in Slice : req[l][s] + copies \in Nat
    BY <2>1, <1>6
  <2> HIDE DEF copies, given
  <2>3. [s \in Slice |-> IF s[1] = p /\ s[2] \in given THEN req[l][s] + copies ELSE req[l][s]]
           \in [Slice -> Nat]
    BY <2>1, <2>2
  <2> USE DEF copies, given
  <2>4. req' \in [Link -> [Slice -> Nat]]
    BY <1>1, <2>3 DEF Request, TypeOK
  <2>5. QED
    BY <1>1, <2>4 DEF Request, LinksTyped, TypeOK
<1>9. agenda' \in Seq(JobType)
  <2>1. Job("loop", l, left) \in JobType
    BY <1>1, <1>5, JobFacts
  <2>2. agenda' = Tail(agenda) \/ agenda' = <<Job("loop", l, left)>> \o Tail(agenda)
    BY DEF Request
  <2>3. QED
    BY <2>1, <2>2, AgendaFacts
<1>10. QED
  BY <1>7, <1>8, <1>9, TypeFromParts

LEMMA CallType == TypeOK /\ Call => StateTyped'
<1> SUFFICES ASSUME TypeOK, Call PROVE StateTyped'
  OBVIOUS
<1> DEFINE l == agenda[1].link
<1>1. CASE DoPiecesRequest
  <2>1. l \in Link /\ PendingCount \in Nat
    BY <1>1, AgendaFacts, PeerLinkAssumption DEF DoPiecesRequest
  <2>2. agenda' = Tail(agenda) \/ agenda' = <<Job("loop", l, PendingCount)>> \o Tail(agenda)
    BY <1>1 DEF DoPiecesRequest
  <2>3. agenda' \in Seq(JobType)
    BY <1>1, <2>1, <2>2, AgendaFacts, JobFacts DEF DoPiecesRequest
  <2>4. PiecesTyped' /\ LinksTyped'
    BY <1>1 DEF DoPiecesRequest, TypeOK, PiecesTyped, LinksTyped, pieceVars, linkVars
  <2>5. QED
    BY <2>3, <2>4, TypeFromParts
<1>2. CASE RequestLoop
  <2>1. Calling("loop")
    BY <1>2 DEF RequestLoop
  <2>2. CASE /\ agenda' = Tail(agenda)
             /\ local_interested_remote' = [local_interested_remote EXCEPT ![l] = FALSE]
             /\ UNCHANGED <<pieceVars, links, own, received_bitfield,
                            remote_choking_local, req>>
    <3>1. PiecesTyped' /\ LinksTyped'
      BY <2>2 DEF TypeOK, PiecesTyped, LinksTyped, pieceVars
    <3>2. QED
      BY <2>1, <2>2, <3>1, AgendaFacts, TypeFromParts
  <2>3. QED
    BY <1>2, <2>1, <2>2, RequestLoopCases, RequestType
<1>3. CASE NotifyHavePiece
  <2>1. l \in Link /\ agenda' = <<Job("request", l, 0)>> \o Tail(agenda)
    BY <1>3, AgendaFacts DEF NotifyHavePiece
  <2>2. agenda' \in Seq(JobType)
    BY <1>3, <2>1, AgendaFacts, JobFacts DEF NotifyHavePiece
  <2>3. PiecesTyped' /\ LinksTyped'
    BY <1>3, <2>1 DEF NotifyHavePiece, TypeOK, PiecesTyped, LinksTyped, pieceVars
  <2>4. QED
    BY <2>2, <2>3, TypeFromParts
<1>4. CASE PieceEnd
  <2>1. l \in Link
    BY <1>4, AgendaFacts DEF PieceEnd
  <2>2. agenda' = Tail(agenda) \/ agenda' = <<Job("request", l, 0)>> \o Tail(agenda)
    BY <1>4 DEF PieceEnd
  <2>3. agenda' \in Seq(JobType)
    BY <1>4, <2>1, <2>2, AgendaFacts, JobFacts DEF PieceEnd
  <2>4. /\ req' \in [Link -> [Slice -> Nat]]
        /\ local_interested_remote' \in [Link -> BOOLEAN]
    BY <1>4, NoneType DEF PieceEnd, TypeOK
  <2>5. PiecesTyped' /\ LinksTyped'
    BY <1>4, <2>4 DEF PieceEnd, TypeOK, PiecesTyped, LinksTyped, pieceVars
  <2>6. QED
    BY <2>3, <2>5, TypeFromParts
<1>5. CASE AbortAllRequest
  <2>1. l \in Link /\ agenda' = Tail(agenda) /\ Tail(agenda) \in Seq(JobType)
    BY <1>5, AgendaFacts DEF AbortAllRequest
  <2>2. /\ DOMAIN slice' = Piece /\ started' \in SUBSET started
        /\ \A p \in Piece : slice'[p] \in [1..SliceCount[p] -> SliceState]
    BY <1>5, AbortAllFacts DEF AbortAllRequest
  <2>3. PiecesTyped' /\ LinksTyped'
    BY <1>5, <2>1, <2>2, NoneType DEF AbortAllRequest, TypeOK, PiecesTyped, LinksTyped
  <2>4. QED
    BY <2>1, <2>3, TypeFromParts
<1>6. QED
  BY <1>1, <1>2, <1>3, <1>4, <1>5 DEF Call

\* The history is typed after every step.
LEMMA HistoryType == TypeOK /\ [Next]_vars => HistoryTyped'
<1> SUFFICES ASSUME TypeOK, [Next]_vars PROVE HistoryTyped'
  OBVIOUS
<1>1. overtaken \in [Piece -> Nat] /\ lost \subseteq Slice
  BY DEF TypeOK
<1>2. ASSUME UNCHANGED overtaken, lost' \subseteq lost PROVE HistoryTyped'
  BY <1>1, <1>2 DEF HistoryTyped
<1>3. ASSUME NEW l \in Link, Handler(l) PROVE HistoryTyped'
  <2>1. ASSUME NEW bits \in SUBSET Piece, OnBitfield(l, bits) PROVE HistoryTyped'
    <3>1. \A p \in Piece : overtaken[p] \in Nat /\ overtaken[p] + 1 \in Nat
      BY <1>1
    <3>2. QED
      BY <1>1, <2>1, <3>1 DEF OnBitfield, HistoryTyped
  <2>2. CASE \/ Established(l) \/ Disconnect(l) \/ OnChoke(l) \/ OnUnchoke(l)
             \/ \E p \in Piece : OnHave(l, p)
    BY <1>2, <2>2 DEF Established, Disconnect, Destroy, OnChoke, OnUnchoke, OnHave, history
  <2>3. ASSUME NEW s \in Slice, NEW valid \in BOOLEAN, OnPiece(l, s, valid) PROVE HistoryTyped'
    BY <1>2, <2>3, Zenon DEF OnPiece
  <2>4. ASSUME NEW s \in Slice, OnPieceBadLength(l, s) PROVE HistoryTyped'
    BY <1>1, <2>4 DEF OnPieceBadLength, Destroy, HistoryTyped
  <2>5. QED
    BY <1>3, <2>1, <2>2, <2>3, <2>4 DEF Handler
<1>4. CASE RequestLoop
  <2>1. ASSUME NEW p, Request(agenda[1].link, agenda[1].arg, p) PROVE HistoryTyped'
    BY <1>2, <2>1, Zenon DEF Request
  <2>2. QED
    BY <1>2, <1>4, <2>1, RequestLoopCases DEF history
<1>5. CASE SecondTick \/ UNCHANGED vars
  BY <1>2, <1>5 DEF SecondTick, vars, history
<1>6. CASE DoPiecesRequest \/ NotifyHavePiece \/ PieceEnd \/ AbortAllRequest
  BY <1>2, <1>6 DEF DoPiecesRequest, NotifyHavePiece, PieceEnd, AbortAllRequest, history
<1>7. QED
  BY <1>3, <1>4, <1>5, <1>6 DEF Next, Call

LEMMA NextType == TypeOK /\ [Next]_vars => TypeOK'
<1>1. ASSUME TypeOK, UNCHANGED vars PROVE StateTyped'
  <2>1. PiecesTyped' /\ LinksTyped'
    BY <1>1 DEF vars, pieceVars, linkVars, TypeOK, PiecesTyped, LinksTyped
  <2>2. QED
    BY <1>1, <2>1, TypeParts, TypeFromParts DEF vars, StateTyped
<1>2. TypeOK /\ [Next]_vars => StateTyped'
  BY <1>1, HandlerType, SecondTickType, CallType DEF Next
<1>3. QED
  BY <1>2, HistoryType, TypeParts, PTL

\* Every reachable state is typed, whatever peers connect and whatever they
\* send: in particular no request count and no remaining count goes negative.
THEOREM TypeCorrect == Spec => []TypeOK
  BY InitType, NextType, PTL DEF Spec

(***************************************************************************)
(* No slice is asked of two peers outside endgame.                         *)
(***************************************************************************)

LEMMA DestroyExclusive ==
    ASSUME Inv, NEW l \in Link, NEW S \in SUBSET Asked(l), Destroy(l, S)
    PROVE  Exclusive'
BY AbortKeepsExclusive DEF Destroy

\* A slice received leaves the lists, and a piece completed had nothing else
\* outstanding.
LEMMA OnPieceExclusive ==
    ASSUME Inv, NEW l \in Link, NEW s \in Slice, NEW valid \in BOOLEAN, OnPiece(l, s, valid)
    PROVE  Exclusive'
<1> DEFINE p == s[1]
           table == RequestCompleted(slice[p], s[2])
<1>1. p \in Piece /\ s[2] \in 1..SliceCount[p] /\ s = <<p, s[2]>>
  BY SliceFacts
<1>2. s \in Asked(l) /\ req' = [req EXCEPT ![l][s] = @ - 1]
  BY DEF OnPiece
<1>3. is_endgame => is_endgame'
  BY Zenon DEF OnPiece, SliceCompleted, pieceVars
<1> SUFFICES ASSUME ~is_endgame, NEW k \in Link, NEW t \in Asked(k)'
             PROVE  /\ t[1] \in started'
                    /\ slice'[t[1]][t[2]] = REQUESTED
                    /\ req'[k][t] = 1
                    /\ \A j \in Link \ {k} : t \notin Asked(j)'
  BY <1>3, Zenon DEF Exclusive
<1>4. /\ p \in started /\ slice[p][s[2]] = REQUESTED /\ req[l][s] = 1
      /\ \A j \in Link \ {l} : s \notin Asked(j)
  BY <1>2 DEF Inv, Exclusive
<1>5. /\ req'[l][s] = 0
      /\ \A j \in Link, u \in Slice : (j # l \/ u # s) => req'[j][u] = req[j][u]
  BY <1>2, <1>4 DEF Inv, TypeOK
<1>6. t \in Slice /\ req'[k][t] > 0
  BY DEF Asked
<1>7. t # s
  <2>1. ASSUME t = s PROVE FALSE
    <3>1. k # l
      BY <2>1, <1>5, <1>6
    <3>2. s \in Asked(k)
      BY <2>1, <3>1, <1>5, <1>6 DEF Asked
    <3>3. QED
      BY <3>1, <3>2, <1>4
  <2>2. QED
    BY <2>1
<1>8. \A j \in Link : req'[j][t] = req[j][t]
  BY <1>5, <1>6, <1>7
<1>9. /\ t \in Asked(k)
      /\ \A j \in Link : t \in Asked(j)' => t \in Asked(j)
  BY <1>6, <1>8 DEF Asked
<1>10. /\ t[1] \in started /\ slice[t[1]][t[2]] = REQUESTED /\ req[k][t] = 1
       /\ \A j \in Link \ {k} : t \notin Asked(j)
  BY <1>9 DEF Inv, Exclusive
<1>11. t[1] \in Piece /\ t[2] \in 1..SliceCount[t[1]] /\ t = <<t[1], t[2]>>
  BY <1>6, SliceFacts
<1>12. DOMAIN slice = Piece /\ slice[p] \in [1..SliceCount[p] -> SliceState]
  BY <1>1 DEF Inv, TypeOK
<1>13. t[1] # p \/ t[2] # s[2]
  BY <1>1, <1>7, <1>11
<1>14. /\ DOMAIN table = 1..SliceCount[p]
       /\ t[1] = p => table[t[2]] = REQUESTED
  BY <1>10, <1>11, <1>12, <1>13 DEF RequestCompleted
<1>15. t[1] \in started' /\ slice'[t[1]][t[2]] = REQUESTED
  <2>1. SliceCompleted(s, valid)
    BY <1>4 DEF OnPiece, CanComplete
  <2>2. CASE ~IsCompleted(table)
    <3>1. slice' = [slice EXCEPT ![p] = table] /\ started' = started
      BY <2>1, <2>2 DEF SliceCompleted
    <3>2. QED
      BY <3>1, <1>1, <1>10, <1>11, <1>12, <1>14
  <2>3. CASE IsCompleted(table)
    <3>1. t[1] # p
      BY <2>3, <1>11, <1>14 DEF IsCompleted, REQUESTED, COMPLETED
    <3>2. slice' = [slice EXCEPT ![p] = Reset(SliceCount[p])] /\ started' = started \ {p}
      BY <2>1, <2>3 DEF SliceCompleted
    <3>3. QED
      BY <3>1, <3>2, <1>10, <1>11, <1>12
  <2>4. QED
    BY <2>2, <2>3
<1>16. QED
  BY <1>8, <1>9, <1>10, <1>15

\* A turn of the loop takes slices that are free, so nobody was asked for them.
LEMMA RequestExclusive ==
    ASSUME Inv, Calling("loop"), NEW p \in BestDownloading(own[agenda[1].link]),
           Request(agenda[1].link, agenda[1].arg, p)
    PROVE  Exclusive'
<1> DEFINE l == agenda[1].link
           remain == agenda[1].arg
           given == BatchSlices(slice[p], remain, is_endgame)
<1> SUFFICES ASSUME ~is_endgame, NEW k \in Link, NEW t \in Asked(k)'
             PROVE  /\ t[1] \in started'
                    /\ slice'[t[1]][t[2]] = REQUESTED
                    /\ req'[k][t] = 1
                    /\ \A j \in Link \ {k} : t \notin Asked(j)'
  BY Zenon DEF Exclusive, Request
<1>1. l \in Link /\ remain \in Nat
  BY AgendaFacts DEF Inv
<1>2. p \in Piece
  <2>1. own[l] \in SUBSET Piece
    BY <1>1 DEF Inv, TypeOK
  <2>2. QED
    BY <2>1, BestFacts DEF Inv
<1>3. DOMAIN slice = Piece /\ slice[p] \in [1..SliceCount[p] -> SliceState]
  BY <1>2 DEF Inv, TypeOK
<1>4. \A i \in given : i \in 1..SliceCount[p] /\ slice[p][i] = FREE
  BY <1>3 DEF BatchSlices
<1>5. t \in Slice /\ req'[k][t] > 0
  BY DEF Asked
<1>6. t[1] \in Piece /\ t[2] \in 1..SliceCount[t[1]]
  BY <1>5, SliceFacts
<1>7. BatchCopies(remain, is_endgame) = 1
  BY DEF BatchCopies
<1>8. \A j \in Link : req'[j][t] = IF j = l /\ t[1] = p /\ t[2] \in given
                                   THEN req[j][t] + 1 ELSE req[j][t]
  BY <1>1, <1>5, <1>7 DEF Request, Inv, TypeOK
<1>9. /\ p \in started'
      /\ started \subseteq started'
      /\ \A i \in given : slice'[p][i] = REQUESTED
      /\ slice[t[1]][t[2]] = REQUESTED => slice'[t[1]][t[2]] = REQUESTED
  <2>1. slice' = [slice EXCEPT ![p] = GetBatch(slice[p], remain, is_endgame)]
    BY DEF Request
  <2>2. \A i \in 1..SliceCount[p] :
           GetBatch(slice[p], remain, is_endgame)[i] =
             IF i \in given THEN REQUESTED ELSE slice[p][i]
    BY <1>3 DEF GetBatch
  <2> HIDE DEF given
  <2>3. QED
    BY <2>1, <2>2, <1>2, <1>3, <1>4, <1>6 DEF Request
<1>10. \A j \in Link : req[j][t] \in Nat
  BY <1>5 DEF Inv, TypeOK
<1>11. CASE t[1] = p /\ t[2] \in given
  <2>1. slice[t[1]][t[2]] # REQUESTED
    BY <1>4, <1>11 DEF FREE, REQUESTED
  <2>2. \A j \in Link : t \notin Asked(j)
    BY <2>1 DEF Inv, Exclusive
  <2>3. \A j \in Link : req[j][t] = 0
    BY <2>2, <1>5, <1>10 DEF Asked
  <2>4. k = l /\ req'[l][t] = 1 /\ \A j \in Link : j # l => req'[j][t] = 0
    BY <2>3, <1>1, <1>5, <1>8, <1>11
  <2>5. \A j \in Link \ {k} : t \notin Asked(j)'
    BY <2>4 DEF Asked
  <2>6. QED
    BY <2>4, <2>5, <1>9, <1>11
<1>12. CASE ~(t[1] = p /\ t[2] \in given)
  <2>1. \A j \in Link : req'[j][t] = req[j][t]
    BY <1>8, <1>12
  <2>2. t \in Asked(k) /\ \A j \in Link : t \in Asked(j)' => t \in Asked(j)
    BY <2>1, <1>5 DEF Asked
  <2>3. /\ t[1] \in started /\ slice[t[1]][t[2]] = REQUESTED /\ req[k][t] = 1
        /\ \A j \in Link \ {k} : t \notin Asked(j)
    BY <2>2 DEF Inv, Exclusive
  <2>4. QED
    BY <2>1, <2>2, <2>3, <1>9
<1>13. QED
  BY <1>11, <1>12

LEMMA InitExclusive == Init => Exclusive
<1>1. ASSUME Init, NEW l \in Link PROVE Asked(l) = {}
  BY <1>1 DEF Init, Asked, NoneRequested
<1>2. QED
  BY <1>1 DEF Exclusive

LEMMA NextExclusive == Inv /\ [Next]_vars => Exclusive'
<1> SUFFICES ASSUME Inv, [Next]_vars PROVE Exclusive'
  OBVIOUS
<1>1. ASSUME UNCHANGED <<started, slice, is_endgame, req>> PROVE Exclusive'
  BY <1>1, FewerKeepExclusive DEF Inv
<1>2. ASSUME NEW l \in Link, Handler(l) PROVE Exclusive'
  <2>1. CASE Established(l)
    BY <2>1, <1>1 DEF Established, pieceVars
  <2>2. CASE Disconnect(l)
    BY <2>2, DestroyExclusive DEF Disconnect
  <2>3. CASE \E bits \in SUBSET Piece : OnBitfield(l, bits)
    BY <2>3, <1>1 DEF OnBitfield
  <2>4. CASE \E p \in Piece : OnHave(l, p)
    BY <2>4, <1>1 DEF OnHave
  <2>5. CASE OnChoke(l)
    BY <2>5, AbortKeepsExclusive DEF OnChoke
  <2>6. CASE OnUnchoke(l)
    BY <2>6, <1>1 DEF OnUnchoke, pieceVars
  <2>7. CASE \E s \in Slice, valid \in BOOLEAN : OnPiece(l, s, valid)
    BY <2>7, OnPieceExclusive
  <2>8. ASSUME NEW s \in Slice, OnPieceBadLength(l, s) PROVE Exclusive'
    <3>1. \E S \in SUBSET Asked(l) : Destroy(l, S)
      BY <2>8 DEF OnPieceBadLength
    <3>2. QED
      BY <3>1, DestroyExclusive
  <2>9. QED
    BY <1>2, <2>1, <2>2, <2>3, <2>4, <2>5, <2>6, <2>7, <2>8 DEF Handler
<1>3. CASE SecondTick
  BY <1>1, <1>3 DEF SecondTick, pieceVars, linkVars
<1>4. CASE DoPiecesRequest
  BY <1>1, <1>4 DEF DoPiecesRequest, pieceVars, linkVars
<1>5. CASE RequestLoop
  <2>1. Calling("loop")
    BY <1>5 DEF RequestLoop
  <2>2. QED
    BY <1>1, <1>5, <2>1, RequestLoopCases, RequestExclusive DEF pieceVars
<1>6. CASE NotifyHavePiece
  <2>1. /\ agenda[1].link \in Link
        /\ req' = [req EXCEPT ![agenda[1].link] =
                     [s \in Slice |-> IF s[1] = agenda[1].arg THEN 0 ELSE @[s]]]
        /\ UNCHANGED <<started, slice, is_endgame>>
    BY <1>6, AgendaFacts DEF NotifyHavePiece, pieceVars, Inv
  <2>2. \A k \in Link, s \in Slice : req'[k][s] > 0 => req'[k][s] = req[k][s]
    BY <2>1 DEF Inv, TypeOK
  <2>3. QED
    BY <2>1, <2>2, FewerKeepExclusive DEF Inv
<1>7. CASE PieceEnd
  <2>1. (req' = req \/ req' = [l \in Link |-> NoneRequested]) /\ UNCHANGED <<started, slice, is_endgame>>
    BY <1>7 DEF PieceEnd, pieceVars
  <2>2. \A k \in Link, s \in Slice : req'[k][s] > 0 => req'[k][s] = req[k][s]
    BY <2>1 DEF NoneRequested
  <2>3. QED
    BY <2>1, <2>2, FewerKeepExclusive DEF Inv
<1>8. CASE AbortAllRequest
  <2>1. agenda[1].link \in Link
    BY <1>8, AgendaFacts DEF AbortAllRequest, Inv
  <2>2. QED
    BY <1>8, <2>1, AbortKeepsExclusive DEF AbortAllRequest
<1>9. CASE UNCHANGED vars
  BY <1>1, <1>9 DEF vars, pieceVars, linkVars
<1>10. QED
  BY <1>2, <1>3, <1>4, <1>5, <1>6, <1>7, <1>8, <1>9 DEF Next, Call

\* Outside endgame no slice is asked of two peers or twice of one, and what is
\* asked for counts as requested - also with peers that send data of the wrong
\* length or a second bitfield.
THEOREM RequestsAreExclusive == Spec => []Exclusive
<1>1. Init => Inv
  BY InitType, InitExclusive DEF Inv
<1>2. Inv /\ [Next]_vars => Inv'
  BY NextType, NextExclusive DEF Inv
<1>3. Inv => Exclusive
  BY DEF Inv
<1>4. QED
  BY <1>1, <1>2, <1>3, PTL DEF Spec

(***************************************************************************)
(* The calls a handler has still to make, as a set.                        *)
(***************************************************************************)

Jobs(calls) == {calls[k] : k \in DOMAIN calls}

LEMMA JobsOfTail ==
    ASSUME NEW s \in Seq(JobType), s # <<>>
    PROVE  Jobs(s) = {s[1]} \cup Jobs(Tail(s))
<1> DEFINE t == Tail(s)
<1>1. /\ Len(s) \in Nat \ {0} /\ DOMAIN s = 1..Len(s)
      /\ t \in Seq(JobType) /\ Len(t) = Len(s) - 1 /\ DOMAIN t = 1..Len(t)
      /\ \A i \in 1..Len(t) : t[i] = s[i + 1]
  BY EmptySeq, LenProperties, HeadTailProperties
<1> HIDE DEF t
<1>2. ASSUME NEW job \in Jobs(s) PROVE job \in {s[1]} \cup Jobs(t)
  <2>1. PICK k \in 1..Len(s) : job = s[k]
    BY <1>1, <1>2 DEF Jobs
  <2>2. CASE k = 1
    BY <2>1, <2>2
  <2>3. CASE k # 1
    <3>1. k - 1 \in 1..Len(t) /\ (k - 1) + 1 = k
      BY <2>1, <2>3, <1>1
    <3>2. t[k - 1] = s[k]
      BY <3>1, <1>1
    <3>3. QED
      BY <3>1, <3>2, <2>1, <1>1 DEF Jobs
  <2>4. QED
    BY <2>2, <2>3
<1>3. ASSUME NEW job \in {s[1]} \cup Jobs(t) PROVE job \in Jobs(s)
  <2>1. CASE job = s[1]
    BY <2>1, <1>1 DEF Jobs
  <2>2. CASE job \in Jobs(t)
    <3>1. PICK k \in 1..Len(t) : job = t[k]
      BY <2>2, <1>1 DEF Jobs
    <3>2. k + 1 \in 1..Len(s) /\ t[k] = s[k + 1]
      BY <3>1, <1>1
    <3>3. QED
      BY <3>1, <3>2, <1>1 DEF Jobs
  <2>3. QED
    BY <1>3, <2>1, <2>2
<1>4. QED
  BY <1>2, <1>3 DEF t

LEMMA JobsOfConcat ==
    ASSUME NEW s \in Seq(JobType), NEW t \in Seq(JobType)
    PROVE  Jobs(s \o t) = Jobs(s) \cup Jobs(t)
<1> DEFINE u == s \o t
<1>1. /\ Len(s) \in Nat /\ DOMAIN s = 1..Len(s)
      /\ Len(t) \in Nat /\ DOMAIN t = 1..Len(t)
      /\ u \in Seq(JobType) /\ Len(u) = Len(s) + Len(t) /\ DOMAIN u = 1..Len(u)
      /\ \A i \in 1..Len(u) : u[i] = IF i <= Len(s) THEN s[i] ELSE t[i - Len(s)]
  BY LenProperties, ConcatProperties
<1> HIDE DEF u
<1>2. ASSUME NEW job \in Jobs(u) PROVE job \in Jobs(s) \cup Jobs(t)
  <2>1. PICK k \in 1..Len(u) : job = u[k]
    BY <1>1, <1>2 DEF Jobs
  <2>2. CASE k <= Len(s)
    BY <2>1, <2>2, <1>1 DEF Jobs
  <2>3. CASE ~(k <= Len(s))
    <3>1. k - Len(s) \in 1..Len(t)
      BY <2>1, <2>3, <1>1
    <3>2. job = t[k - Len(s)]
      BY <2>1, <2>3, <1>1
    <3>3. QED
      BY <3>1, <3>2, <1>1 DEF Jobs
  <2>4. QED
    BY <2>2, <2>3
<1>3. ASSUME NEW job \in Jobs(s) \cup Jobs(t) PROVE job \in Jobs(u)
  <2>1. CASE job \in Jobs(s)
    <3>1. PICK k \in 1..Len(s) : job = s[k]
      BY <2>1, <1>1 DEF Jobs
    <3>2. k \in 1..Len(u) /\ u[k] = s[k]
      BY <1>1
    <3>3. QED
      BY <3>1, <3>2, <1>1 DEF Jobs
  <2>2. CASE job \in Jobs(t)
    <3>1. PICK k \in 1..Len(t) : job = t[k]
      BY <2>2, <1>1 DEF Jobs
    <3>2. k + Len(s) \in 1..Len(u) /\ ~(k + Len(s) <= Len(s)) /\ (k + Len(s)) - Len(s) = k
      BY <1>1
    <3>3. u[k + Len(s)] = t[k]
      BY <3>2, <1>1
    <3>4. QED
      BY <3>1, <3>2, <3>3, <1>1 DEF Jobs
  <2>3. QED
    BY <1>3, <2>1, <2>2
<1>4. QED
  BY <1>2, <1>3 DEF u

LEMMA JobsOfOne == ASSUME NEW job PROVE Jobs(<<job>>) = {job}
BY SMT DEF Jobs

LEMMA JobsOfNone == Jobs(<<>>) = {}
BY SMT DEF Jobs

\* The running call replaced by another, or dropped.
LEMMA JobsOfPush ==
    ASSUME NEW job \in JobType, NEW t \in Seq(JobType)
    PROVE  /\ <<job>> \o t \in Seq(JobType) /\ <<job>> \o t # <<>>
           /\ Jobs(<<job>> \o t) = {job} \cup Jobs(t)
           /\ Tail(<<job>> \o t) = t
           /\ (<<job>> \o t)[1] = job
<1>1. <<job>> \in Seq(JobType)
  BY SMT
<1>2. Jobs(<<job>> \o t) = {job} \cup Jobs(t)
  BY <1>1, JobsOfConcat, JobsOfOne
<1>3. <<job>> \o t \in Seq(JobType) /\ <<job>> \o t # <<>> /\ (<<job>> \o t)[1] = job
  BY SMT
<1>4. Tail(<<job>> \o t) = t
  BY SMT
<1>5. QED
  BY <1>2, <1>3, <1>4

LEMMA JobsOfAppend ==
    ASSUME NEW job \in JobType, NEW s \in Seq(JobType)
    PROVE  Jobs(Append(s, job)) = Jobs(s) \cup {job}
<1>1. <<job>> \in Seq(JobType) /\ Append(s, job) = s \o <<job>>
  BY AppendIsConcat, SMT
<1>2. QED
  BY <1>1, JobsOfConcat, JobsOfOne

\* A loop over a finite set of links makes its call at every one of them.
LEMMA JobsOfSweep ==
    ASSUME NEW name, NEW S \in SUBSET Link, NEW arg, NEW calls \in Sweep(name, S, arg)
    PROVE  Jobs(calls) = {Job(name, l, arg) : l \in S}
<1> DEFINE n == Cardinality(S)
<1>1. IsFiniteSet(S) /\ n \in Nat
  BY PeerLinkAssumption, FS_Subset, FS_CardinalityType
<1>2. PICK order \in [1..n -> S] :
         /\ \A i, j \in DOMAIN order : order[i] = order[j] => i = j
         /\ calls = [i \in DOMAIN order |-> Job(name, order[i], arg)]
  BY DEF Sweep
<1>3. IsFiniteSet(1..n) /\ Cardinality(1..n) = n
  BY <1>1, FS_Interval, SMT
<1>4. ASSUME NEW l \in S PROVE \E i \in 1..n : order[i] = l
  <2> SUFFICES ASSUME \A i \in 1..n : order[i] # l PROVE FALSE
    OBVIOUS
  <2>1. order \in [1..n -> S \ {l}]
    BY <1>2
  <2>2. IsFiniteSet(S \ {l}) /\ Cardinality(S \ {l}) = n - 1
    BY <1>1, FS_RemoveElement
  <2>3. Cardinality(S \ {l}) < Cardinality(1..n)
    BY <2>2, <1>1, <1>3
  <2>4. \E x, y \in 1..n : x # y /\ order[x] = order[y]
    BY <2>1, <2>2, <2>3, <1>3, FS_PigeonHole
  <2>5. QED
    BY <2>4, <1>2
<1> HIDE DEF n
<1>5. DOMAIN calls = 1..n /\ \A i \in 1..n : calls[i] = Job(name, order[i], arg)
  BY <1>2
<1>6. ASSUME NEW job \in Jobs(calls) PROVE job \in {Job(name, l, arg) : l \in S}
  BY <1>2, <1>5 DEF Jobs
<1>7. ASSUME NEW l \in S PROVE Job(name, l, arg) \in Jobs(calls)
  BY <1>4, <1>5 DEF Jobs
<1>8. QED
  BY <1>6, <1>7

(***************************************************************************)
(* What the other invariants rest on: the calls to make are of connected   *)
(* links and only the running one is a loop; a link that is not connected  *)
(* holds nothing; no piece is held and under download, and a piece that is *)
(* not under download has nothing outstanding.                             *)
(***************************************************************************)

CallsSound ==
    /\ \A job \in Jobs(agenda) :
          /\ job.link \in links
          /\ job.call = "notify" => job.arg \in bitfield
          /\ job.call = "loop" => job.arg > 0 /\ ~remote_choking_local[job.link]
    /\ agenda # <<>> => \A job \in Jobs(Tail(agenda)) : job.call # "loop"

GoneIsEmpty ==
    \A l \in Link \ links :
        /\ \A s \in Slice : req[l][s] = 0
        /\ own[l] = {}
        /\ ~local_interested_remote[l]

PiecesApart ==
    /\ started \cap bitfield = {}
    /\ \A p \in Piece \ started : NotRequested(slice[p])

Core == TypeOK /\ CallsSound /\ GoneIsEmpty /\ PiecesApart

\* The running call, if there is one, is not a loop.
Settled == CallsSound /\ ~Calling("loop")

LEMMA PopSound ==
    ASSUME TypeOK, CallsSound, NEW name, Calling(name), agenda' = Tail(agenda),
           UNCHANGED <<links, bitfield, remote_choking_local>>
    PROVE  Settled'
<1>1. /\ agenda \in Seq(JobType) /\ agenda # <<>> /\ Tail(agenda) \in Seq(JobType)
  BY TypeParts, AgendaFacts DEF Calling, StateTyped
<1>2. Jobs(agenda') \subseteq Jobs(agenda)
  BY <1>1, JobsOfTail
<1>3. agenda' # <<>> => Jobs(Tail(agenda')) \subseteq Jobs(agenda')
  BY <1>1, JobsOfTail
<1>4. \A job \in Jobs(agenda') : job.call # "loop"
  BY <1>1 DEF CallsSound
<1>5. CallsSound'
  BY <1>2, <1>3, <1>4 DEF CallsSound
<1>6. agenda' # <<>> => agenda'[1] \in Jobs(agenda')
  BY <1>1, JobsOfTail
<1>7. QED
  BY <1>4, <1>5, <1>6 DEF Settled, Calling

LEMMA PushSound ==
    ASSUME TypeOK, CallsSound, NEW name, Calling(name), NEW job \in JobType,
           agenda' = <<job>> \o Tail(agenda), job.link = agenda[1].link,
           job.call # "notify",
           job.call = "loop" => job.arg > 0 /\ ~remote_choking_local[job.link],
           UNCHANGED <<links, bitfield, remote_choking_local>>
    PROVE  CallsSound'
<1>1. /\ agenda \in Seq(JobType) /\ agenda # <<>> /\ Tail(agenda) \in Seq(JobType)
  BY TypeParts, AgendaFacts DEF Calling, StateTyped
<1>2. Jobs(agenda) = {agenda[1]} \cup Jobs(Tail(agenda))
  BY <1>1, JobsOfTail
<1>3. Jobs(agenda') = {job} \cup Jobs(Tail(agenda)) /\ Tail(agenda') = Tail(agenda)
  BY <1>1, JobsOfPush
<1>4. job.link \in links
  BY <1>2 DEF CallsSound
<1>5. QED
  BY <1>1, <1>2, <1>3, <1>4 DEF CallsSound

LEMMA StartSound ==
    ASSUME agenda' \in Seq(JobType),
           \A job \in Jobs(agenda') :
              /\ job.link \in links'
              /\ job.call = "notify" => job.arg \in bitfield'
              /\ job.call # "loop"
    PROVE  Settled'
<1>1. agenda' # <<>> => /\ Jobs(Tail(agenda')) \subseteq Jobs(agenda')
                        /\ agenda'[1] \in Jobs(agenda')
  BY JobsOfTail
<1>2. QED
  BY <1>1 DEF Settled, CallsSound, Calling

LEMMA NothingSound == ASSUME agenda' = <<>> PROVE Settled'
<1>1. agenda' \in Seq(JobType) /\ Jobs(agenda') = {}
  BY JobsOfNone, SMT
<1>2. QED
  BY <1>1, StartSound

\* The first call of a handler that asks for more.
LEMMA RequestSound ==
    ASSUME NEW l \in Link, l \in links', agenda' = <<Job("request", l, 0)>>
    PROVE  Settled'
<1>1. agenda' \in Seq(JobType) /\ Jobs(agenda') = {Job("request", l, 0)}
  BY JobFacts, JobsOfOne
<1>2. QED
  BY <1>1, StartSound DEF Job

LEMMA HandlerSound ==
    ASSUME TypeOK, CallsSound, NEW l \in Link, Handler(l)
    PROVE  Settled'
<1>1. CASE Established(l)
  BY <1>1, NothingSound DEF Established
<1>2. CASE Disconnect(l)
  BY <1>2, NothingSound DEF Disconnect, Destroy
<1>3. CASE \E bits \in SUBSET Piece : OnBitfield(l, bits)
  BY <1>3, NothingSound DEF OnBitfield
<1>4. CASE \E p \in Piece : OnHave(l, p)
  BY <1>4, RequestSound DEF OnHave
<1>5. CASE OnChoke(l)
  BY <1>5, NothingSound DEF OnChoke
<1>6. CASE OnUnchoke(l)
  BY <1>6, RequestSound DEF OnUnchoke
<1>7. ASSUME NEW s \in Slice, NEW valid \in BOOLEAN, OnPiece(l, s, valid) PROVE Settled'
  <2> DEFINE p == s[1]
             end == Job("piece_end", l, 0)
  <2>1. agenda = <<>> /\ l \in links /\ links' = links
    BY <1>7 DEF OnPiece
  <2>2. \/ agenda' = agenda
        \/ agenda' = <<Job("request", l, 0)>>
        \/ /\ SliceCompleted(s, valid) /\ bitfield' # bitfield
           /\ \E calls \in Sweep("notify", links, p) : agenda' = Append(calls, end)
    BY <1>7 DEF OnPiece
  <2>3. ASSUME SliceCompleted(s, valid), bitfield' # bitfield,
               NEW calls \in Sweep("notify", links, p), agenda' = Append(calls, end)
        PROVE  Settled'
    <3>1. p \in Piece /\ p \in Nat
      BY SliceFacts, PiecesAssumption DEF Piece
    <3>2. calls \in Seq(JobType) /\ Jobs(calls) = {Job("notify", k, p) : k \in links}
      <4>1. links \in SUBSET Link
        BY DEF TypeOK
      <4>2. calls \in Seq(JobType)
        BY <2>3, <3>1, <4>1, SweepType
      <4>3. Jobs(calls) = {Job("notify", k, p) : k \in links}
        BY <2>3, <4>1, JobsOfSweep
      <4>4. QED
        BY <4>2, <4>3
    <3>3. end \in JobType
      BY JobFacts
    <3> HIDE DEF end, p
    <3>4. agenda' \in Seq(JobType) /\ Jobs(agenda') = Jobs(calls) \cup {end}
      BY <2>3, <3>2, <3>3, AppendProperties, JobsOfAppend
    <3> USE DEF end, p
    <3>5. p \in bitfield'
      BY <2>3 DEF SliceCompleted
    <3>6. QED
      BY <2>1, <3>2, <3>4, <3>5, StartSound DEF Job
  <2>4. QED
    BY <2>1, <2>2, <2>3, NothingSound, RequestSound
<1>8. CASE \E s \in Slice : OnPieceBadLength(l, s)
  BY <1>8, NothingSound DEF OnPieceBadLength, Destroy
<1>9. QED
  BY <1>1, <1>2, <1>3, <1>4, <1>5, <1>6, <1>7, <1>8 DEF Handler

LEMMA SecondTickSound == ASSUME TypeOK, SecondTick PROVE Settled'
<1>1. PICK calls \in Sweep("request", links, 0) :
         \/ agenda' = calls
         \/ \E S \in SUBSET links \ {{}} :
               \E resets \in Sweep("reset", S, 0) : agenda' = calls \o resets
  BY DEF SecondTick
<1>2. links' = links
  BY DEF SecondTick, linkVars
<1>3. calls \in Seq(JobType) /\ Jobs(calls) = {Job("request", k, 0) : k \in links}
  <2>1. links \in SUBSET Link
    BY DEF TypeOK
  <2>2. calls \in Seq(JobType)
    BY <2>1, SweepType
  <2>3. Jobs(calls) = {Job("request", k, 0) : k \in links}
    BY <2>1, JobsOfSweep
  <2>4. QED
    BY <2>2, <2>3
<1>4. CASE agenda' = calls
  BY <1>2, <1>3, <1>4, StartSound DEF Job
<1>5. ASSUME NEW S \in SUBSET links \ {{}}, NEW resets \in Sweep("reset", S, 0),
             agenda' = calls \o resets
      PROVE  Settled'
  <2>1. resets \in Seq(JobType) /\ Jobs(resets) = {Job("reset", k, 0) : k \in S}
    <3>1. S \in SUBSET Link
      BY DEF TypeOK
    <3>2. resets \in Seq(JobType)
      BY <3>1, SweepType
    <3>3. Jobs(resets) = {Job("reset", k, 0) : k \in S}
      BY <3>1, JobsOfSweep
    <3>4. QED
      BY <3>2, <3>3
  <2>2. agenda' \in Seq(JobType) /\ Jobs(agenda') = Jobs(calls) \cup Jobs(resets)
    BY <1>3, <1>5, <2>1, ConcatProperties, JobsOfConcat
  <2>3. QED
    BY <1>2, <1>3, <2>1, <2>2, StartSound DEF Job
<1>6. QED
  BY <1>1, <1>4, <1>5

LEMMA CallSound == ASSUME TypeOK, CallsSound, Call PROVE CallsSound'
<1> DEFINE l == agenda[1].link
<1>1. ASSUME NEW name, Calling(name)
      PROVE  l \in Link /\ agenda[1] \in Jobs(agenda)
  <2>1. agenda \in Seq(JobType) /\ agenda # <<>>
    BY <1>1, TypeParts DEF Calling, StateTyped
  <2>2. QED
    BY <1>1, <2>1, JobsOfTail, AgendaFacts
<1>2. CASE DoPiecesRequest
  <2>1. CASE agenda' = Tail(agenda)
    BY <1>2, <2>1, PopSound DEF Settled, DoPiecesRequest, linkVars, pieceVars
  <2>2. CASE ~remote_choking_local[l] /\ agenda' = <<Job("loop", l, PendingCount)>> \o Tail(agenda)
    <3>1. Job("loop", l, PendingCount) \in JobType
      BY <1>1, <1>2, JobFacts, PeerLinkAssumption DEF DoPiecesRequest
    <3>2. PendingCount > 0
      BY PeerLinkAssumption
    <3>3. QED
      BY <1>2, <2>2, <3>1, <3>2, PushSound DEF DoPiecesRequest, linkVars, pieceVars, Job
  <2>3. QED
    BY <1>2, <2>1, <2>2 DEF DoPiecesRequest
<1>3. CASE RequestLoop
  <2>1. Calling("loop") /\ UNCHANGED <<links, bitfield, remote_choking_local>>
    BY <1>3 DEF RequestLoop
  <2>2. CASE agenda' = Tail(agenda)
    BY <2>1, <2>2, PopSound DEF Settled
  <2>3. ASSUME NEW p \in BestDownloading(own[l]), Request(l, agenda[1].arg, p) PROVE CallsSound'
    <3> DEFINE given == BatchSlices(slice[p], agenda[1].arg, is_endgame)
               left == agenda[1].arg - BatchCopies(agenda[1].arg, is_endgame) * Cardinality(given)
    <3>1. agenda' = Tail(agenda) \/ (left # 0 /\ agenda' = <<Job("loop", l, left)>> \o Tail(agenda))
      BY <2>3 DEF Request
    <3>2. left \in Nat
      <4>1. l \in Link /\ agenda[1].arg \in Nat
        BY <2>1, AgendaFacts
      <4>2. p \in Piece
        <5>1. own[l] \in SUBSET Piece
          BY <4>1 DEF TypeOK
        <5>2. QED
          BY <5>1, BestFacts
      <4>3. slice[p] \in [1..SliceCount[p] -> SliceState] /\ SliceCount[p] \in Nat /\ is_endgame \in BOOLEAN
        BY <4>2, PiecesAssumption DEF TypeOK
      <4>4. BatchCopies(agenda[1].arg, is_endgame) * Cardinality(given) \in 0..agenda[1].arg
        BY <4>1, <4>3, BatchWithinWant
      <4>5. QED
        BY <4>1, <4>4, SMT
    <3> HIDE DEF left
    <3>3. Job("loop", l, left) \in JobType
      BY <1>1, <2>1, <3>2, JobFacts
    <3>4. agenda[1].call = "loop"
      BY <2>1 DEF Calling
    <3>5. ~remote_choking_local[l]
      BY <1>1, <2>1, <3>4 DEF CallsSound
    <3>6. CASE left # 0 /\ agenda' = <<Job("loop", l, left)>> \o Tail(agenda)
      <4>1. left > 0
        BY <3>2, <3>6
      <4>2. QED
        BY <2>1, <3>3, <3>5, <3>6, <4>1, PushSound DEF Job
    <3>7. QED
      BY <2>2, <3>1, <3>6
  <2>4. QED
    BY <1>3, <2>2, <2>3, RequestLoopCases
<1>4. CASE NotifyHavePiece
  <2>1. Job("request", l, 0) \in JobType
    BY <1>1, <1>4, JobFacts DEF NotifyHavePiece
  <2>2. QED
    BY <1>4, <2>1, PushSound DEF NotifyHavePiece, pieceVars, Job
<1>5. CASE PieceEnd
  <2>1. Job("request", l, 0) \in JobType
    BY <1>1, <1>5, JobFacts DEF PieceEnd
  <2>2. agenda' = Tail(agenda) \/ agenda' = <<Job("request", l, 0)>> \o Tail(agenda)
    BY <1>5 DEF PieceEnd
  <2>3. QED
    BY <1>5, <2>1, <2>2, PushSound, PopSound DEF Settled, PieceEnd, pieceVars, Job
<1>6. CASE AbortAllRequest
  BY <1>6, PopSound DEF Settled, AbortAllRequest
<1>7. QED
  BY <1>2, <1>3, <1>4, <1>5, <1>6 DEF Call

\* Only a connected link comes to hold something.
LEMMA GoneStays ==
    ASSUME GoneIsEmpty, links \subseteq links',
           \A k \in Link \ links' :
              /\ req'[k] = req[k] \/ req'[k] = NoneRequested
              /\ own'[k] = own[k]
              /\ local_interested_remote'[k] => local_interested_remote[k]
    PROVE  GoneIsEmpty'
<1> SUFFICES ASSUME NEW k \in Link \ links'
             PROVE  /\ \A s \in Slice : req'[k][s] = 0
                    /\ own'[k] = {}
                    /\ ~local_interested_remote'[k]
  BY DEF GoneIsEmpty
<1>1. k \in Link \ links
  OBVIOUS
<1>2. \A s \in Slice : req'[k][s] = 0
  BY <1>1 DEF GoneIsEmpty, NoneRequested
<1>3. QED
  BY <1>1, <1>2 DEF GoneIsEmpty

LEMMA DestroyGone ==
    ASSUME TypeOK, GoneIsEmpty, NEW l \in Link, NEW S, Destroy(l, S)
    PROVE  GoneIsEmpty'
<1> SUFFICES ASSUME NEW k \in Link \ links'
             PROVE  /\ \A s \in Slice : req'[k][s] = 0
                    /\ own'[k] = {}
                    /\ ~local_interested_remote'[k]
  BY DEF GoneIsEmpty
<1>1. CASE k = l
  BY <1>1 DEF Destroy, TypeOK, NoneRequested
<1>2. CASE k # l
  <2>1. k \in Link \ links
    BY <1>2 DEF Destroy
  <2>2. /\ req'[k] = req[k] /\ own'[k] = own[k]
        /\ local_interested_remote'[k] = local_interested_remote[k]
    BY <1>2 DEF Destroy, TypeOK
  <2>3. QED
    BY <2>1, <2>2 DEF GoneIsEmpty
<1>3. QED
  BY <1>1, <1>2

LEMMA HandlerGone ==
    ASSUME TypeOK, GoneIsEmpty, NEW l \in Link, Handler(l)
    PROVE  GoneIsEmpty'
<1>1. CASE Established(l)
  BY <1>1, GoneStays DEF Established
<1>2. CASE Disconnect(l)
  BY <1>2, DestroyGone DEF Disconnect
<1>3. CASE \E bits \in SUBSET Piece : OnBitfield(l, bits)
  BY <1>3, GoneStays DEF OnBitfield, TypeOK
<1>4. CASE \E p \in Piece : OnHave(l, p)
  BY <1>4, GoneStays DEF OnHave, TypeOK
<1>5. CASE OnChoke(l)
  BY <1>5, GoneStays DEF OnChoke, TypeOK
<1>6. CASE OnUnchoke(l)
  BY <1>6, GoneStays DEF OnUnchoke
<1>7. CASE \E s \in Slice, valid \in BOOLEAN : OnPiece(l, s, valid)
  BY <1>7, GoneStays DEF OnPiece, TypeOK
<1>8. CASE \E s \in Slice : OnPieceBadLength(l, s)
  BY <1>8, DestroyGone DEF OnPieceBadLength
<1>9. QED
  BY <1>1, <1>2, <1>3, <1>4, <1>5, <1>6, <1>7, <1>8 DEF Handler

\* The link of the running call is connected.
LEMMA CallerFacts ==
    ASSUME TypeOK, CallsSound, NEW name, Calling(name)
    PROVE  /\ agenda[1] \in Jobs(agenda) /\ agenda[1].link \in links
           /\ agenda[1].link \in Link /\ agenda[1].call = name
<1>1. agenda \in Seq(JobType) /\ agenda # <<>> /\ agenda[1].call = name
  BY TypeParts DEF Calling, StateTyped
<1>2. agenda[1] \in Jobs(agenda)
  BY <1>1, JobsOfTail
<1>3. QED
  BY <1>1, <1>2, AgendaFacts DEF CallsSound

LEMMA CallGone ==
    ASSUME TypeOK, CallsSound, GoneIsEmpty, Call
    PROVE  GoneIsEmpty'
<1> DEFINE l == agenda[1].link
<1>1. CASE DoPiecesRequest
  BY <1>1, GoneStays DEF DoPiecesRequest, linkVars
<1>2. CASE RequestLoop
  <2>1. l \in links /\ l \in Link
    BY <1>2, CallerFacts DEF RequestLoop
  <2>2. \A k \in Link \ {l} : req'[k] = req[k] /\ local_interested_remote'[k] = local_interested_remote[k]
    <3>1. CASE /\ local_interested_remote' = [local_interested_remote EXCEPT ![l] = FALSE]
               /\ req' = req
      BY <3>1 DEF TypeOK
    <3>2. ASSUME NEW p, Request(l, agenda[1].arg, p)
          PROVE  \A k \in Link \ {l} : req'[k] = req[k] /\ local_interested_remote'[k] = local_interested_remote[k]
      BY <3>2 DEF Request, TypeOK
    <3>3. QED
      BY <1>2, <3>1, <3>2, RequestLoopCases
  <2>3. QED
    BY <1>2, <2>1, <2>2, GoneStays DEF RequestLoop
<1>3. CASE NotifyHavePiece
  <2>1. l \in links /\ l \in Link
    BY <1>3, CallerFacts DEF NotifyHavePiece
  <2>2. \A k \in Link \ {l} : req'[k] = req[k]
    BY <1>3 DEF NotifyHavePiece, TypeOK
  <2>3. QED
    BY <1>3, <2>1, <2>2, GoneStays DEF NotifyHavePiece
<1>4. CASE PieceEnd
  <2>1. \A k \in Link : /\ req'[k] = req[k] \/ req'[k] = NoneRequested
                        /\ local_interested_remote'[k] => local_interested_remote[k]
    BY <1>4 DEF PieceEnd
  <2>2. QED
    BY <1>4, <2>1, GoneStays DEF PieceEnd
<1>5. CASE AbortAllRequest
  BY <1>5, GoneStays DEF AbortAllRequest, TypeOK
<1>6. QED
  BY <1>1, <1>2, <1>3, <1>4, <1>5 DEF Call

(***************************************************************************)
(* Pieces held, under download and untouched.                              *)
(***************************************************************************)

LEMMA AbortApart ==
    ASSUME TypeOK, PiecesApart, NEW S, AbortAll(S), UNCHANGED bitfield
    PROVE  PiecesApart'
<1> DEFINE sel(p) == {i \in DOMAIN slice[p] : <<p, i>> \in S}
           table == [p \in Piece |-> AbortRequests(slice[p], sel(p))]
<1>1. /\ slice' = table
      /\ started' = {p \in started : slice[p] = table[p] \/ ~NotRequested(table[p])}
  BY DEF AbortAll
<1>2. ASSUME NEW p \in Piece \ started' PROVE NotRequested(slice'[p])
  <2>1. CASE p \in started
    BY <1>1, <1>2, <2>1
  <2>2. CASE p \notin started
    <3>1. NotRequested(slice[p])
      BY <2>2 DEF PiecesApart
    <3>2. NotRequested(AbortRequests(slice[p], sel(p)))
      BY <3>1 DEF AbortRequests, NotRequested
    <3>3. QED
      BY <3>2, <1>1
  <2>3. QED
    BY <2>1, <2>2
<1>3. QED
  BY <1>1, <1>2 DEF PiecesApart

LEMMA CompletedApart ==
    ASSUME TypeOK, PiecesApart, NEW s \in Slice, NEW valid \in BOOLEAN,
           s[1] \in started, SliceCompleted(s, valid)
    PROVE  PiecesApart'
<1> DEFINE p == s[1]
           table == RequestCompleted(slice[p], s[2])
<1>1. p \in Piece /\ DOMAIN slice = Piece
  BY SliceFacts DEF TypeOK
<1>2. CASE ~IsCompleted(table)
  <2>1. slice' = [slice EXCEPT ![p] = table] /\ started' = started /\ bitfield' = bitfield
    BY <1>2 DEF SliceCompleted
  <2> HIDE DEF table
  <2>2. \A q \in Piece \ started' : slice'[q] = slice[q]
    BY <1>1, <2>1
  <2>3. QED
    BY <2>1, <2>2 DEF PiecesApart
<1>3. CASE IsCompleted(table)
  <2>1. /\ slice' = [slice EXCEPT ![p] = Reset(SliceCount[p])] /\ started' = started \ {p}
        /\ bitfield' = bitfield \cup {p} \/ bitfield' = bitfield
    BY <1>3 DEF SliceCompleted
  <2>2. NotRequested(slice'[p])
    BY <1>1, <2>1, ResetIsUntouched
  <2>3. \A q \in Piece : q # p => slice'[q] = slice[q]
    BY <1>1, <2>1
  <2>4. QED
    BY <2>1, <2>2, <2>3 DEF PiecesApart
<1>4. QED
  BY <1>2, <1>3

LEMMA RequestApart ==
    ASSUME TypeOK, PiecesApart, NEW p \in Piece, NEW l, NEW remain, Request(l, remain, p),
           p \in started \/ p \notin bitfield
    PROVE  PiecesApart'
<1>1. \A q \in Piece : q # p => slice'[q] = slice[q]
  BY DEF Request, TypeOK
<1>2. started' = started \cup {p} /\ bitfield' = bitfield
  BY DEF Request
<1>3. QED
  BY <1>1, <1>2 DEF PiecesApart

LEMMA NextApart ==
    ASSUME TypeOK, PiecesApart, [Next]_vars
    PROVE  PiecesApart'
<1>1. ASSUME UNCHANGED <<bitfield, started, slice>> PROVE PiecesApart'
  BY <1>1 DEF PiecesApart
<1>2. ASSUME NEW l \in Link, Handler(l) PROVE PiecesApart'
  <2>1. CASE \/ Established(l) \/ OnUnchoke(l)
             \/ \E bits \in SUBSET Piece : OnBitfield(l, bits)
             \/ \E p \in Piece : OnHave(l, p)
    BY <2>1, <1>1 DEF Established, OnUnchoke, OnBitfield, OnHave, pieceVars
  <2>2. CASE Disconnect(l) \/ OnChoke(l) \/ \E s \in Slice : OnPieceBadLength(l, s)
    BY <2>2, AbortApart DEF Disconnect, OnChoke, OnPieceBadLength, Destroy
  <2>3. ASSUME NEW s \in Slice, NEW valid \in BOOLEAN, OnPiece(l, s, valid) PROVE PiecesApart'
    <3>1. CASE UNCHANGED pieceVars
      BY <1>1, <3>1 DEF pieceVars
    <3>2. CASE s[1] \in started /\ SliceCompleted(s, valid)
      BY <3>2, CompletedApart
    <3>3. QED
      BY <2>3, <3>1, <3>2 DEF OnPiece
  <2>4. QED
    BY <1>2, <2>1, <2>2, <2>3 DEF Handler
<1>3. CASE SecondTick \/ DoPiecesRequest \/ NotifyHavePiece \/ PieceEnd \/ UNCHANGED vars
  BY <1>1, <1>3 DEF SecondTick, DoPiecesRequest, NotifyHavePiece, PieceEnd, vars, pieceVars
<1>4. CASE AbortAllRequest
  BY <1>4, AbortApart DEF AbortAllRequest
<1>5. CASE RequestLoop
  <2>1. ASSUME NEW p \in BestDownloading(own[agenda[1].link]),
               Request(agenda[1].link, agenda[1].arg, p)
        PROVE  PiecesApart'
    <3>1. agenda[1].link \in Link
      BY <1>5, AgendaFacts DEF RequestLoop
    <3>2. own[agenda[1].link] \in SUBSET Piece
      BY <3>1 DEF TypeOK
    <3>3. p \in Piece /\ (p \in started \/ p \notin bitfield)
      BY <3>2, BestFacts
    <3>4. QED
      BY <2>1, <3>3, RequestApart
  <2>2. QED
    BY <1>1, <1>5, <2>1, RequestLoopCases DEF pieceVars
<1>6. QED
  BY <1>2, <1>3, <1>4, <1>5 DEF Next, Call

LEMMA InitCore == Init => Core
<1> SUFFICES ASSUME Init PROVE Core
  OBVIOUS
<1>1. CallsSound
  BY JobsOfNone DEF Init, CallsSound
<1>2. GoneIsEmpty
  BY DEF Init, GoneIsEmpty, NoneRequested
<1>3. PiecesApart
  BY ResetIsUntouched DEF Init, PiecesApart, NoRequests
<1>4. QED
  BY <1>1, <1>2, <1>3, InitType DEF Core

LEMMA NextCore == Core /\ [Next]_vars => Core'
<1> SUFFICES ASSUME Core, [Next]_vars PROVE Core'
  OBVIOUS
<1>1. TypeOK /\ CallsSound /\ GoneIsEmpty /\ PiecesApart
  BY DEF Core
<1>2. CallsSound' /\ GoneIsEmpty'
  <2>1. CASE \E l \in Link : Handler(l)
    BY <1>1, <2>1, HandlerSound, HandlerGone DEF Settled
  <2>2. CASE SecondTick
    BY <1>1, <2>2, SecondTickSound, GoneStays DEF Settled, SecondTick, linkVars
  <2>3. CASE Call
    BY <1>1, <2>3, CallSound, CallGone
  <2>4. CASE UNCHANGED vars
    BY <1>1, <2>4 DEF vars, linkVars, pieceVars, CallsSound, GoneIsEmpty, Jobs
  <2>5. QED
    BY <2>1, <2>2, <2>3, <2>4 DEF Next
<1>3. QED
  BY <1>1, <1>2, NextType, NextApart DEF Core

(***************************************************************************)
(* Every slice that counts as requested is asked of a connected link.      *)
(***************************************************************************)

LEMMA AbortFrees ==
    ASSUME TypeOK, NEW S, AbortAll(S), NEW s \in Slice, slice'[s[1]][s[2]] = REQUESTED
    PROVE  s \notin S /\ slice[s[1]][s[2]] = REQUESTED
<1>1. s[1] \in Piece /\ s[2] \in 1..SliceCount[s[1]] /\ s = <<s[1], s[2]>>
  BY SliceFacts
<1>2. slice[s[1]] \in [1..SliceCount[s[1]] -> SliceState]
  BY <1>1 DEF TypeOK
<1>3. slice'[s[1]] = AbortRequests(slice[s[1]], {i \in DOMAIN slice[s[1]] : <<s[1], i>> \in S})
  BY <1>1 DEF AbortAll
<1>4. slice'[s[1]][s[2]] = IF <<s[1], s[2]>> \in S /\ slice[s[1]][s[2]] = REQUESTED
                           THEN FREE ELSE slice[s[1]][s[2]]
  BY <1>1, <1>2, <1>3 DEF AbortRequests, CanAbort
<1>5. QED
  BY <1>1, <1>4 DEF FREE, REQUESTED

\* NoLostSlice over whole slices.
NoneLost ==
    \A s \in Slice : s[1] \in started /\ slice[s[1]][s[2]] = REQUESTED =>
        s \in lost \/ \E l \in links : req[l][s] > 0

LEMMA NoneLostIsNoLostSlice ==
    ASSUME TypeOK
    PROVE  NoneLost => NoLostSlice
<1> SUFFICES ASSUME NoneLost, NEW p \in started, NEW i \in 1..SliceCount[p],
                    slice[p][i] = REQUESTED, <<p, i>> \notin lost
             PROVE  \E l \in links : <<p, i>> \in Asked(l)
  BY DEF NoLostSlice
<1>1. p \in Piece
  BY DEF TypeOK
<1>2. <<p, i>> \in Slice
  BY <1>1, SliceOfPiece
<1>3. PICK l \in links : req[l][<<p, i>>] > 0
  BY <1>2 DEF NoneLost
<1>4. QED
  BY <1>2, <1>3 DEF Asked

\* A link whose slices were all put back is not missed.
LEMMA AbortLosesNone ==
    ASSUME TypeOK, NoneLost, NEW l \in Link, AbortAll(Asked(l)),
           req' = [req EXCEPT ![l] = NoneRequested], links \ {l} \subseteq links',
           lost' = lost
    PROVE  NoneLost'
<1> SUFFICES ASSUME NEW s \in Slice, s[1] \in started', slice'[s[1]][s[2]] = REQUESTED,
                    s \notin lost
             PROVE  \E k \in links' : req'[k][s] > 0
  BY DEF NoneLost
<1>1. s \notin Asked(l) /\ slice[s[1]][s[2]] = REQUESTED /\ s[1] \in started
  BY AbortFrees, AbortAllFacts
<1>2. PICK k \in links : req[k][s] > 0
  BY <1>1 DEF NoneLost
<1>3. k # l /\ k \in Link
  BY <1>1, <1>2 DEF Asked, TypeOK
<1>4. req'[k] = req[k]
  BY <1>3 DEF TypeOK
<1>5. QED
  BY <1>2, <1>3, <1>4

\* Of the slices of a link that is closed for the length of its data only the
\* one that was taken out is not put back; it is lost unless another has it.
LEMMA BadLengthLosesNone ==
    ASSUME TypeOK, NoneLost, NEW l \in Link, NEW s \in Slice, OnPieceBadLength(l, s)
    PROVE  NoneLost'
<1> DEFINE S == IF req[l][s] = 1 THEN Asked(l) \ {s} ELSE Asked(l)
<1>1. /\ l \in links /\ AbortAll(S) /\ links' = links \ {l}
      /\ req' = [req EXCEPT ![l] = NoneRequested] /\ lost \subseteq lost'
  BY DEF OnPieceBadLength, Destroy
<1> SUFFICES ASSUME NEW t \in Slice, t[1] \in started', slice'[t[1]][t[2]] = REQUESTED,
                    t \notin lost'
             PROVE  \E k \in links' : req'[k][t] > 0
  BY DEF NoneLost
<1>2. t \notin S /\ slice[t[1]][t[2]] = REQUESTED /\ t[1] \in started
  <2> HIDE DEF S
  <2>1. QED
    BY <1>1, AbortFrees, AbortAllFacts
<1>3. PICK k \in links : req[k][t] > 0
  BY <1>1, <1>2 DEF NoneLost
<1>4. PICK n \in links : n # l /\ req[n][t] > 0
  <2>1. CASE t \notin Asked(l)
    BY <1>3, <2>1 DEF Asked
  <2>2. CASE t \in Asked(l)
    <3>1. t = s /\ req[l][s] = 1
      BY <1>2, <2>2
    <3>2. \E n \in links \ {l} : s \in Asked(n)
      BY <1>1, <1>2, <3>1 DEF OnPieceBadLength
    <3>3. QED
      BY <3>1, <3>2 DEF Asked
  <2>3. QED
    BY <2>1, <2>2
<1>5. n \in Link /\ n \in links'
  BY <1>1, <1>4 DEF TypeOK
<1>6. req'[n] = req[n]
  BY <1>1, <1>4, <1>5 DEF TypeOK
<1>7. QED
  BY <1>4, <1>5, <1>6

LEMMA SameLosesNone ==
    ASSUME NoneLost, UNCHANGED <<started, slice, lost>>, links \subseteq links',
           \A k \in links, s \in Slice : s[1] \in started => req'[k][s] = req[k][s]
    PROVE  NoneLost'
BY DEF NoneLost

LEMMA OnPieceLosesNone ==
    ASSUME TypeOK, NoneLost, NEW l \in Link, NEW s \in Slice, NEW valid \in BOOLEAN,
           OnPiece(l, s, valid)
    PROVE  NoneLost'
<1> DEFINE p == s[1]
           table == RequestCompleted(slice[p], s[2])
<1>1. p \in Piece /\ s[2] \in 1..SliceCount[p] /\ s = <<p, s[2]>>
  BY SliceFacts
<1>2. l \in links /\ links' = links /\ req' = [req EXCEPT ![l][s] = @ - 1]
  BY DEF OnPiece
<1>3. DOMAIN slice = Piece /\ slice[p] \in [1..SliceCount[p] -> SliceState]
  BY <1>1 DEF TypeOK
<1> SUFFICES ASSUME NEW t \in Slice, t[1] \in started', slice'[t[1]][t[2]] = REQUESTED,
                    t \notin lost
             PROVE  \E k \in links' : req'[k][t] > 0
  BY Zenon DEF NoneLost, OnPiece
<1>4. t[1] \in Piece /\ t[2] \in 1..SliceCount[t[1]] /\ t = <<t[1], t[2]>>
  BY SliceFacts
<1>5. t[1] \in started /\ slice[t[1]][t[2]] = REQUESTED /\ t # s
  <2>1. CASE p \in started /\ CanComplete(slice[p], s[2])
    <3>1. SliceCompleted(s, valid)
      BY <2>1 DEF OnPiece
    <3>2. CASE ~IsCompleted(table)
      <4>1. slice' = [slice EXCEPT ![p] = table] /\ started' = started
        BY <3>1, <3>2 DEF SliceCompleted
      <4>2. slice'[p] = table /\ \A q \in Piece : q # p => slice'[q] = slice[q]
        BY <4>1, <1>1, <1>3
      <4>3. table[s[2]] = COMPLETED /\ \A i \in 1..SliceCount[p] : i # s[2] => table[i] = slice[p][i]
        BY <1>1, <1>3 DEF RequestCompleted
      <4> HIDE DEF table
      <4>4. CASE t[1] = p
        <5>1. t[2] # s[2]
          BY <4>2, <4>3, <4>4 DEF COMPLETED, REQUESTED
        <5>2. QED
          BY <4>1, <4>2, <4>3, <4>4, <5>1, <1>1, <1>4
      <4>5. CASE t[1] # p
        BY <4>1, <4>2, <4>5, <1>4
      <4>6. QED
        BY <4>4, <4>5
    <3>3. CASE IsCompleted(table)
      <4>1. slice' = [slice EXCEPT ![p] = Reset(SliceCount[p])] /\ started' = started \ {p}
        BY <3>1, <3>3 DEF SliceCompleted
      <4>2. t[1] # p /\ t[1] \in started
        BY <4>1
      <4>3. slice'[t[1]] = slice[t[1]]
        BY <4>1, <4>2, <1>4
      <4>4. QED
        BY <4>2, <4>3
    <3>4. QED
      BY <3>2, <3>3
  <2>2. CASE ~(p \in started /\ CanComplete(slice[p], s[2]))
    <3>1. slice' = slice /\ started' = started
      BY <2>2 DEF OnPiece, pieceVars
    <3>2. t # s
      BY <2>2, <3>1 DEF CanComplete
    <3>3. QED
      BY <3>1, <3>2
  <2>3. QED
    BY <2>1, <2>2
<1>6. PICK k \in links : req[k][t] > 0
  BY <1>5 DEF NoneLost
<1>7. req'[k][t] = req[k][t]
  BY <1>2, <1>5, <1>6 DEF TypeOK
<1>8. QED
  BY <1>2, <1>6, <1>7

LEMMA RequestLosesNone ==
    ASSUME Core, NoneLost, Calling("loop"), NEW p \in BestDownloading(own[agenda[1].link]),
           Request(agenda[1].link, agenda[1].arg, p)
    PROVE  NoneLost'
<1> DEFINE l == agenda[1].link
           remain == agenda[1].arg
           given == BatchSlices(slice[p], remain, is_endgame)
           copies == BatchCopies(remain, is_endgame)
<1>0. TypeOK /\ CallsSound /\ PiecesApart
  BY DEF Core
<1>1. l \in Link /\ l \in links /\ remain \in Nat /\ remain > 0
  BY <1>0, CallerFacts, AgendaFacts DEF CallsSound
<1>2. p \in Piece
  <2>1. own[l] \in SUBSET Piece
    BY <1>0, <1>1 DEF TypeOK
  <2>2. QED
    BY <1>0, <2>1, BestFacts
<1>3. DOMAIN slice = Piece /\ slice[p] \in [1..SliceCount[p] -> SliceState]
  BY <1>0, <1>2 DEF TypeOK
<1>4. copies \in Nat /\ copies > 0
  BY <1>1 DEF BatchCopies
<1> SUFFICES ASSUME NEW t \in Slice, t[1] \in started', slice'[t[1]][t[2]] = REQUESTED,
                    t \notin lost'
             PROVE  \E k \in links' : req'[k][t] > 0
  BY DEF NoneLost
<1>5. t[1] \in Piece /\ t[2] \in 1..SliceCount[t[1]] /\ t = <<t[1], t[2]>>
  BY SliceFacts
<1>6. \A k \in Link : req[k][t] \in Nat
  BY <1>0 DEF TypeOK
<1>7. \A k \in Link : req'[k][t] = IF k = l /\ t[1] = p /\ t[2] \in given
                                   THEN req[k][t] + copies ELSE req[k][t]
  BY <1>0, <1>1 DEF Request, TypeOK
<1>8. links' = links /\ started' = started \cup {p}
  BY DEF Request
<1>9. CASE t[1] = p /\ t[2] \in given
  <2>1. req'[l][t] = req[l][t] + copies
    BY <1>1, <1>7, <1>9
  <2> HIDE DEF copies
  <2>2. req'[l][t] > 0
    BY <2>1, <1>1, <1>4, <1>6
  <2>3. QED
    BY <2>2, <1>1, <1>8
<1>10. CASE ~(t[1] = p /\ t[2] \in given)
  <2>0. t \notin lost
    BY <1>5, <1>10 DEF Request
  <2>1. slice' = [slice EXCEPT ![p] = GetBatch(slice[p], remain, is_endgame)]
    BY DEF Request
  <2>2. \A i \in 1..SliceCount[p] :
           GetBatch(slice[p], remain, is_endgame)[i] =
             IF i \in given THEN REQUESTED ELSE slice[p][i]
    BY <1>3 DEF GetBatch
  <2> HIDE DEF given
  <2>3. slice[t[1]][t[2]] = REQUESTED
    <3>1. CASE t[1] = p
      BY <3>1, <2>1, <2>2, <1>2, <1>3, <1>5, <1>10
    <3>2. CASE t[1] # p
      BY <3>2, <2>1, <1>3, <1>5
    <3>3. QED
      BY <3>1, <3>2
  <2>4. t[1] \in started
    <3>1. CASE t[1] \notin started
      <4>1. NotRequested(slice[t[1]]) /\ slice[t[1]] \in [1..SliceCount[t[1]] -> SliceState]
        BY <3>1, <1>0, <1>5 DEF PiecesApart, TypeOK
      <4>2. slice[t[1]][t[2]] = FREE
        BY <4>1, <1>5 DEF NotRequested
      <4>3. QED
        BY <4>2, <2>3 DEF FREE, REQUESTED
    <3>2. QED
      BY <3>1
  <2>5. PICK k \in links : req[k][t] > 0
    BY <2>0, <2>3, <2>4 DEF NoneLost
  <2>6. k \in Link /\ req'[k][t] = req[k][t]
    <3>1. k \in Link
      BY <1>0, <2>5 DEF TypeOK
    <3>2. QED
      BY <3>1, <1>7, <1>10
  <2>7. QED
    BY <2>5, <2>6, <1>8
<1>11. QED
  BY <1>9, <1>10

LEMMA NextLosesNone ==
    ASSUME Core, NoneLost, [Next]_vars
    PROVE  NoneLost'
<1>0. TypeOK /\ CallsSound /\ PiecesApart
  BY DEF Core
<1>1. ASSUME UNCHANGED <<started, slice, req, lost>>, links \subseteq links' PROVE NoneLost'
  BY <1>1, SameLosesNone
<1>2. ASSUME NEW l \in Link, Handler(l) PROVE NoneLost'
  <2>1. CASE \/ Established(l) \/ OnUnchoke(l)
             \/ \E bits \in SUBSET Piece : OnBitfield(l, bits)
             \/ \E p \in Piece : OnHave(l, p)
    BY <2>1, <1>1 DEF Established, OnUnchoke, OnBitfield, OnHave, pieceVars, history
  <2>2. CASE Disconnect(l) \/ OnChoke(l)
    BY <2>2, <1>0, AbortLosesNone DEF Disconnect, OnChoke, Destroy, history
  <2>3. CASE \E s \in Slice, valid \in BOOLEAN : OnPiece(l, s, valid)
    BY <2>3, <1>0, OnPieceLosesNone
  <2>4. CASE \E s \in Slice : OnPieceBadLength(l, s)
    BY <2>4, <1>0, BadLengthLosesNone
  <2>5. QED
    BY <1>2, <2>1, <2>2, <2>3, <2>4 DEF Handler
<1>3. CASE SecondTick \/ DoPiecesRequest \/ UNCHANGED vars
  BY <1>1, <1>3 DEF SecondTick, DoPiecesRequest, vars, pieceVars, linkVars, history
<1>4. CASE RequestLoop
  <2>1. Calling("loop")
    BY <1>4 DEF RequestLoop
  <2>2. QED
    BY <1>1, <1>4, <2>1, RequestLoopCases, RequestLosesNone DEF pieceVars, history
<1>5. CASE NotifyHavePiece
  <2> DEFINE l == agenda[1].link
  <2>1. agenda[1].arg \in bitfield /\ l \in Link
    BY <1>0, <1>5, CallerFacts DEF NotifyHavePiece, CallsSound
  <2>2. agenda[1].arg \notin started
    BY <2>1, <1>0 DEF PiecesApart
  <2>3. \A k \in Link, s \in Slice : s[1] \in started => req'[k][s] = req[k][s]
    BY <2>1, <2>2, <1>0, <1>5 DEF NotifyHavePiece, TypeOK
  <2>4. QED
    BY <2>3, <1>0, <1>5, SameLosesNone DEF NotifyHavePiece, pieceVars, TypeOK, history
<1>6. CASE PieceEnd
  <2>1. CASE bitfield = Piece
    <3>1. started = {} /\ started' = started
      BY <2>1, <1>0, <1>6 DEF PiecesApart, TypeOK, PieceEnd, pieceVars
    <3>2. QED
      BY <3>1, Zenon DEF NoneLost
  <2>2. CASE bitfield # Piece
    BY <2>2, <1>1, <1>6 DEF PieceEnd, pieceVars, history
  <2>3. QED
    BY <2>1, <2>2
<1>7. CASE AbortAllRequest
  <2>1. agenda[1].link \in Link
    BY <1>0, <1>7, CallerFacts DEF AbortAllRequest
  <2>2. QED
    BY <2>1, <1>0, <1>7, AbortLosesNone DEF AbortAllRequest, history
<1>8. QED
  BY <1>2, <1>3, <1>4, <1>5, <1>6, <1>7 DEF Next, Call

\* No slice is lost: what counts as requested is asked of a connected link,
\* whatever chokes, disconnections, hash failures and triggers of requests come
\* in between - but for the one slice of a link that is closed for the length
\* of its data, and that one only until it is asked for again.
THEOREM NoSliceIsLost == Spec => []NoLostSlice
<1>1. Init => Core /\ NoneLost
  <2>1. Init => NoneLost
    BY DEF Init, NoneLost
  <2>2. QED
    BY <2>1, InitCore
<1>2. (Core /\ NoneLost) /\ [Next]_vars => (Core /\ NoneLost)'
  BY NextCore, NextLosesNone
<1>3. Core /\ NoneLost => NoLostSlice
  BY NoneLostIsNoLostSlice DEF Core
<1>4. QED
  BY <1>1, <1>2, <1>3, PTL DEF Spec

(***************************************************************************)
(* What the peers owe us: nothing while they choke us, and otherwise no    *)
(* more than the pending count.  The running loop has the difference left. *)
(***************************************************************************)

\* ChokedOwesNothing slice by slice.
ChokedIsEmpty ==
    \A l \in Link : remote_choking_local[l] => \A s \in Slice : req[l][s] = 0

Within ==
    \A l \in Link :
        /\ IsFiniteSet(ReqList(l))
        /\ NumAsked(l) <= PendingCount
        /\ Calling("loop") /\ l = agenda[1].link => NumAsked(l) + agenda[1].arg <= PendingCount

Owed == ChokedIsEmpty /\ Within

LEMMA OwedIsOwedIsDue == TypeOK /\ Owed => OwedIsDue
BY DEF Owed, ChokedIsEmpty, Within, OwedIsDue, ChokedOwesNothing, PendingBound, Asked,
       TypeOK

\* A link that asks for nothing has an empty list.
LEMMA EmptyList ==
    ASSUME NEW l \in Link, \A s \in Slice : req[l][s] = 0
    PROVE  ReqList(l) = {} /\ IsFiniteSet(ReqList(l)) /\ NumAsked(l) = 0
<1>1. \A s \in Slice : 1..req[l][s] = {}
  BY SMT
<1>2. ReqList(l) = {}
  BY <1>1 DEF ReqList
<1>3. QED
  BY <1>2, FS_EmptySet DEF NumAsked

\* A list that only shrinks.
LEMMA ShorterList ==
    ASSUME TypeOK, NEW l \in Link, IsFiniteSet(ReqList(l)), TypeOK',
           \A s \in Slice : req'[l][s] <= req[l][s]
    PROVE  IsFiniteSet(ReqList(l)') /\ NumAsked(l)' <= NumAsked(l)
<1>1. ASSUME NEW e \in ReqList(l)' PROVE e \in ReqList(l)
  <2>1. PICK s \in Slice : e \in {s} \X (1..req'[l][s])
    BY <1>1 DEF ReqList
  <2>2. req'[l][s] \in Nat /\ req[l][s] \in Nat /\ req'[l][s] <= req[l][s]
    BY DEF TypeOK
  <2>3. e \in {s} \X (1..req[l][s])
    BY <2>1, <2>2
  <2>4. QED
    BY <2>3 DEF ReqList
<1>2. ReqList(l)' \subseteq ReqList(l)
  BY <1>1
<1>3. QED
  BY <1>2, FS_Subset DEF NumAsked

\* A batch makes the list longer by what it hands out at most.
LEMMA LongerList ==
    ASSUME TypeOK, TypeOK', NEW l \in Link, IsFiniteSet(ReqList(l)), NEW p \in Piece,
           NEW given, IsFiniteSet(given), NEW copies \in Nat,
           \A s \in Slice : req'[l][s] = IF s[1] = p /\ s[2] \in given
                                         THEN req[l][s] + copies ELSE req[l][s]
    PROVE  IsFiniteSet(ReqList(l)') /\ NumAsked(l)' <= NumAsked(l) + copies * Cardinality(given)
<1> DEFINE G == given \X (1..copies)
           f == [g \in G |-> <<<<p, g[1]>>, req[l][<<p, g[1]>>] + g[2]>>]
           New == {f[g] : g \in G}
<1>1. IsFiniteSet(G) /\ Cardinality(G) = Cardinality(given) * copies
  <2>1. IsFiniteSet(1..copies) /\ Cardinality(1..copies) = copies
    BY FS_Interval, SMT
  <2>2. QED
    BY <2>1, FS_Product
<1>2. IsFiniteSet(New) /\ Cardinality(New) <= Cardinality(G)
  <2>1. f \in Surjection(G, New)
    BY DEF Surjection
  <2>2. QED
    BY <1>1, <2>1, FS_Surjection
<1>3. ASSUME NEW e \in ReqList(l)' PROVE e \in ReqList(l) \cup New
  <2>1. PICK s \in Slice : e \in {s} \X (1..req'[l][s])
    BY <1>3 DEF ReqList
  <2>2. PICK n \in 1..req'[l][s] : e = <<s, n>>
    BY <2>1
  <2>3. req'[l][s] \in Nat /\ req[l][s] \in Nat /\ n \in Nat /\ n >= 1 /\ n <= req'[l][s]
    BY <2>2 DEF TypeOK
  <2>4. CASE n <= req[l][s]
    <3>1. e \in {s} \X (1..req[l][s])
      BY <2>2, <2>3, <2>4
    <3>2. QED
      BY <3>1 DEF ReqList
  <2>5. CASE ~(n <= req[l][s])
    <3>1. s[1] = p /\ s[2] \in given /\ req'[l][s] = req[l][s] + copies
      BY <2>3, <2>5
    <3>2. s = <<p, s[2]>>
      BY <3>1, SliceFacts
    <3>3. n - req[l][s] \in 1..copies /\ req[l][s] + (n - req[l][s]) = n
      BY <2>3, <2>5, <3>1
    <3>4. <<s[2], n - req[l][s]>> \in G
      BY <3>1, <3>3
    <3>5. f[<<s[2], n - req[l][s]>>] = <<s, n>>
      BY <3>2, <3>3, <3>4
    <3>6. QED
      BY <3>4, <3>5, <2>2
  <2>6. QED
    BY <2>4, <2>5
<1> HIDE DEF New, G
<1>4. IsFiniteSet(ReqList(l) \cup New)
      /\ Cardinality(ReqList(l) \cup New) = Cardinality(ReqList(l)) + Cardinality(New) - Cardinality(ReqList(l) \cap New)
  BY <1>2, FS_Union
<1>5. ReqList(l)' \subseteq ReqList(l) \cup New
  BY <1>3
<1>6. IsFiniteSet(ReqList(l)') /\ Cardinality(ReqList(l)') <= Cardinality(ReqList(l) \cup New)
  BY <1>4, <1>5, FS_Subset
<1>7. /\ Cardinality(ReqList(l)) \in Nat /\ Cardinality(New) \in Nat /\ Cardinality(ReqList(l)') \in Nat
      /\ Cardinality(ReqList(l) \cap New) \in Nat /\ Cardinality(given) \in Nat
      /\ Cardinality(ReqList(l) \cup New) \in Nat /\ Cardinality(G) \in Nat
  <2>1. IsFiniteSet(ReqList(l) \cap New)
    BY FS_Intersection
  <2>2. QED
    BY <2>1, <1>1, <1>2, <1>4, <1>6, FS_CardinalityType
<1>8. Cardinality(given) * copies = copies * Cardinality(given) /\ copies * Cardinality(given) \in Nat
  BY <1>7, SMT
<1>9. Cardinality(ReqList(l)') <= Cardinality(ReqList(l)) + copies * Cardinality(given)
  BY <1>1, <1>2, <1>4, <1>6, <1>7, <1>8, SMT
<1>10. QED
  BY <1>6, <1>9 DEF NumAsked

LEMMA WithinShrinks ==
    ASSUME TypeOK, TypeOK', Within, ~Calling("loop")',
           \A k \in Link, s \in Slice : req'[k][s] <= req[k][s]
    PROVE  Within'
<1>1. ASSUME NEW k \in Link PROVE IsFiniteSet(ReqList(k)') /\ NumAsked(k)' <= PendingCount
  <2>1. IsFiniteSet(ReqList(k)) /\ NumAsked(k) <= PendingCount
    BY DEF Within
  <2>2. IsFiniteSet(ReqList(k)') /\ NumAsked(k)' <= NumAsked(k)
    BY <2>1, ShorterList
  <2>3. NumAsked(k) \in Nat /\ NumAsked(k)' \in Nat /\ PendingCount \in Nat
    BY <2>1, <2>2, FS_CardinalityType, PeerLinkAssumption DEF NumAsked
  <2>4. QED
    BY <2>1, <2>2, <2>3
<1>2. QED
  BY <1>1 DEF Within

LEMMA RequestWithin ==
    ASSUME TypeOK, TypeOK', Within, Calling("loop"),
           NEW l, l = agenda[1].link, NEW remain, remain = agenda[1].arg,
           NEW p \in BestDownloading(own[l]), Request(l, remain, p),
           agenda' = Tail(agenda) => ~Calling("loop")'
    PROVE  Within'
<1> DEFINE given == BatchSlices(slice[p], remain, is_endgame)
           copies == BatchCopies(remain, is_endgame)
           batch == copies * Cardinality(given)
<1>1. l \in Link /\ remain \in Nat
  BY AgendaFacts
<1>2. p \in Piece
  <2>1. own[l] \in SUBSET Piece
    BY <1>1 DEF TypeOK
  <2>2. QED
    BY <2>1, BestFacts
<1>3. slice[p] \in [1..SliceCount[p] -> SliceState] /\ SliceCount[p] \in Nat /\ is_endgame \in BOOLEAN
  BY <1>2, PiecesAssumption DEF TypeOK
<1>4. IsFiniteSet(given) /\ batch \in 0..remain
  BY <1>1, <1>3, BatchWithinWant
<1>5. copies \in Nat
  BY <1>1 DEF BatchCopies
<1>6. /\ IsFiniteSet(ReqList(l)) /\ NumAsked(l) + remain <= PendingCount
      /\ NumAsked(l) \in Nat /\ PendingCount \in Nat
  BY <1>1, FS_CardinalityType, PeerLinkAssumption DEF Within, NumAsked
<1>7. \A s \in Slice : req'[l][s] = IF s[1] = p /\ s[2] \in given
                                    THEN req[l][s] + copies ELSE req[l][s]
  BY <1>1 DEF Request, TypeOK
<1>8. IsFiniteSet(ReqList(l)') /\ NumAsked(l)' <= NumAsked(l) + batch
  <2> HIDE DEF given, copies
  <2>1. QED
    BY <1>1, <1>2, <1>4, <1>5, <1>6, <1>7, LongerList
<1>9. NumAsked(l)' \in Nat
  BY <1>8, FS_CardinalityType DEF NumAsked
<1>10. \A k \in Link : k # l => IsFiniteSet(ReqList(k)') /\ NumAsked(k)' <= PendingCount
  <2> SUFFICES ASSUME NEW k \in Link, k # l
               PROVE  IsFiniteSet(ReqList(k)') /\ NumAsked(k)' <= PendingCount
    OBVIOUS
  <2>1. req'[k] = req[k]
    BY <1>1 DEF Request, TypeOK
  <2>2. ReqList(k)' = ReqList(k)
    BY <2>1 DEF ReqList
  <2>3. QED
    BY <2>2 DEF Within, NumAsked
<1>11. Calling("loop")' => agenda'[1].link = l /\ agenda'[1].arg = remain - batch
  <2>1. \/ agenda' = Tail(agenda)
        \/ agenda' = <<Job("loop", l, remain - batch)>> \o Tail(agenda)
    BY DEF Request
  <2>2. CASE agenda' = <<Job("loop", l, remain - batch)>> \o Tail(agenda)
    <3>1. remain - batch \in Nat
      BY <1>1, <1>4, SMT
    <3> HIDE DEF batch
    <3>2. Job("loop", l, remain - batch) \in JobType
      BY <1>1, <3>1, JobFacts
    <3>3. agenda'[1] = Job("loop", l, remain - batch)
      BY <2>2, <3>2, JobsOfPush, AgendaFacts
    <3>4. QED
      BY <3>3 DEF Job
  <2>3. QED
    BY <2>1, <2>2
<1> HIDE DEF batch
<1>12. NumAsked(l)' <= PendingCount /\ NumAsked(l)' + (remain - batch) <= PendingCount
  BY <1>1, <1>4, <1>6, <1>8, <1>9, SMT
<1>13. QED
  BY <1>8, <1>10, <1>11, <1>12 DEF Within

LEMMA HandlerOwed ==
    ASSUME TypeOK, TypeOK', CallsSound, Owed, NEW l \in Link, Handler(l)
    PROVE  Owed'
<1>1. ~Calling("loop")'
  BY HandlerSound DEF Settled
<1>2. \A k \in Link, s \in Slice : req[k][s] \in Nat /\ req'[k][s] \in Nat
  BY DEF TypeOK
<1>3. /\ \A k \in Link, s \in Slice : req'[k][s] <= req[k][s]
      /\ \A k \in Link : remote_choking_local'[k] =>
            remote_choking_local[k] \/ req'[k] = NoneRequested
  <2>1. CASE \/ Established(l) \/ OnUnchoke(l)
             \/ \E bits \in SUBSET Piece : OnBitfield(l, bits)
             \/ \E p \in Piece : OnHave(l, p)
    BY <2>1, <1>2 DEF Established, OnUnchoke, OnBitfield, OnHave, TypeOK
  <2>2. CASE Disconnect(l) \/ OnChoke(l) \/ \E s \in Slice : OnPieceBadLength(l, s)
    <3>1. /\ req' = [req EXCEPT ![l] = NoneRequested]
          /\ remote_choking_local' = [remote_choking_local EXCEPT ![l] = TRUE]
      BY <2>2 DEF Disconnect, OnChoke, OnPieceBadLength, Destroy
    <3>2. QED
      BY <3>1, <1>2 DEF TypeOK, NoneRequested
  <2>3. ASSUME NEW s \in Slice, NEW valid \in BOOLEAN, OnPiece(l, s, valid)
        PROVE  /\ \A k \in Link, t \in Slice : req'[k][t] <= req[k][t]
               /\ remote_choking_local' = remote_choking_local
    <3>1. req' = [req EXCEPT ![l][s] = @ - 1] /\ remote_choking_local' = remote_choking_local
      BY <2>3 DEF OnPiece
    <3>2. \A k \in Link, t \in Slice : req'[k][t] = IF k = l /\ t = s THEN req[k][t] - 1 ELSE req[k][t]
      BY <3>1 DEF TypeOK
    <3>3. QED
      BY <3>1, <3>2, <1>2
  <2>4. QED
    BY <2>1, <2>2, <2>3 DEF Handler
<1>4. ChokedIsEmpty'
  <2> SUFFICES ASSUME NEW k \in Link, remote_choking_local'[k], NEW s \in Slice
               PROVE  req'[k][s] = 0
    BY DEF ChokedIsEmpty
  <2>1. CASE req'[k] = NoneRequested
    BY <2>1 DEF NoneRequested
  <2>2. CASE remote_choking_local[k]
    <3>1. req[k][s] = 0
      BY <2>2 DEF Owed, ChokedIsEmpty
    <3>2. QED
      BY <3>1, <1>2, <1>3
  <2>3. QED
    BY <2>1, <2>2, <1>3
<1>5. Within'
  BY <1>1, <1>3, WithinShrinks DEF Owed
<1>6. QED
  BY <1>4, <1>5 DEF Owed

\* A running call that only takes entries off the lists.
LEMMA ShrinkOwed ==
    ASSUME TypeOK, TypeOK', Owed, ~Calling("loop")', UNCHANGED remote_choking_local,
           \A k \in Link, s \in Slice : req'[k][s] = req[k][s] \/ req'[k][s] = 0
    PROVE  Owed'
<1>1. \A k \in Link, s \in Slice : req'[k][s] <= req[k][s]
  <2>1. \A k \in Link, s \in Slice : req[k][s] \in Nat
    BY DEF TypeOK
  <2>2. QED
    BY <2>1, SMT
<1>2. Within'
  BY <1>1, WithinShrinks DEF Owed
<1>3. ChokedIsEmpty'
  BY DEF Owed, ChokedIsEmpty
<1>4. QED
  BY <1>2, <1>3 DEF Owed

LEMMA CallOwed ==
    ASSUME TypeOK, TypeOK', CallsSound, Owed, Call
    PROVE  Owed'
<1> DEFINE l == agenda[1].link
<1>1. ASSUME NEW name, Calling(name), agenda' = Tail(agenda),
             UNCHANGED <<links, bitfield, remote_choking_local>>
      PROVE  ~Calling("loop")'
  BY <1>1, PopSound DEF Settled
<1>2. ASSUME NEW name, Calling(name), agenda' = <<Job("request", l, 0)>> \o Tail(agenda)
      PROVE  ~Calling("loop")'
  <2>1. Job("request", l, 0) \in JobType /\ Tail(agenda) \in Seq(JobType)
    BY <1>2, AgendaFacts, JobFacts
  <2>2. agenda'[1] = Job("request", l, 0)
    BY <2>1, <1>2, JobsOfPush
  <2>3. QED
    BY <2>2 DEF Calling, Job
<1>3. CASE DoPiecesRequest
  <2>1. CASE agenda' = Tail(agenda)
    BY <1>1, <1>3, <2>1, ShrinkOwed DEF DoPiecesRequest, pieceVars, linkVars
  <2>2. CASE Asked(l) = {} /\ agenda' = <<Job("loop", l, PendingCount)>> \o Tail(agenda)
    <3>1. Job("loop", l, PendingCount) \in JobType /\ Tail(agenda) \in Seq(JobType) /\ l \in Link
      BY <1>3, AgendaFacts, JobFacts, PeerLinkAssumption DEF DoPiecesRequest
    <3>2. agenda'[1] = Job("loop", l, PendingCount)
      BY <2>2, <3>1, JobsOfPush
    <3>3. req' = req /\ remote_choking_local' = remote_choking_local
      BY <1>3 DEF DoPiecesRequest, linkVars
    <3>4. \A s \in Slice : req[l][s] = 0
      BY <2>2, <3>1 DEF Asked, TypeOK
    <3>5. NumAsked(l) = 0
      BY <3>1, <3>4, EmptyList
    <3>6. NumAsked(l) + PendingCount <= PendingCount
      BY <3>5, PeerLinkAssumption
    <3>7. \A k \in Link : ReqList(k)' = ReqList(k) /\ NumAsked(k)' = NumAsked(k)
      BY <3>3 DEF ReqList, NumAsked
    <3>8. Within'
      BY <3>2, <3>6, <3>7 DEF Owed, Within, Job
    <3>9. QED
      BY <3>3, <3>8 DEF Owed, ChokedIsEmpty
  <2>3. QED
    BY <1>3, <2>1, <2>2 DEF DoPiecesRequest
<1>4. CASE RequestLoop
  <2>1. Calling("loop") /\ UNCHANGED <<links, bitfield, remote_choking_local>>
    BY <1>4 DEF RequestLoop
  <2>2. CASE agenda' = Tail(agenda) /\ UNCHANGED req
    BY <1>1, <2>1, <2>2, ShrinkOwed
  <2>3. ASSUME NEW p \in BestDownloading(own[l]), Request(l, agenda[1].arg, p) PROVE Owed'
    <3>1. Within'
      <4>1. agenda' = Tail(agenda) => ~Calling("loop")'
        BY <1>1, <2>1
      <4>2. QED
        BY <2>1, <2>3, <4>1, RequestWithin DEF Owed
    <3>2. l \in Link /\ ~remote_choking_local[l]
      BY <2>1, CallerFacts DEF CallsSound
    <3>3. \A k \in Link : k # l => req'[k] = req[k]
      BY <2>3, <3>2 DEF Request, TypeOK
    <3>4. ChokedIsEmpty'
      BY <2>1, <3>2, <3>3 DEF Owed, ChokedIsEmpty
    <3>5. QED
      BY <3>1, <3>4 DEF Owed
  <2>4. QED
    BY <1>4, <2>2, <2>3, RequestLoopCases
<1>5. CASE NotifyHavePiece
  <2>1. l \in Link
    BY <1>5, AgendaFacts DEF NotifyHavePiece
  <2>2. \A k \in Link, s \in Slice : req'[k][s] = req[k][s] \/ req'[k][s] = 0
    BY <1>5, <2>1 DEF NotifyHavePiece, TypeOK
  <2>3. QED
    BY <1>2, <1>5, <2>2, ShrinkOwed DEF NotifyHavePiece
<1>6. CASE PieceEnd
  <2>1. \A k \in Link, s \in Slice : req'[k][s] = req[k][s] \/ req'[k][s] = 0
    BY <1>6 DEF PieceEnd, NoneRequested
  <2>2. QED
    BY <1>1, <1>2, <1>6, <2>1, ShrinkOwed DEF PieceEnd, pieceVars
<1>7. CASE AbortAllRequest
  <2>1. \A k \in Link, s \in Slice : req'[k][s] = req[k][s] \/ req'[k][s] = 0
    BY <1>7 DEF AbortAllRequest, NoneRequested, TypeOK
  <2>2. QED
    BY <1>1, <1>7, <2>1, ShrinkOwed DEF AbortAllRequest
<1>8. QED
  BY <1>3, <1>4, <1>5, <1>6, <1>7 DEF Call

LEMMA NextOwed == ASSUME Core, Core', Owed, [Next]_vars PROVE Owed'
<1>0. TypeOK /\ CallsSound /\ TypeOK'
  BY DEF Core
<1>1. CASE SecondTick
  <2>1. ~Calling("loop")' /\ UNCHANGED <<req, remote_choking_local>>
    BY <1>0, <1>1, SecondTickSound DEF Settled, SecondTick, linkVars
  <2>2. QED
    BY <1>0, <2>1, ShrinkOwed
<1>2. CASE UNCHANGED vars
  <2>1. req' = req /\ remote_choking_local' = remote_choking_local /\ agenda' = agenda
    BY <1>2 DEF vars, linkVars
  <2>2. \A k \in Link : ReqList(k)' = ReqList(k) /\ NumAsked(k)' = NumAsked(k)
    BY <2>1 DEF ReqList, NumAsked
  <2>3. QED
    BY <2>1, <2>2 DEF Owed, ChokedIsEmpty, Within, Calling
<1>3. QED
  BY <1>0, <1>1, <1>2, HandlerOwed, CallOwed DEF Next

\* A peer that chokes us owes us nothing, and no list ever holds more requests
\* than the pending count - in endgame too, where one slice is listed many times.
THEOREM OwedStaysDue == Spec => []OwedIsDue
<1>1. Init => Core /\ Owed
  <2> SUFFICES ASSUME Init PROVE Owed
    BY InitCore
  <2>1. ASSUME NEW l \in Link
        PROVE  /\ \A s \in Slice : req[l][s] = 0
               /\ IsFiniteSet(ReqList(l)) /\ NumAsked(l) = 0
    BY EmptyList DEF Init, NoneRequested
  <2>2. ~Calling("loop")
    BY DEF Init, Calling
  <2>3. QED
    BY <2>1, <2>2, PeerLinkAssumption DEF Owed, ChokedIsEmpty, Within
<1>2. (Core /\ Owed) /\ [Next]_vars => (Core /\ Owed)'
  BY NextCore, NextOwed
<1>3. Core /\ Owed => OwedIsDue
  BY OwedIsOwedIsDue DEF Core
<1>4. QED
  BY <1>1, <1>2, <1>3, PTL DEF Spec

(***************************************************************************)
(* What was obtained is asked of nobody, once everyone was told.           *)
(***************************************************************************)

\* ObtainedIsCancelled over the calls as a set.
Cancelled ==
    \A l \in links : \A s \in Slice :
        req[l][s] > 0 /\ s[1] \in bitfield => Job("notify", l, s[1]) \in Jobs(agenda)

\* When all is held, its end is still to be told or no link claims interest.
EndIsTold ==
    bitfield = Piece =>
        \/ \E job \in Jobs(agenda) : job.call = "piece_end"
        \/ \A l \in links : ~local_interested_remote[l]

Quiet == Cancelled /\ EndIsTold

LEMMA QuietIsObtainedIsQuiet == TypeOK /\ Quiet => ObtainedIsQuiet
<1> SUFFICES ASSUME TypeOK, Quiet PROVE ObtainedIsCancelled /\ FinishedIsQuiet
  BY DEF ObtainedIsQuiet
<1>1. ObtainedIsCancelled
  BY DEF ObtainedIsCancelled, Quiet, Cancelled, Asked, Jobs
<1>2. ASSUME bitfield = Piece, agenda = <<>>, NEW l \in links
      PROVE  Asked(l) = {} /\ ~local_interested_remote[l]
  <2>1. Jobs(agenda) = {}
    BY <1>2, JobsOfNone
  <2>2. ~local_interested_remote[l]
    BY <1>2, <2>1 DEF Quiet, EndIsTold
  <2>3. \A s \in Slice : ~(req[l][s] > 0)
    BY <1>2, <2>1, SliceFacts DEF Quiet, Cancelled
  <2>4. QED
    BY <2>2, <2>3 DEF Asked
<1>3. QED
  BY <1>1, <1>2 DEF FinishedIsQuiet

\* No step but a completed piece changes what is held, and only a turn of the
\* loop asks for more.
LEMMA QuietStays ==
    ASSUME Quiet, bitfield' = bitfield, links' \subseteq links,
           \A k \in links', s \in Slice : req'[k][s] > 0 => req[k][s] > 0,
           \A k \in links' : bitfield = Piece /\ local_interested_remote'[k] => local_interested_remote[k],
           \A job \in Jobs(agenda) : job.call \in {"notify", "piece_end"} => job \in Jobs(agenda')
    PROVE  Quiet'
<1>1. Cancelled'
  BY DEF Quiet, Cancelled, Job
<1>2. EndIsTold'
  BY DEF Quiet, EndIsTold
<1>3. QED
  BY <1>1, <1>2 DEF Quiet

\* When a handler starts nothing held is asked of a connected link.
LEMMA QuietAtRest ==
    ASSUME Quiet, agenda = <<>>
    PROVE  /\ Jobs(agenda) = {}
           /\ \A l \in links : \A s \in Slice : s[1] \in bitfield => ~(req[l][s] > 0)
BY JobsOfNone DEF Quiet, Cancelled

LEMMA OnPieceQuiet ==
    ASSUME TypeOK, Quiet, NEW l \in Link, NEW s \in Slice, NEW valid \in BOOLEAN,
           OnPiece(l, s, valid)
    PROVE  Quiet'
<1> DEFINE p == s[1]
           end == Job("piece_end", l, 0)
<1>1. /\ agenda = <<>> /\ links' = links
      /\ req' = [req EXCEPT ![l][s] = @ - 1]
      /\ local_interested_remote' = local_interested_remote
  BY DEF OnPiece
<1>2. \A k \in Link, t \in Slice : req'[k][t] > 0 => req[k][t] > 0
  <2>1. \A k \in Link, t \in Slice : req[k][t] \in Nat
    BY DEF TypeOK
  <2>2. \A k \in Link, t \in Slice : req'[k][t] = IF k = l /\ t = s THEN req[k][t] - 1 ELSE req[k][t]
    BY <1>1 DEF TypeOK
  <2>3. QED
    BY <2>1, <2>2
<1>3. links \in SUBSET Link /\ Jobs(agenda) = {}
  BY <1>1, QuietAtRest DEF TypeOK
<1>4. CASE bitfield' = bitfield
  BY <1>1, <1>2, <1>3, <1>4, QuietStays
<1>5. CASE bitfield' # bitfield
  <2>1. PICK calls \in Sweep("notify", links, p) : agenda' = Append(calls, end)
    BY <1>5 DEF OnPiece, pieceVars
  <2>2. bitfield' = bitfield \cup {p}
    BY <1>5 DEF OnPiece, SliceCompleted, pieceVars
  <2>3. p \in Piece /\ p \in Nat
    BY SliceFacts, PiecesAssumption DEF Piece
  <2>4. calls \in Seq(JobType)
    BY <1>3, <2>1, <2>3, SweepType
  <2>5. Jobs(calls) = {Job("notify", k, p) : k \in links}
    BY <1>3, <2>1, JobsOfSweep
  <2>6. Jobs(agenda') = Jobs(calls) \cup {end}
    <3>1. end \in JobType
      BY JobFacts
    <3> HIDE DEF end
    <3>2. QED
      BY <3>1, <2>1, <2>4, JobsOfAppend
  <2>7. Cancelled'
    <3> SUFFICES ASSUME NEW k \in links, NEW t \in Slice, req'[k][t] > 0, t[1] \in bitfield'
                 PROVE  Job("notify", k, t[1]) \in Jobs(agenda')
      BY <1>1 DEF Cancelled
    <3>1. req[k][t] > 0
      BY <1>2, <1>3
    <3>2. t[1] = p
      BY <3>1, <1>1, <2>2, QuietAtRest
    <3>3. QED
      BY <3>2, <2>5, <2>6
  <2>8. EndIsTold'
    <3>1. end.call = "piece_end"
      BY DEF Job
    <3>2. end \in Jobs(agenda')
      BY <2>6
    <3> HIDE DEF end
    <3>3. QED
      BY <3>1, <3>2 DEF EndIsTold
  <2>9. QED
    BY <2>7, <2>8 DEF Quiet
<1>6. QED
  BY <1>4, <1>5

LEMMA HandlerQuiet ==
    ASSUME TypeOK, GoneIsEmpty, Quiet, NEW l \in Link, Handler(l)
    PROVE  Quiet'
<1>1. CASE Established(l)
  <2>1. /\ agenda = <<>> /\ agenda' = agenda /\ links' = links \cup {l} /\ l \notin links
        /\ UNCHANGED <<bitfield, req, local_interested_remote>>
    BY <1>1 DEF Established, pieceVars
  <2>2. ~local_interested_remote[l] /\ \A s \in Slice : ~(req[l][s] > 0)
    BY <2>1 DEF GoneIsEmpty
  <2>3. Cancelled'
    BY <2>1, <2>2 DEF Quiet, Cancelled
  <2>4. EndIsTold'
    BY <2>1, <2>2 DEF Quiet, EndIsTold
  <2>5. QED
    BY <2>3, <2>4 DEF Quiet
<1>2. CASE Disconnect(l) \/ OnChoke(l) \/ \E s \in Slice : OnPieceBadLength(l, s)
  <2>1. /\ agenda = <<>> /\ links' \subseteq links /\ bitfield' = bitfield
        /\ req' = [req EXCEPT ![l] = NoneRequested]
        /\ \/ local_interested_remote' = local_interested_remote
           \/ local_interested_remote' = [local_interested_remote EXCEPT ![l] = FALSE]
    BY <1>2 DEF Disconnect, OnChoke, OnPieceBadLength, Destroy
  <2>2. /\ \A k \in Link, s \in Slice : req'[k][s] > 0 => req[k][s] > 0
        /\ \A k \in Link : local_interested_remote'[k] => local_interested_remote[k]
    <3>1. \A k \in Link, s \in Slice : req'[k][s] = IF k = l THEN 0 ELSE req[k][s]
      BY <2>1 DEF TypeOK, NoneRequested
    <3>2. \A k \in Link : local_interested_remote'[k] => local_interested_remote[k]
      BY <2>1 DEF TypeOK
    <3>3. QED
      BY <3>1, <3>2, SMT
  <2>3. links' \subseteq Link
    BY <2>1 DEF TypeOK
  <2>4. QED
    BY <2>1, <2>2, <2>3, QuietStays, QuietAtRest
<1>3. ASSUME NEW bits \in SUBSET Piece, OnBitfield(l, bits) PROVE Quiet'
  <2>1. /\ agenda = <<>> /\ UNCHANGED <<links, bitfield, req, agenda>>
        /\ local_interested_remote' =
              [local_interested_remote EXCEPT ![l] = @ \/ bits \ bitfield # {}]
    BY <1>3 DEF OnBitfield
  <2>2. ASSUME bitfield = Piece PROVE local_interested_remote' = local_interested_remote
    BY <2>1, <2>2 DEF TypeOK
  <2>3. QED
    BY <2>1, <2>2, QuietStays
<1>4. CASE OnUnchoke(l) \/ \E p \in Piece : OnHave(l, p)
  <2>1. agenda = <<>> /\ UNCHANGED <<links, bitfield, req, local_interested_remote>>
    BY <1>4 DEF OnHave, OnUnchoke, pieceVars
  <2>2. QED
    BY <2>1, QuietStays, QuietAtRest
<1>5. CASE \E s \in Slice, valid \in BOOLEAN : OnPiece(l, s, valid)
  BY <1>5, OnPieceQuiet
<1>6. QED
  BY <1>1, <1>2, <1>3, <1>4, <1>5 DEF Handler

\* The calls that remain when the running one is dropped or replaced.
LEMMA RemainingCalls ==
    ASSUME TypeOK, NEW name, Calling(name),
           \/ agenda' = Tail(agenda)
           \/ \E job \in JobType : agenda' = <<job>> \o Tail(agenda)
    PROVE  \A job \in Jobs(agenda) : job # agenda[1] => job \in Jobs(agenda')
<1>1. agenda \in Seq(JobType) /\ agenda # <<>> /\ Tail(agenda) \in Seq(JobType)
  BY TypeParts, AgendaFacts DEF Calling, StateTyped
<1>2. Jobs(agenda) = {agenda[1]} \cup Jobs(Tail(agenda))
  BY <1>1, JobsOfTail
<1>3. Jobs(Tail(agenda)) \subseteq Jobs(agenda')
  <2>1. ASSUME NEW job \in JobType, agenda' = <<job>> \o Tail(agenda)
        PROVE  Jobs(Tail(agenda)) \subseteq Jobs(agenda')
    <3>1. Jobs(agenda') = {job} \cup Jobs(Tail(agenda))
      BY <2>1, <1>1, JobsOfPush
    <3>2. QED
      BY <3>1
  <2>2. QED
    BY <2>1
<1>4. QED
  BY <1>2, <1>3

LEMMA CallQuiet ==
    ASSUME Core, Core', Quiet, Call
    PROVE  Quiet'
<1>0. TypeOK /\ CallsSound /\ PiecesApart /\ links \in SUBSET Link
  BY DEF Core, TypeOK
<1> DEFINE l == agenda[1].link
<1>1. ASSUME NEW name \in {"request", "loop", "notify", "piece_end", "reset"}, Calling(name)
      PROVE  /\ l \in links /\ l \in Link /\ agenda[1].call = name /\ Tail(agenda) \in Seq(JobType)
             /\ \A n \in Nat : Job("request", l, 0) \in JobType /\ Job("loop", l, n) \in JobType
  BY <1>0, <1>1, CallerFacts, AgendaFacts, JobFacts
<1>2. CASE DoPiecesRequest
  <2>1. Calling("request") /\ UNCHANGED <<links, bitfield, req, local_interested_remote>>
    BY <1>2 DEF DoPiecesRequest, pieceVars, linkVars
  <2>2. agenda' = Tail(agenda) \/ agenda' = <<Job("loop", l, PendingCount)>> \o Tail(agenda)
    BY <1>2 DEF DoPiecesRequest
  <2>3. \A job \in Jobs(agenda) : job # agenda[1] => job \in Jobs(agenda')
    BY <1>0, <1>1, <2>1, <2>2, RemainingCalls, PeerLinkAssumption
  <2>4. agenda[1].call = "request"
    BY <1>1, <2>1
  <2>5. QED
    BY <2>1, <2>3, <2>4, QuietStays
<1>3. CASE RequestLoop
  <2>1. /\ Calling("loop") /\ agenda[1].call = "loop" /\ l \in Link
        /\ UNCHANGED <<links, bitfield>>
    BY <1>1, <1>3 DEF RequestLoop
  <2>2. CASE /\ agenda' = Tail(agenda) /\ req' = req
             /\ local_interested_remote' = [local_interested_remote EXCEPT ![l] = FALSE]
    <3>1. \A k \in links : local_interested_remote'[k] => local_interested_remote[k]
      BY <2>2, <1>0 DEF TypeOK
    <3>2. \A job \in Jobs(agenda) : job # agenda[1] => job \in Jobs(agenda')
      BY <1>0, <2>1, <2>2, RemainingCalls
    <3>3. QED
      BY <2>1, <2>2, <3>1, <3>2, QuietStays
  <2>3. ASSUME NEW p \in BestDownloading(own[l]), Request(l, agenda[1].arg, p) PROVE Quiet'
    <3>1. p \in Piece /\ p \notin bitfield
      <4>1. own[l] \in SUBSET Piece
        BY <1>0, <2>1 DEF TypeOK
      <4>2. QED
        BY <1>0, <4>1, BestFacts DEF PiecesApart
    <3>2. \A job \in Jobs(agenda) : job # agenda[1] => job \in Jobs(agenda')
      <4>1. agenda' \in Seq(JobType)
        BY TypeParts DEF Core, JobType, TypeOK, StateTyped
      <4>2. \/ agenda' = Tail(agenda)
            \/ \E n : agenda' = <<Job("loop", l, n)>> \o Tail(agenda)
        BY <2>3 DEF Request
      <4>3. \/ agenda' = Tail(agenda)
            \/ \E job \in JobType : agenda' = <<job>> \o Tail(agenda)
        <5>1. ASSUME NEW n, agenda' = <<Job("loop", l, n)>> \o Tail(agenda)
              PROVE  Job("loop", l, n) \in JobType
          <6>1. Tail(agenda) \in Seq(JobType)
            BY <1>1, <2>1
          <6>2. agenda'[1] = Job("loop", l, n) /\ agenda' # <<>>
            BY <5>1, <6>1, SMT
          <6>3. QED
            BY <4>1, <6>2, TailType
        <5>2. QED
          BY <4>2, <5>1
      <4>4. QED
        BY <1>0, <2>1, <4>3, RemainingCalls
    <3>3. \A k \in Link, s \in Slice : s[1] # p => req'[k][s] = req[k][s]
      BY <2>1, <2>3, <1>0 DEF Request, TypeOK
    <3>4. Cancelled'
      BY <1>0, <2>1, <3>1, <3>2, <3>3 DEF Quiet, Cancelled, Job
    <3>5. EndIsTold'
      BY <2>1, <3>1 DEF EndIsTold
    <3>6. QED
      BY <3>4, <3>5 DEF Quiet
  <2>4. QED
    BY <1>3, <2>2, <2>3, RequestLoopCases
<1>4. CASE NotifyHavePiece
  <2>1. /\ Calling("notify") /\ l \in links /\ l \in Link /\ agenda[1].call = "notify"
        /\ agenda' = <<Job("request", l, 0)>> \o Tail(agenda)
        /\ UNCHANGED <<links, bitfield, local_interested_remote>>
        /\ req' = [req EXCEPT ![l] = [s \in Slice |-> IF s[1] = agenda[1].arg THEN 0 ELSE @[s]]]
    BY <1>1, <1>4 DEF NotifyHavePiece, pieceVars
  <2>2. \A job \in Jobs(agenda) : job # agenda[1] => job \in Jobs(agenda')
    BY <1>0, <1>1, <2>1, RemainingCalls
  <2>3. \A k \in Link, s \in Slice :
           req'[k][s] = IF k = l /\ s[1] = agenda[1].arg THEN 0 ELSE req[k][s]
    BY <1>0, <2>1 DEF TypeOK
  <2>4. Cancelled'
    <3> SUFFICES ASSUME NEW k \in links, NEW s \in Slice, req'[k][s] > 0, s[1] \in bitfield
                 PROVE  Job("notify", k, s[1]) \in Jobs(agenda')
      BY <2>1 DEF Cancelled
    <3>1. req[k][s] > 0 /\ (k # l \/ s[1] # agenda[1].arg)
      BY <1>0, <2>3
    <3>2. Job("notify", k, s[1]) \in Jobs(agenda)
      BY <3>1 DEF Quiet, Cancelled
    <3>3. Job("notify", k, s[1]) # agenda[1]
      BY <3>1 DEF Job
    <3>4. QED
      BY <2>2, <3>2, <3>3
  <2>5. EndIsTold'
    BY <2>1, <2>2 DEF Quiet, EndIsTold
  <2>6. QED
    BY <2>4, <2>5 DEF Quiet
<1>5. CASE PieceEnd
  <2>1. /\ Calling("piece_end") /\ agenda[1].call = "piece_end"
        /\ UNCHANGED <<links, bitfield>>
        /\ agenda' = Tail(agenda) \/ agenda' = <<Job("request", l, 0)>> \o Tail(agenda)
    BY <1>1, <1>5 DEF PieceEnd, pieceVars
  <2>2. \A job \in Jobs(agenda) : job # agenda[1] => job \in Jobs(agenda')
    BY <1>0, <1>1, <2>1, RemainingCalls
  <2>3. CASE bitfield = Piece
    <3>1. /\ req' = [k \in Link |-> NoneRequested]
          /\ local_interested_remote' =
                [k \in Link |-> local_interested_remote[k] /\ k \notin links]
      BY <1>5, <2>3 DEF PieceEnd
    <3>2. \A k \in links : k \in Link
      BY <1>0
    <3>3. \A k \in links : ~local_interested_remote'[k]
      BY <3>1, <3>2, Zenon
    <3>4. \A k \in links, s \in Slice : ~(req'[k][s] > 0)
      BY <3>1, <3>2 DEF NoneRequested
    <3>5. QED
      BY <2>1, <3>3, <3>4 DEF Quiet, Cancelled, EndIsTold
  <2>4. CASE bitfield # Piece
    <3>1. req' = req
      BY <1>5, <2>4 DEF PieceEnd
    <3>2. Cancelled'
      BY <2>1, <2>2, <3>1 DEF Quiet, Cancelled, Job
    <3>3. QED
      BY <2>1, <2>4, <3>2 DEF Quiet, EndIsTold
  <2>5. QED
    BY <2>3, <2>4
<1>6. CASE AbortAllRequest
  <2>1. /\ Calling("reset") /\ agenda[1].call = "reset" /\ agenda' = Tail(agenda)
        /\ UNCHANGED <<links, bitfield, local_interested_remote>>
        /\ req' = [req EXCEPT ![l] = NoneRequested]
    BY <1>1, <1>6 DEF AbortAllRequest
  <2>2. \A job \in Jobs(agenda) : job # agenda[1] => job \in Jobs(agenda')
    BY <1>0, <2>1, RemainingCalls
  <2>3. \A k \in links, s \in Slice : req'[k][s] > 0 => req[k][s] > 0
    BY <1>0, <2>1 DEF TypeOK, NoneRequested
  <2>4. QED
    BY <2>1, <2>2, <2>3, QuietStays
<1>7. QED
  BY <1>2, <1>3, <1>4, <1>5, <1>6 DEF Call

LEMMA NextQuiet == ASSUME Core, Core', Quiet, [Next]_vars PROVE Quiet'
<1>0. TypeOK /\ GoneIsEmpty
  BY DEF Core
<1>1. CASE SecondTick
  <2>1. agenda = <<>> /\ UNCHANGED <<links, bitfield, req, local_interested_remote>>
    BY <1>1 DEF SecondTick, pieceVars, linkVars
  <2>2. QED
    BY <2>1, QuietStays, QuietAtRest
<1>2. CASE UNCHANGED vars
  BY <1>2, QuietStays DEF vars, pieceVars, linkVars
<1>3. QED
  BY <1>0, <1>1, <1>2, HandlerQuiet, CallQuiet DEF Next

\* A piece obtained is asked of no link that was told of it, and with the last
\* one nothing is asked for and no interest is claimed - whatever peers connect
\* and whatever they send.
THEOREM ObtainedStaysQuiet == Spec => []ObtainedIsQuiet
<1>1. Init => Core /\ Quiet
  <2>1. Init => Quiet
    BY DEF Init, Quiet, Cancelled, EndIsTold
  <2>2. QED
    BY <2>1, InitCore
<1>2. (Core /\ Quiet) /\ [Next]_vars => (Core /\ Quiet)'
  BY NextCore, NextQuiet
<1>3. Core /\ Quiet => ObtainedIsQuiet
  BY QuietIsObtainedIsQuiet DEF Core
<1>4. QED
  BY <1>1, <1>2, <1>3, PTL DEF Spec

(***************************************************************************)
(* The have counts.                                                        *)
(***************************************************************************)

LEMMA OwnersFinite ==
    ASSUME TypeOK, NEW p \in Piece
    PROVE  IsFiniteSet(Owners(p)) /\ Cardinality(Owners(p)) \in Nat
<1>1. Owners(p) \subseteq Link
  BY DEF Owners, TypeOK
<1>2. QED
  BY <1>1, PeerLinkAssumption, FS_Subset, FS_CardinalityType

LEMMA DestroyHave ==
    ASSUME TypeOK, HaveExact, NEW l \in Link, l \in links, NEW S, Destroy(l, S)
    PROVE  HaveExact'
<1> SUFFICES ASSUME NEW p \in Piece PROVE have'[p] = Cardinality(Owners(p)') + overtaken'[p]
  BY DEF HaveExact, Owners
<1>1. /\ have[p] = Cardinality(Owners(p)) + overtaken[p]
      /\ IsFiniteSet(Owners(p)) /\ Cardinality(Owners(p)) \in Nat
  BY OwnersFinite DEF HaveExact
<1>2. Owners(p)' = Owners(p) \ {l}
  BY DEF Owners, Destroy, TypeOK
<1>3. Cardinality(Owners(p) \ {l}) =
         IF l \in Owners(p) THEN Cardinality(Owners(p)) - 1 ELSE Cardinality(Owners(p))
  BY <1>1, FS_RemoveElement
<1>4. l \in Owners(p) <=> p \in own[l]
  BY DEF Owners
<1>5. /\ have'[p] = IF p \in own[l] /\ have[p] > 0 THEN have[p] - 1 ELSE have[p]
      /\ overtaken'[p] = overtaken[p] /\ overtaken[p] \in Nat
  BY DEF Destroy, TypeOK
<1>6. l \in Owners(p) => Cardinality(Owners(p)) > 0
  BY <1>1, FS_EmptySet
<1>7. QED
  BY <1>1, <1>2, <1>3, <1>4, <1>5, <1>6, SMT

\* What becomes of the count of a piece when one peer is known to own the
\* pieces S: one more for those it was not known to own, one less for those
\* no longer in S.
LEMMA OwnersCounted ==
    ASSUME TypeOK, NEW l \in links, NEW S \in SUBSET Piece, NEW p \in Piece,
           links' = links, own' = [own EXCEPT ![l] = S]
    PROVE  Cardinality(Owners(p)') =
              IF p \in S /\ p \notin own[l] THEN Cardinality(Owners(p)) + 1
              ELSE IF p \notin S /\ p \in own[l] THEN Cardinality(Owners(p)) - 1
              ELSE Cardinality(Owners(p))
<1>1. IsFiniteSet(Owners(p)) /\ Cardinality(Owners(p)) \in Nat
  BY OwnersFinite
<1>2. \A k \in links : own'[k] = IF k = l THEN S ELSE own[k]
  BY DEF TypeOK
<1>3. CASE p \in S /\ p \notin own[l]
  <2>1. l \notin Owners(p) /\ Owners(p)' = Owners(p) \cup {l}
    BY <1>2, <1>3 DEF Owners
  <2>2. Cardinality(Owners(p) \cup {l}) = Cardinality(Owners(p)) + 1
    BY <1>1, <2>1, FS_AddElement
  <2>3. QED
    BY <1>3, <2>1, <2>2
<1>4. CASE p \notin S /\ p \in own[l]
  <2>1. l \in Owners(p) /\ Owners(p)' = Owners(p) \ {l}
    BY <1>2, <1>4 DEF Owners
  <2>2. Cardinality(Owners(p) \ {l}) = Cardinality(Owners(p)) - 1
    BY <1>1, <2>1, FS_RemoveElement
  <2>3. QED
    BY <1>4, <2>1, <2>2
<1>5. CASE p \in S <=> p \in own[l]
  <2>1. Owners(p)' = Owners(p)
    BY <1>2, <1>5 DEF Owners
  <2>2. QED
    BY <1>5, <2>1
<1>6. QED
  BY <1>3, <1>4, <1>5

\* A bitfield that overwrites what HAVEs said leaves their counts behind, which
\* is what `overtaken' records.
LEMMA OnBitfieldHave ==
    ASSUME TypeOK, HaveExact, NEW l \in Link, NEW bits \in SUBSET Piece, OnBitfield(l, bits)
    PROVE  HaveExact'
<1> SUFFICES ASSUME NEW p \in Piece PROVE have'[p] = Cardinality(Owners(p)') + overtaken'[p]
  BY DEF HaveExact, Owners
<1>1. l \in links /\ links' = links /\ own' = [own EXCEPT ![l] = bits]
  BY DEF OnBitfield
<1>2. /\ have'[p] = IF p \in bits THEN have[p] + 1 ELSE have[p]
      /\ overtaken'[p] = IF p \in own[l] THEN overtaken[p] + 1 ELSE overtaken[p]
  BY DEF OnBitfield
<1>3. have[p] = Cardinality(Owners(p)) + overtaken[p]
  BY DEF HaveExact
<1>4. Cardinality(Owners(p)) \in Nat /\ overtaken[p] \in Nat
  BY OwnersFinite DEF TypeOK
<1>5. Cardinality(Owners(p)') =
         IF p \in bits /\ p \notin own[l] THEN Cardinality(Owners(p)) + 1
         ELSE IF p \notin bits /\ p \in own[l] THEN Cardinality(Owners(p)) - 1
         ELSE Cardinality(Owners(p))
  BY <1>1, OwnersCounted
<1>6. QED
  BY <1>2, <1>3, <1>4, <1>5, SMT

\* A HAVE counts only a piece the peer was not known to own.
LEMMA OnHaveHave ==
    ASSUME TypeOK, HaveExact, NEW l \in Link, NEW q \in Piece, OnHave(l, q)
    PROVE  HaveExact'
<1> SUFFICES ASSUME NEW p \in Piece PROVE have'[p] = Cardinality(Owners(p)') + overtaken'[p]
  BY DEF HaveExact, Owners
<1>1. /\ l \in links /\ links' = links /\ q \notin own[l]
      /\ own' = [own EXCEPT ![l] = own[l] \cup {q}] /\ own[l] \cup {q} \in SUBSET Piece
  BY DEF OnHave, TypeOK
<1>2. have'[p] = (IF p = q THEN have[p] + 1 ELSE have[p]) /\ overtaken' = overtaken
  BY DEF OnHave, TypeOK, history
<1>3. have[p] = Cardinality(Owners(p)) + overtaken[p]
  BY DEF HaveExact
<1>4. Cardinality(Owners(p)) \in Nat /\ overtaken[p] \in Nat
  BY OwnersFinite DEF TypeOK
<1>5. Cardinality(Owners(p)') = IF p = q THEN Cardinality(Owners(p)) + 1 ELSE Cardinality(Owners(p))
  <2>1. Cardinality(Owners(p)') =
           IF p \in own[l] \cup {q} /\ p \notin own[l] THEN Cardinality(Owners(p)) + 1
           ELSE IF p \notin own[l] \cup {q} /\ p \in own[l] THEN Cardinality(Owners(p)) - 1
           ELSE Cardinality(Owners(p))
    BY <1>1, OwnersCounted
  <2>2. QED
    BY <1>1, <2>1
<1>6. QED
  BY <1>2, <1>3, <1>4, <1>5, SMT

LEMMA NextHave ==
    ASSUME Core, HaveExact, [Next]_vars
    PROVE  HaveExact'
<1>0. TypeOK /\ GoneIsEmpty
  BY DEF Core
<1>1. ASSUME UNCHANGED <<have, links, own, overtaken>> PROVE HaveExact'
  BY <1>1 DEF HaveExact, Owners
<1>2. ASSUME NEW l \in Link, Handler(l) PROVE HaveExact'
  <2>1. CASE Established(l)
    <3>1. /\ have' = have /\ own' = own /\ links' = links \cup {l} /\ l \notin links
          /\ own[l] = {} /\ overtaken' = overtaken
      BY <1>0, <2>1 DEF Established, pieceVars, GoneIsEmpty, history
    <3>2. \A p \in Piece : {k \in links' : p \in own'[k]} = {k \in links : p \in own[k]}
      BY <3>1
    <3>3. QED
      BY <3>1, <3>2 DEF HaveExact, Owners
  <2>2. CASE Disconnect(l) \/ \E s \in Slice : OnPieceBadLength(l, s)
    BY <1>0, <2>2, DestroyHave DEF Disconnect, OnPieceBadLength
  <2>3. CASE \E bits \in SUBSET Piece : OnBitfield(l, bits)
    BY <1>0, <2>3, OnBitfieldHave
  <2>4. CASE \E p \in Piece : OnHave(l, p)
    BY <1>0, <2>4, OnHaveHave
  <2>5. CASE OnChoke(l) \/ OnUnchoke(l)
    BY <2>5, <1>1 DEF OnChoke, OnUnchoke, pieceVars, history
  <2>6. CASE \E s \in Slice, valid \in BOOLEAN : OnPiece(l, s, valid)
    BY <2>6, <1>1 DEF OnPiece, SliceCompleted, pieceVars
  <2>7. QED
    BY <1>2, <2>1, <2>2, <2>3, <2>4, <2>5, <2>6 DEF Handler
<1>3. CASE SecondTick \/ Call \/ UNCHANGED vars
  BY <1>1, <1>3 DEF SecondTick, Call, DoPiecesRequest, RequestLoop, NotifyHavePiece,
                    PieceEnd, AbortAllRequest, vars, pieceVars, linkVars, history
<1>4. QED
  BY <1>2, <1>3 DEF Next

\* The have count of a piece is the number of connected links that own it and
\* the HAVEs of it that were handled before the bitfield of their peer - for any
\* number of peers, whatever they send and in whatever order it is handled.
THEOREM HaveIsExact == Spec => []HaveExact
<1>1. Init => Core /\ HaveExact
  <2>1. Init => HaveExact
    <3> SUFFICES ASSUME Init, NEW p \in Piece PROVE have[p] = Cardinality(Owners(p)) + overtaken[p]
      BY DEF HaveExact
    <3>1. Owners(p) = {} /\ have[p] = 0 /\ overtaken[p] = 0
      BY DEF Init, Owners
    <3>2. QED
      BY <3>1, FS_EmptySet
  <2>2. QED
    BY <2>1, InitCore
<1>2. (Core /\ HaveExact) /\ [Next]_vars => (Core /\ HaveExact)'
  BY NextCore, NextHave
<1>3. QED
  BY <1>1, <1>2, PTL DEF Spec
=============================================================================
