--------------------------- MODULE MessagesProofs ---------------------------
(***************************************************************************)
(* The message queues for any number of workers, posters and carriers: the *)
(* reader-writer mutex lets a writer in alone, a queue is not removed      *)
(* while a message is pushed to it, and every carrier counts exactly the   *)
(* references there are to it.                                             *)
(***************************************************************************)
EXTENDS Messages, FiniteSetTheorems, TLAPS

(***************************************************************************)
(* The mutex.                                                              *)
(***************************************************************************)

In(state) == {t \in Thread : lock[t] = state}
Signals == {"signal writer", "signal readers"}

\* The mutex is handed to so many readers and writers that have not taken it
\* yet: they are let in by a semaphore, or by the one thread that has still to
\* release it - and until it has, that semaphore is empty.
Granted(readers, writers) ==
    \/ /\ \A t \in Thread : lock[t] \notin Signals
       /\ readers = m_sema_readers /\ writers = m_sema_writers
    \/ \E t \in Thread :
          /\ \A u \in Thread : lock[u] \in Signals => u = t
          /\ m_sema_readers = 0 /\ m_sema_writers = 0 /\ owed[t] > 0
          /\ \/ lock[t] = "signal writer" /\ readers = 0 /\ writers = owed[t]
             \/ lock[t] = "signal readers" /\ readers = owed[t] /\ writers = 0

\* The count says who has the mutex or was handed it.
Balanced(readers, writers) ==
    \/ /\ m_active = -1
       /\ Cardinality(In("write")) + writers = 1 /\ Cardinality(In("read")) + readers = 0
    \/ /\ m_active \in Nat
       /\ Cardinality(In("write")) + writers = 0
       /\ Cardinality(In("read")) + readers = m_active

HandedOver == \E readers, writers \in Nat : Granted(readers, writers) /\ Balanced(readers, writers)

LockState == {"free", "wait to read", "read", "wait to write", "write",
              "signal writer", "signal readers"}

\* MutexOK says of lock what its type says.
MutexInv == MutexOK /\ HandedOver

LEMMA ThreadFinite == IsFiniteSet(Thread)
BY MessagesAssumption

LEMMA InFacts ==
    ASSUME NEW state
    PROVE  /\ IsFiniteSet(In(state)) /\ Cardinality(In(state)) \in Nat
           /\ \A t \in Thread : lock[t] = state => Cardinality(In(state)) > 0
<1>1. IsFiniteSet(In(state)) /\ Cardinality(In(state)) \in Nat
  BY ThreadFinite, FS_Subset, FS_CardinalityType DEF In
<1>2. ASSUME NEW t \in Thread, lock[t] = state PROVE Cardinality(In(state)) > 0
  <2>1. In(state) # {}
    BY <1>2 DEF In
  <2>2. Cardinality(In(state)) # 0
    BY <1>1, <2>1, FS_EmptySet
  <2>3. QED
    BY <1>1, <2>2
<1>3. QED
  BY <1>1, <1>2

LEMMA InMoves ==
    ASSUME MutexOK, NEW t \in Thread, NEW to, lock' = [lock EXCEPT ![t] = to], to # lock[t],
           NEW state
    PROVE  Cardinality(In(state)') =
              IF state = to THEN Cardinality(In(state)) + 1
              ELSE IF state = lock[t] THEN Cardinality(In(state)) - 1
              ELSE Cardinality(In(state))
<1>1. \A u \in Thread : lock'[u] = IF u = t THEN to ELSE lock[u]
  BY DEF MutexOK
<1>2. IsFiniteSet(In(state))
  BY InFacts
<1>3. CASE state = to
  <2>1. t \notin In(state) /\ In(state)' = In(state) \cup {t}
    BY <1>1, <1>3 DEF In
  <2>2. QED
    BY <1>2, <1>3, <2>1, FS_AddElement
<1>4. CASE state # to /\ state = lock[t]
  <2>1. t \in In(state) /\ In(state)' = In(state) \ {t}
    BY <1>1, <1>4 DEF In
  <2>2. QED
    BY <1>2, <1>4, <2>1, FS_RemoveElement
<1>5. CASE state # to /\ state # lock[t]
  <2>1. In(state)' = In(state)
    BY <1>1, <1>5 DEF In
  <2>2. QED
    BY <1>5, <2>1
<1>6. QED
  BY <1>3, <1>4, <1>5

\* What the calls do, without the conditions in their effects.
Keeps == UNCHANGED <<m_waiting_readers, m_waiting_writers, m_sema_readers, m_sema_writers, owed>>

ReadAtOnce(t) ==
    /\ m_waiting_writers <= 0 /\ m_active >= 0 /\ Moves(t, "free", "read")
    /\ m_active' = m_active + 1 /\ Keeps

ReadLater(t) ==
    /\ Moves(t, "free", "wait to read")
    /\ m_waiting_readers' = m_waiting_readers + 1
    /\ UNCHANGED <<m_active, m_waiting_writers, m_sema_readers, m_sema_writers, owed>>

WriteAtOnce(t) == m_active = 0 /\ Moves(t, "free", "write") /\ m_active' = -1 /\ Keeps

WriteLater(t) ==
    /\ Moves(t, "free", "wait to write")
    /\ m_waiting_writers' = m_waiting_writers + 1
    /\ UNCHANGED <<m_active, m_waiting_readers, m_sema_readers, m_sema_writers, owed>>

SignalWriter(t) ==
    /\ Moves(t, "signal writer", "free") /\ m_sema_writers' = m_sema_writers + owed[t]
    /\ owed' = [owed EXCEPT ![t] = 0]
    /\ UNCHANGED <<m_active, m_waiting_readers, m_waiting_writers, m_sema_readers>>

SignalReaders(t) ==
    /\ Moves(t, "signal readers", "free") /\ m_sema_readers' = m_sema_readers + owed[t]
    /\ owed' = [owed EXCEPT ![t] = 0]
    /\ UNCHANGED <<m_active, m_waiting_readers, m_waiting_writers, m_sema_writers>>

LEMMA CallCases ==
    ASSUME NEW t \in Thread, MutexOK
    PROVE  /\ WaitToRead(t) => ReadAtOnce(t) \/ ReadLater(t)
           /\ WaitToWrite(t) => WriteAtOnce(t) \/ WriteLater(t)
           /\ Signal(t) => SignalWriter(t) \/ SignalReaders(t)
<1>1. ASSUME WaitToRead(t) PROVE ReadAtOnce(t) \/ ReadLater(t)
  <2>1. CASE m_waiting_writers > 0 \/ m_active < 0
    BY <1>1, <2>1, Zenon DEF WaitToRead, ReadLater
  <2>2. CASE ~(m_waiting_writers > 0 \/ m_active < 0)
    <3>1. m_waiting_writers \in Nat /\ m_active \in Nat \cup {-1}
      BY Zenon DEF MutexOK
    <3>2. m_waiting_writers <= 0 /\ m_active >= 0
      BY <2>2, <3>1
    <3>3. QED
      BY <1>1, <2>2, <3>2, Zenon DEF WaitToRead, ReadAtOnce, Keeps
  <2>3. QED
    BY <2>1, <2>2
<1>2. ASSUME WaitToWrite(t) PROVE WriteAtOnce(t) \/ WriteLater(t)
  BY <1>2, Zenon DEF WaitToWrite, WriteAtOnce, WriteLater, Keeps
<1>3. ASSUME Signal(t) PROVE SignalWriter(t) \/ SignalReaders(t)
  BY <1>3, Zenon DEF Signal, SignalWriter, SignalReaders, Moves
<1>4. QED
  BY <1>1, <1>2, <1>3

LEMMA MutexType ==
    ASSUME MutexOK, [MutexNext]_mutex
    PROVE  MutexOK'
<1> DEFINE counts == /\ m_active \in Nat \cup {-1}
                     /\ m_waiting_readers \in Nat /\ m_waiting_writers \in Nat
                     /\ m_sema_readers \in Nat /\ m_sema_writers \in Nat
           locks == lock \in [Thread -> LockState]
           owing == owed \in [Thread -> Nat]
<1>0. counts
  BY Zenon DEF MutexOK
<1>1. locks
  BY Zenon DEF MutexOK, LockState
<1>2. owing
  BY Zenon DEF MutexOK
<1>3. \A t \in Thread : \A s \in LockState : [lock EXCEPT ![t] = s] \in [Thread -> LockState]
  BY <1>1
<1>4. \A t \in Thread : \A n \in Nat : [owed EXCEPT ![t] = n] \in [Thread -> Nat]
  BY <1>2
<1>5. Left \in Nat \cup {-1}
  BY <1>0 DEF Left
<1>6. ASSUME NEW t \in Thread, ReadAtOnce(t) \/ ReadLater(t) PROVE counts' /\ locks' /\ owing'
  <2>1. /\ UNCHANGED <<m_waiting_writers, m_sema_readers, m_sema_writers, owed>>
        /\ \/ m_active >= 0 /\ m_active' = m_active + 1 /\ UNCHANGED m_waiting_readers
           \/ m_waiting_readers' = m_waiting_readers + 1 /\ UNCHANGED m_active
    BY <1>6, Zenon DEF ReadAtOnce, ReadLater, Keeps
  <2>2. counts'
    BY <1>0, <2>1
  <2>3. owing'
    BY <1>2, <2>1
  <2>4. QED
    BY <1>3, <1>6, <2>2, <2>3 DEF ReadAtOnce, ReadLater, Moves, LockState
<1>7. ASSUME NEW t \in Thread, WriteAtOnce(t) \/ WriteLater(t) PROVE counts' /\ locks' /\ owing'
  <2>1. /\ UNCHANGED <<m_waiting_readers, m_sema_readers, m_sema_writers, owed>>
        /\ \/ m_active' = -1 /\ UNCHANGED m_waiting_writers
           \/ m_waiting_writers' = m_waiting_writers + 1 /\ UNCHANGED m_active
    BY <1>7, Zenon DEF WriteAtOnce, WriteLater, Keeps
  <2>2. counts'
    BY <1>0, <2>1
  <2>3. owing'
    BY <1>2, <2>1
  <2>4. QED
    BY <1>3, <1>7, <2>2, <2>3 DEF WriteAtOnce, WriteLater, Moves, LockState
<1>8. ASSUME NEW t \in Thread, DoneAlone(t) PROVE counts' /\ locks' /\ owing'
  <2>1. counts'
    BY <1>0, <1>5, <1>8 DEF DoneAlone
  <2>2. owing'
    BY <1>2, <1>8 DEF DoneAlone
  <2>3. QED
    BY <1>3, <1>8, <2>1, <2>2 DEF DoneAlone, LockState
<1>9. ASSUME NEW t \in Thread, DoneToWriter(t) PROVE counts' /\ locks' /\ owing'
  <2>1. /\ m_active' = -1 /\ m_waiting_writers > 0
        /\ m_waiting_writers' = m_waiting_writers - 1
        /\ UNCHANGED <<m_waiting_readers, m_sema_readers, m_sema_writers>>
    BY <1>9, Zenon DEF DoneToWriter
  <2>2. counts'
    BY <1>0, <2>1
  <2>3. QED
    BY <1>3, <1>4, <1>9, <2>2 DEF DoneToWriter, LockState
<1>10. ASSUME NEW t \in Thread, DoneToReaders(t) PROVE counts' /\ locks' /\ owing'
  <2>1. counts'
    BY <1>0, <1>10 DEF DoneToReaders
  <2>2. owing'
    BY <1>0, <1>4, <1>10 DEF DoneToReaders
  <2>3. QED
    BY <1>3, <1>10, <2>1, <2>2 DEF DoneToReaders, LockState
<1>11. ASSUME NEW t \in Thread, AcquireRead(t) \/ AcquireWrite(t) PROVE counts' /\ locks' /\ owing'
  <2>1. /\ UNCHANGED <<m_active, m_waiting_readers, m_waiting_writers, owed>>
        /\ \/ /\ m_sema_readers > 0 /\ m_sema_readers' = m_sema_readers - 1
              /\ UNCHANGED m_sema_writers
           \/ /\ m_sema_writers > 0 /\ m_sema_writers' = m_sema_writers - 1
              /\ UNCHANGED m_sema_readers
    BY <1>11, Zenon DEF AcquireRead, AcquireWrite
  <2>2. counts'
    BY <1>0, <2>1
  <2>3. owing'
    BY <1>2, <1>11, <2>1
  <2>4. QED
    BY <1>3, <1>11, <2>2, <2>3 DEF AcquireRead, AcquireWrite, Moves, LockState
<1>12. ASSUME NEW t \in Thread, SignalWriter(t) \/ SignalReaders(t)
       PROVE  counts' /\ locks' /\ owing'
  <2>1. owed[t] \in Nat
    BY <1>2
  <2>2. /\ UNCHANGED <<m_active, m_waiting_readers, m_waiting_writers>>
        /\ \/ m_sema_writers' = m_sema_writers + owed[t] /\ UNCHANGED m_sema_readers
           \/ m_sema_readers' = m_sema_readers + owed[t] /\ UNCHANGED m_sema_writers
    BY <1>12, Zenon DEF SignalWriter, SignalReaders
  <2>3. counts'
    BY <1>0, <2>1, <2>2
  <2>4. owed' = [owed EXCEPT ![t] = 0] /\ lock' = [lock EXCEPT ![t] = "free"]
    BY <1>12, Zenon DEF SignalWriter, SignalReaders, Moves
  <2>5. owing' /\ locks'
    BY <1>3, <1>4, <2>4 DEF LockState
  <2>6. QED
    BY <2>3, <2>5
<1>13. CASE UNCHANGED mutex
  <2>1. UNCHANGED <<m_active, m_waiting_readers, m_waiting_writers, m_sema_readers,
                    m_sema_writers>> /\ lock' = lock /\ owed' = owed
    BY <1>13 DEF mutex
  <2>2. counts'
    BY <1>0, <2>1
  <2>3. locks' /\ owing'
    BY <1>1, <1>2, <2>1, Zenon
  <2>4. QED
    BY <2>2, <2>3, Zenon DEF MutexOK, LockState
<1>14. ASSUME NEW t \in Thread, WaitToRead(t) \/ WaitToWrite(t) \/ Done(t) \/ MutexStep(t)
       PROVE  counts' /\ locks' /\ owing'
  BY <1>6, <1>7, <1>8, <1>9, <1>10, <1>11, <1>12, <1>14, CallCases DEF MutexStep, Done
<1>15. QED
  BY <1>13, <1>14 DEF MutexNext, MutexOK, LockState

LEMMA GrantKept ==
    ASSUME MutexOK, NEW t \in Thread, NEW to, lock' = [lock EXCEPT ![t] = to],
           lock[t] \notin Signals, to \notin Signals,
           UNCHANGED <<m_sema_readers, m_sema_writers, owed>>,
           NEW readers, NEW writers, Granted(readers, writers)
    PROVE  Granted(readers, writers)'
<1>1. \A u \in Thread : lock'[u] = IF u = t THEN to ELSE lock[u]
  BY Zenon DEF MutexOK
<1>2. CASE /\ \A u \in Thread : lock[u] \notin Signals
           /\ readers = m_sema_readers /\ writers = m_sema_writers
  <2>1. \A u \in Thread : lock'[u] \notin Signals
    BY <1>1, <1>2
  <2>2. QED
    BY <1>2, <2>1, Zenon DEF Granted
<1>3. ASSUME NEW v \in Thread, \A u \in Thread : lock[u] \in Signals => u = v,
             m_sema_readers = 0, m_sema_writers = 0, owed[v] > 0,
             \/ lock[v] = "signal writer" /\ readers = 0 /\ writers = owed[v]
             \/ lock[v] = "signal readers" /\ readers = owed[v] /\ writers = 0
      PROVE  Granted(readers, writers)'
  <2>1. v # t
    BY <1>3 DEF Signals
  <2>2. lock'[v] = lock[v] /\ \A u \in Thread : lock'[u] \in Signals => u = v
    BY <1>1, <1>3, <2>1
  <2>3. QED
    BY <1>3, <2>2, Zenon DEF Granted
<1>4. QED
  BY <1>2, <1>3, Zenon DEF Granted

\* Whoever has the mutex shows in the count.
LEMMA Balance ==
    ASSUME MutexOK, NEW readers \in Nat, NEW writers \in Nat, Balanced(readers, writers),
           NEW t \in Thread
    PROVE  /\ lock[t] = "read" => /\ m_active \in Nat /\ m_active > 0
                                  /\ Cardinality(In("read")) + readers = m_active
                                  /\ Cardinality(In("write")) = 0 /\ writers = 0
           /\ lock[t] = "write" => /\ m_active = -1 /\ Cardinality(In("write")) = 1
                                   /\ Cardinality(In("read")) = 0
                                   /\ readers = 0 /\ writers = 0
<1> DEFINE R == Cardinality(In("read"))
           W == Cardinality(In("write"))
<1>1. R \in Nat /\ W \in Nat /\ (lock[t] = "read" => R > 0) /\ (lock[t] = "write" => W > 0)
  BY InFacts
<1>2. \/ m_active = -1 /\ W + writers = 1 /\ R + readers = 0
      \/ m_active \in Nat /\ W + writers = 0 /\ R + readers = m_active
  BY DEF Balanced
<1> HIDE DEF R, W
<1>3. ASSUME R > 0 PROVE m_active \in Nat /\ m_active > 0 /\ R + readers = m_active
                         /\ W = 0 /\ writers = 0
  BY <1>1, <1>2, <1>3
<1>4. ASSUME W > 0 PROVE m_active = -1 /\ W = 1 /\ R = 0 /\ readers = 0 /\ writers = 0
  BY <1>1, <1>2, <1>4
<1>5. QED
  BY <1>1, <1>3, <1>4 DEF R, W

\* A call that hands nothing over: what was granted stays.
LEMMA PlainCallKeepsHandedOver ==
    ASSUME MutexInv, NEW t \in Thread,
           \/ ReadAtOnce(t) \/ ReadLater(t) \/ WriteAtOnce(t) \/ WriteLater(t) \/ DoneAlone(t)
    PROVE  HandedOver'
<1>0. MutexOK
  BY DEF MutexInv
<1>1. PICK readers \in Nat, writers \in Nat : Granted(readers, writers) /\ Balanced(readers, writers)
  BY DEF MutexInv, HandedOver
<1>2. UNCHANGED <<m_sema_readers, m_sema_writers, owed>>
  BY Zenon DEF ReadAtOnce, ReadLater, WriteAtOnce, WriteLater, DoneAlone, Keeps
<1> DEFINE R == Cardinality(In("read"))
           W == Cardinality(In("write"))
<1>3. R \in Nat /\ W \in Nat /\ m_active \in Nat \cup {-1}
  <2>1. R \in Nat /\ W \in Nat
    BY InFacts
  <2>2. QED
    BY <1>0, <2>1, Zenon DEF MutexOK
<1>4. \/ m_active = -1 /\ W + writers = 1 /\ R + readers = 0
      \/ m_active \in Nat /\ W + writers = 0 /\ R + readers = m_active
  BY <1>1 DEF Balanced
<1>5. ASSUME NEW to \in LockState \ Signals, lock' = [lock EXCEPT ![t] = to], lock[t] \notin Signals,
             \/ m_active' = -1 /\ W' + writers = 1 /\ R' + readers = 0
             \/ m_active' \in Nat /\ W' + writers = 0 /\ R' + readers = m_active'
      PROVE  HandedOver'
  <2>1. Granted(readers, writers)'
    BY <1>0, <1>1, <1>2, <1>5, GrantKept
  <2>2. Balanced(readers, writers)'
    BY <1>5, Zenon DEF Balanced
  <2>3. QED
    BY <2>1, <2>2, Zenon DEF HandedOver
<1>6. ASSUME NEW to, lock' = [lock EXCEPT ![t] = to], to # lock[t]
      PROVE  /\ R' = IF "read" = to THEN R + 1 ELSE IF "read" = lock[t] THEN R - 1 ELSE R
             /\ W' = IF "write" = to THEN W + 1 ELSE IF "write" = lock[t] THEN W - 1 ELSE W
  BY <1>0, <1>6, InMoves
<1> HIDE DEF R, W
<1>7. CASE ReadAtOnce(t)
  <2>1. lock[t] = "free" /\ lock' = [lock EXCEPT ![t] = "read"]
    BY <1>7, Zenon DEF ReadAtOnce, Moves
  <2>2. m_active >= 0 /\ m_active' = m_active + 1
    BY <1>7, Zenon DEF ReadAtOnce
  <2>3. R' = R + 1 /\ W' = W
    BY <1>6, <2>1
  <2>4. m_active' \in Nat /\ W' + writers = 0 /\ R' + readers = m_active'
    BY <1>3, <1>4, <2>2, <2>3
  <2>5. QED
    BY <1>5, <2>1, <2>4 DEF Signals, LockState
<1>8. CASE WriteAtOnce(t)
  <2>1. lock[t] = "free" /\ lock' = [lock EXCEPT ![t] = "write"]
    BY <1>8, Zenon DEF WriteAtOnce, Moves
  <2>2. m_active = 0 /\ m_active' = -1
    BY <1>8, Zenon DEF WriteAtOnce
  <2>3. R' = R /\ W' = W + 1
    BY <1>6, <2>1
  <2>4. W' + writers = 1 /\ R' + readers = 0
    BY <1>3, <1>4, <2>2, <2>3
  <2>5. QED
    BY <1>5, <2>1, <2>2, <2>4 DEF Signals, LockState
<1>9. CASE ReadLater(t) \/ WriteLater(t)
  <2>1. PICK to \in {"wait to read", "wait to write"} :
           lock[t] = "free" /\ lock' = [lock EXCEPT ![t] = to]
    BY <1>9, Zenon DEF ReadLater, WriteLater, Moves
  <2>2. m_active' = m_active
    BY <1>9, Zenon DEF ReadLater, WriteLater
  <2>3. R' = R /\ W' = W
    BY <1>6, <2>1
  <2>4. QED
    BY <1>4, <1>5, <2>1, <2>2, <2>3 DEF Signals, LockState
<1>10. CASE DoneAlone(t)
  <2>1. lock[t] \in {"read", "write"} /\ lock' = [lock EXCEPT ![t] = "free"]
    BY <1>10, Zenon DEF DoneAlone
  <2>2. m_active' = Left
    BY <1>10, Zenon DEF DoneAlone
  <2>3. m_active' \in Nat /\ W' + writers = 0 /\ R' + readers = m_active'
    <3>1. CASE lock[t] = "read"
      <4>1. m_active \in Nat /\ m_active > 0 /\ R + readers = m_active /\ W = 0 /\ writers = 0
        BY <1>0, <1>1, <3>1, Balance DEF R, W
      <4>2. R' = R - 1 /\ W' = W
        BY <1>6, <2>1, <3>1, "free" # "read", "write" # "read", "free" # "write", Zenon
      <4>3. m_active' = m_active - 1
        BY <2>2, <4>1 DEF Left
      <4>4. QED
        BY <1>3, <4>1, <4>2, <4>3
    <3>2. CASE lock[t] = "write"
      <4>1. m_active = -1 /\ W = 1 /\ R = 0 /\ readers = 0 /\ writers = 0
        BY <1>0, <1>1, <3>2, Balance DEF R, W
      <4>2. R' = R /\ W' = W - 1
        BY <1>6, <2>1, <3>2, "free" # "read", "write" # "read", "free" # "write", Zenon
      <4>3. m_active' = 0
        BY <2>2, <4>1 DEF Left
      <4>4. QED
        BY <4>1, <4>2, <4>3
    <3>3. QED
      BY <2>1, <3>1, <3>2
  <2>4. QED
    BY <1>5, <2>1, <2>3 DEF Signals, LockState
<1>11. QED
  BY <1>7, <1>8, <1>9, <1>10

\* Done, with somebody to hand the mutex to: nothing was granted before.
LEMMA NothingGranted ==
    ASSUME MutexInv, NEW t \in Thread, lock[t] \in {"read", "write"}, Left = 0
    PROVE  /\ \A u \in Thread : lock[u] \notin Signals
           /\ m_sema_readers = 0 /\ m_sema_writers = 0
           /\ Cardinality(In("read")) = IF lock[t] = "read" THEN 1 ELSE 0
           /\ Cardinality(In("write")) = IF lock[t] = "write" THEN 1 ELSE 0
<1>0. MutexOK
  BY DEF MutexInv
<1>1. PICK readers \in Nat, writers \in Nat : Granted(readers, writers) /\ Balanced(readers, writers)
  BY DEF MutexInv, HandedOver
<1> DEFINE R == Cardinality(In("read"))
           W == Cardinality(In("write"))
<1>2. R \in Nat /\ (lock[t] = "read" => R > 0)
  BY InFacts
<1>3. /\ readers = 0 /\ writers = 0
      /\ R = (IF lock[t] = "read" THEN 1 ELSE 0) /\ W = (IF lock[t] = "write" THEN 1 ELSE 0)
  <2>1. CASE lock[t] = "read"
    <3>1. m_active \in Nat /\ m_active > 0 /\ R + readers = m_active /\ W = 0 /\ writers = 0
      BY <1>0, <1>1, <2>1, Balance
    <3>2. m_active = 1
      BY <3>1 DEF Left
    <3> HIDE DEF R, W
    <3>3. R = 1 /\ readers = 0
      BY <1>2, <2>1, <3>1, <3>2
    <3>4. QED
      BY <2>1, <3>1, <3>3
  <2>2. CASE lock[t] = "write"
    <3>1. W = 1 /\ R = 0 /\ readers = 0 /\ writers = 0
      BY <1>0, <1>1, <2>2, Balance
    <3>2. QED
      BY <2>2, <3>1
  <2>3. QED
    BY <2>1, <2>2
<1>4. ASSUME NEW u \in Thread, owed[u] > 0, writers = owed[u] \/ readers = owed[u] PROVE FALSE
  BY <1>3, <1>4
<1>5. /\ \A u \in Thread : lock[u] \notin Signals
      /\ readers = m_sema_readers /\ writers = m_sema_writers
  BY <1>1, <1>4, Zenon DEF Granted
<1>6. QED
  BY <1>3, <1>5

\* Done with a writer or readers to hand the mutex to.
LEMMA HandOver ==
    ASSUME MutexInv, NEW t \in Thread, DoneToWriter(t) \/ DoneToReaders(t)
    PROVE  HandedOver'
<1>0. MutexOK
  BY DEF MutexInv
<1> DEFINE R == Cardinality(In("read"))
           W == Cardinality(In("write"))
<1>1. lock[t] \in {"read", "write"} /\ Left = 0
  BY Zenon DEF DoneToWriter, DoneToReaders
<1>2. /\ \A u \in Thread : lock[u] \notin Signals
      /\ m_sema_readers = 0 /\ m_sema_writers = 0
      /\ R = (IF lock[t] = "read" THEN 1 ELSE 0) /\ W = (IF lock[t] = "write" THEN 1 ELSE 0)
  BY <1>1, NothingGranted
<1>3. ASSUME NEW to \in Signals, lock' = [lock EXCEPT ![t] = to]
      PROVE  /\ lock'[t] = to /\ \A u \in Thread : lock'[u] \in Signals => u = t
             /\ R' = 0 /\ W' = 0
  <2>1. to # lock[t] /\ to \notin {"read", "write"}
    BY <1>1 DEF Signals
  <2>2. \A u \in Thread : lock'[u] = IF u = t THEN to ELSE lock[u]
    BY <1>0, <1>3, Zenon DEF MutexOK
  <2>3. /\ R' = IF "read" = lock[t] THEN R - 1 ELSE R
        /\ W' = IF "write" = lock[t] THEN W - 1 ELSE W
    <3>1. /\ R' = IF "read" = to THEN R + 1 ELSE IF "read" = lock[t] THEN R - 1 ELSE R
          /\ W' = IF "write" = to THEN W + 1 ELSE IF "write" = lock[t] THEN W - 1 ELSE W
      BY <1>0, <1>3, <2>1, InMoves
    <3> HIDE DEF R, W
    <3>2. QED
      BY <2>1, <3>1, Zenon
  <2>4. lock'[t] = to /\ \A u \in Thread : lock'[u] \in Signals => u = t
    BY <1>2, <2>2
  <2> HIDE DEF R, W
  <2>5. R' = 0 /\ W' = 0
    BY <1>1, <1>2, <2>3
  <2>6. QED
    BY <2>4, <2>5
<1>4. \A n \in Nat : owed' = [owed EXCEPT ![t] = n] => owed'[t] = n
  BY <1>0, Zenon DEF MutexOK
<1>5. CASE DoneToWriter(t)
  <2>1. /\ lock' = [lock EXCEPT ![t] = "signal writer"] /\ owed' = [owed EXCEPT ![t] = 1]
        /\ m_active' = -1 /\ UNCHANGED <<m_sema_readers, m_sema_writers>>
    BY <1>5, Zenon DEF DoneToWriter
  <2>2. lock'[t] = "signal writer" /\ \A u \in Thread : lock'[u] \in Signals => u = t
    BY <1>3, <2>1 DEF Signals
  <2>3. R' = 0 /\ W' = 0
    BY <1>3, <2>1 DEF Signals
  <2>4. owed'[t] = 1
    BY <1>4, <2>1
  <2>5. owed'[t] > 0 /\ m_sema_readers' = 0 /\ m_sema_writers' = 0
    <3>1. owed'[t] > 0
      BY <2>4
    <3>2. QED
      BY <1>2, <2>1, <3>1, Zenon
  <2>6. Granted(0, 1)'
    BY <2>2, <2>4, <2>5, Zenon DEF Granted
  <2> HIDE DEF R, W
  <2>7. R' + 0 = 0 /\ W' + 1 = 1
    BY <2>3
  <2>8. Balanced(0, 1)'
    BY <2>1, <2>7, Zenon DEF Balanced, R, W
  <2>9. QED
    BY <2>6, <2>8 DEF HandedOver
<1>6. CASE DoneToReaders(t)
  <2> DEFINE n == m_waiting_readers
  <2>1. /\ lock' = [lock EXCEPT ![t] = "signal readers"] /\ owed' = [owed EXCEPT ![t] = n]
        /\ m_active' = n /\ n > 0 /\ UNCHANGED <<m_sema_readers, m_sema_writers>>
    BY <1>6, Zenon DEF DoneToReaders
  <2>2. lock'[t] = "signal readers" /\ \A u \in Thread : lock'[u] \in Signals => u = t
    BY <1>3, <2>1 DEF Signals
  <2>3. R' = 0 /\ W' = 0
    BY <1>3, <2>1 DEF Signals
  <2>4. n \in Nat
    BY <1>0, Zenon DEF MutexOK
  <2>5. owed'[t] = n
    BY <1>4, <2>1, <2>4
  <2> HIDE DEF n
  <2>6. owed'[t] > 0 /\ m_sema_readers' = 0 /\ m_sema_writers' = 0
    BY <1>2, <2>1, <2>5
  <2>7. \E readers, writers \in Nat : readers = n /\ writers = 0 /\ Granted(readers, writers)'
    BY <2>2, <2>4, <2>5, <2>6, Zenon DEF Granted
  <2> HIDE DEF R, W
  <2>8. R' + n = n /\ W' + 0 = 0
    BY <2>3, <2>4
  <2>9. \A readers, writers : readers = n /\ writers = 0 => Balanced(readers, writers)'
    BY <2>1, <2>4, <2>8, Zenon DEF Balanced, R, W
  <2>10. QED
    BY <2>7, <2>9, Zenon DEF HandedOver
<1>7. QED
  BY <1>5, <1>6

\* A semaphore lets a thread in: it was granted the mutex, and has it now.
LEMMA LetIn ==
    ASSUME MutexInv, NEW t \in Thread, AcquireRead(t) \/ AcquireWrite(t)
    PROVE  HandedOver'
<1>0. MutexOK
  BY DEF MutexInv
<1>1. PICK readers \in Nat, writers \in Nat : Granted(readers, writers) /\ Balanced(readers, writers)
  BY DEF MutexInv, HandedOver
<1> DEFINE R == Cardinality(In("read"))
           W == Cardinality(In("write"))
<1>2. R \in Nat /\ W \in Nat /\ m_sema_readers \in Nat /\ m_sema_writers \in Nat
  <2>1. R \in Nat /\ W \in Nat
    BY InFacts
  <2>2. QED
    BY <1>0, <2>1, Zenon DEF MutexOK
<1>3. \/ m_active = -1 /\ W + writers = 1 /\ R + readers = 0
      \/ m_active \in Nat /\ W + writers = 0 /\ R + readers = m_active
  BY <1>1 DEF Balanced
<1>4. m_active' = m_active
  BY Zenon DEF AcquireRead, AcquireWrite
<1>5. /\ \A u \in Thread : lock[u] \notin Signals
      /\ readers = m_sema_readers /\ writers = m_sema_writers
  <2>1. m_sema_readers > 0 \/ m_sema_writers > 0
    BY Zenon DEF AcquireRead, AcquireWrite
  <2>2. ~ (m_sema_readers = 0 /\ m_sema_writers = 0)
    BY <2>1
  <2>3. QED
    BY <1>1, <2>2, Zenon DEF Granted
<1>6. ASSUME NEW to \in {"read", "write"}, lock' = [lock EXCEPT ![t] = to], lock[t] \notin {"read", "write"}
      PROVE  /\ \A u \in Thread : lock'[u] \notin Signals
             /\ R' = (IF to = "read" THEN R + 1 ELSE R) /\ W' = (IF to = "write" THEN W + 1 ELSE W)
  <2>1. \A u \in Thread : lock'[u] = IF u = t THEN to ELSE lock[u]
    BY <1>0, <1>6, Zenon DEF MutexOK
  <2>2. to # lock[t] /\ "read" # lock[t] /\ "write" # lock[t]
    BY <1>6
  <2>3. /\ R' = IF "read" = to THEN R + 1 ELSE IF "read" = lock[t] THEN R - 1 ELSE R
        /\ W' = IF "write" = to THEN W + 1 ELSE IF "write" = lock[t] THEN W - 1 ELSE W
    BY <1>0, <1>6, <2>2, InMoves
  <2> HIDE DEF R, W
  <2>4. R' = (IF to = "read" THEN R + 1 ELSE R) /\ W' = (IF to = "write" THEN W + 1 ELSE W)
    BY <2>2, <2>3, Zenon
  <2>5. \A u \in Thread : lock'[u] \notin Signals
    BY <1>5, <2>1 DEF Signals
  <2>6. QED
    BY <2>4, <2>5
<1> HIDE DEF R, W
<1>7. ASSUME \A u \in Thread : lock'[u] \notin Signals,
             NEW r \in Nat, NEW w \in Nat, r = m_sema_readers', w = m_sema_writers',
             R' + r = R + readers, W' + w = W + writers
      PROVE  HandedOver'
  <2>1. Granted(r, w)'
    BY <1>7, Zenon DEF Granted
  <2>2. \/ m_active' = -1 /\ W' + w = 1 /\ R' + r = 0
        \/ m_active' \in Nat /\ W' + w = 0 /\ R' + r = m_active'
    BY <1>3, <1>4, <1>7
  <2>3. Balanced(r, w)'
    BY <2>2, Zenon DEF Balanced, R, W
  <2>4. QED
    BY <2>1, <2>3, Zenon DEF HandedOver
<1>8. CASE AcquireRead(t)
  <2>1. /\ m_sema_readers > 0 /\ m_sema_readers' = m_sema_readers - 1
        /\ m_sema_writers' = m_sema_writers
        /\ lock[t] = "wait to read" /\ lock' = [lock EXCEPT ![t] = "read"]
    BY <1>8, Zenon DEF AcquireRead, Moves
  <2>2. lock[t] \notin {"read", "write"}
    BY <2>1, Zenon
  <2>3. /\ \A u \in Thread : lock'[u] \notin Signals
        /\ R' = R + 1 /\ W' = W
    BY <1>6, <2>1, <2>2
  <2>4. m_sema_readers > 0 /\ m_sema_readers' = m_sema_readers - 1 /\ m_sema_writers' = m_sema_writers
    BY <2>1
  <2>5. m_sema_readers' \in Nat /\ m_sema_writers' \in Nat
    BY <1>2, <2>4
  <2>6. R' + m_sema_readers' = R + readers /\ W' + m_sema_writers' = W + writers
    BY <1>2, <1>5, <2>3, <2>4, <2>5
  <2>7. QED
    BY <1>7, <2>3, <2>5, <2>6
<1>9. CASE AcquireWrite(t)
  <2>1. /\ m_sema_writers > 0 /\ m_sema_writers' = m_sema_writers - 1
        /\ m_sema_readers' = m_sema_readers
        /\ lock[t] = "wait to write" /\ lock' = [lock EXCEPT ![t] = "write"]
    BY <1>9, Zenon DEF AcquireWrite, Moves
  <2>2. lock[t] \notin {"read", "write"}
    BY <2>1, Zenon
  <2>3. /\ \A u \in Thread : lock'[u] \notin Signals
        /\ R' = R /\ W' = W + 1
    BY <1>6, <2>1, <2>2
  <2>4. m_sema_writers > 0 /\ m_sema_writers' = m_sema_writers - 1 /\ m_sema_readers' = m_sema_readers
    BY <2>1
  <2>5. m_sema_readers' \in Nat /\ m_sema_writers' \in Nat
    BY <1>2, <2>4
  <2>6. R' + m_sema_readers' = R + readers /\ W' + m_sema_writers' = W + writers
    BY <1>2, <1>5, <2>3, <2>4, <2>5
  <2>7. QED
    BY <1>7, <2>3, <2>5, <2>6
<1>10. QED
  BY <1>8, <1>9

\* The semaphore is released: it holds what was granted.
LEMMA Release ==
    ASSUME MutexInv, NEW t \in Thread, SignalWriter(t) \/ SignalReaders(t)
    PROVE  HandedOver'
<1>0. MutexOK
  BY DEF MutexInv
<1>1. PICK readers \in Nat, writers \in Nat : Granted(readers, writers) /\ Balanced(readers, writers)
  BY DEF MutexInv, HandedOver
<1>2. lock[t] \in Signals
  BY DEF SignalWriter, SignalReaders, Moves, Signals
<1>3. /\ \A u \in Thread : lock[u] \in Signals => u = t
      /\ m_sema_readers = 0 /\ m_sema_writers = 0
      /\ \/ lock[t] = "signal writer" /\ readers = 0 /\ writers = owed[t]
         \/ lock[t] = "signal readers" /\ readers = owed[t] /\ writers = 0
  BY <1>1, <1>2, Zenon DEF Granted
<1>4. lock' = [lock EXCEPT ![t] = "free"] /\ m_active' = m_active
  BY Zenon DEF SignalWriter, SignalReaders, Moves
<1>5. \A u \in Thread : lock'[u] = IF u = t THEN "free" ELSE lock[u]
  BY <1>0, <1>4, Zenon DEF MutexOK
<1>6. \A u \in Thread : lock'[u] \notin Signals
  BY <1>3, <1>5 DEF Signals
<1>7. In("read")' = In("read") /\ In("write")' = In("write")
  BY <1>2, <1>5 DEF In, Signals
<1>8. readers = m_sema_readers' /\ writers = m_sema_writers'
  <2>1. CASE SignalWriter(t)
    <3>1. /\ lock[t] = "signal writer" /\ m_sema_writers' = m_sema_writers + owed[t]
          /\ m_sema_readers' = m_sema_readers
      BY <2>1, Zenon DEF SignalWriter, Moves
    <3>2. readers = 0 /\ writers = owed[t]
      BY <1>3, <3>1
    <3>3. m_sema_writers' = 0 + writers /\ m_sema_readers' = 0
      BY <1>3, <3>1, <3>2, Zenon
    <3>4. QED
      BY <3>2, <3>3
  <2>2. CASE SignalReaders(t)
    <3>1. /\ lock[t] = "signal readers" /\ m_sema_readers' = m_sema_readers + owed[t]
          /\ m_sema_writers' = m_sema_writers
      BY <2>2, Zenon DEF SignalReaders, Moves
    <3>2. writers = 0 /\ readers = owed[t]
      BY <1>3, <3>1
    <3>3. m_sema_readers' = 0 + readers /\ m_sema_writers' = 0
      BY <1>3, <3>1, <3>2, Zenon
    <3>4. QED
      BY <3>2, <3>3
  <2>3. QED
    BY <2>1, <2>2
<1>9. Granted(readers, writers)'
  BY <1>6, <1>8, Zenon DEF Granted
<1>10. Balanced(readers, writers)'
  BY <1>1, <1>4, <1>7, Zenon DEF Balanced
<1>11. QED
  BY <1>9, <1>10, Zenon DEF HandedOver

\* Every step on the mutex keeps its invariant.
LEMMA MutexInvKept ==
    ASSUME MutexInv, [MutexNext]_mutex
    PROVE  MutexInv'
<1>1. MutexOK'
  BY MutexType DEF MutexInv
<1>2. ASSUME NEW t \in Thread, WaitToRead(t) \/ WaitToWrite(t) \/ Done(t) \/ MutexStep(t)
      PROVE  HandedOver'
  BY <1>2, CallCases, PlainCallKeepsHandedOver, HandOver, LetIn, Release
     DEF MutexInv, Done, MutexStep
<1>3. CASE UNCHANGED mutex
  <2>1. /\ m_active' = m_active /\ m_sema_readers' = m_sema_readers
        /\ m_sema_writers' = m_sema_writers /\ lock' = lock /\ owed' = owed
    BY <1>3 DEF mutex
  <2>2. In("read")' = In("read") /\ In("write")' = In("write")
    BY <2>1 DEF In
  <2>3. PICK readers \in Nat, writers \in Nat :
           Granted(readers, writers) /\ Balanced(readers, writers)
    BY DEF MutexInv, HandedOver
  <2>4. Granted(readers, writers)' /\ Balanced(readers, writers)'
    BY <2>1, <2>2, <2>3, Zenon DEF Granted, Balanced
  <2>5. HandedOver'
    BY <2>4, Zenon DEF HandedOver
  <2>6. QED
    BY <1>1, <2>5 DEF MutexInv
<1>4. QED
  BY <1>1, <1>2, <1>3 DEF MutexNext, MutexInv

LEMMA MutexInvAtFirst == InitMutex => MutexInv
<1> SUFFICES ASSUME InitMutex PROVE MutexInv
  OBVIOUS
<1>1. MutexOK
  BY DEF InitMutex, MutexOK
<1>2. \A t \in Thread : lock[t] = "free"
  BY DEF InitMutex
<1>3. In("read") = {} /\ In("write") = {}
  BY <1>2 DEF In
<1>4. Cardinality(In("read")) + 0 = 0 /\ Cardinality(In("write")) + 0 = 0
  BY <1>3, FS_EmptySet
<1>5. m_active = 0 /\ m_active \in Nat /\ m_sema_readers = 0 /\ m_sema_writers = 0
  BY DEF InitMutex
<1>6. Balanced(0, 0)
  BY <1>4, <1>5, Zenon DEF Balanced
<1>7. Granted(0, 0)
  BY <1>2, <1>5 DEF Granted, Signals
<1>8. QED
  BY <1>1, <1>6, <1>7 DEF HandedOver, MutexInv

\* A writer is alone.
LEMMA WriterIsAlone == MutexInv => Exclusive
<1> SUFFICES ASSUME MutexInv, NEW t \in Thread, NEW u \in Thread, lock[t] = "write", u # t
             PROVE  lock[u] \notin {"read", "write"}
  BY DEF Exclusive
<1>1. PICK readers \in Nat, writers \in Nat : Granted(readers, writers) /\ Balanced(readers, writers)
  BY DEF MutexInv, HandedOver
<1>2. Cardinality(In("write")) = 1 /\ Cardinality(In("read")) = 0
  BY <1>1, Balance DEF MutexInv
<1>3. lock[u] # "read"
  BY <1>2, InFacts
<1>4. ASSUME lock[u] = "write" PROVE FALSE
  <2>1. t \in In("write") /\ u \in In("write") \ {t}
    BY <1>4 DEF In
  <2>2. IsFiniteSet(In("write")) /\ IsFiniteSet(In("write") \ {t})
    BY InFacts, FS_RemoveElement
  <2>3. Cardinality(In("write") \ {t}) = 0
    BY <1>2, <2>1, <2>2, FS_RemoveElement
  <2>4. QED
    BY <2>1, <2>2, <2>3, FS_EmptySet
<1>5. QED
  BY <1>3, <1>4

(***************************************************************************)
(* The threads and their messages.                                         *)
(***************************************************************************)

Pushing == {"find", "found", "refused"}
PosterState == {"idle", "find", "found", "pushed", "refused"}

\* Where a worker is registered, where its queue is not used yet or no more,
\* and where the queue is emptied.
Registered == {"get", "get, set", "dequeue", "wait", "handle", "end", "end, set", "existed",
               "leaving", "remove"}
Outside == {"off", "constructor", "register"}
Draining == {"drain", "drain, set", "drain, reply"}
WorkerState == Registered \cup Outside \cup Draining

\* Nothing is being handled there.
Between == Outside \cup {"dequeue", "wait", "existed", "leaving", "remove", "drain"}

Typed ==
    /\ g_map \subseteq Worker
    /\ pc \in [Thread -> PosterState \cup WorkerState]
    /\ queue \in [Worker -> SUBSET Carrier]
    /\ waits \in [Worker -> BOOLEAN]
    /\ handed \in [Worker -> Carrier \cup {NoCarrier}]
    /\ current \in [Worker -> Carrier \cup {NoCarrier}]
    /\ op \in [Poster -> [call : Call \cup {"none"}, carrier : Carrier \cup {NoCarrier},
                          to : Worker \cup {NoCarrier}]]
    /\ carrier \in [Carrier -> [count : Int, event : BOOLEAN, call : Call]]

PosterOf(p) ==
    /\ pc[p] \in PosterState
    /\ pc[p] = "idle" => lock[p] = "free" /\ op[p] = NoCall
    /\ pc[p] # "idle" => op[p].carrier \in Carrier /\ op[p].to \in Worker /\ op[p].call \in Call
    /\ pc[p] = "find" => lock[p] \in {"read", "wait to read"}
    /\ pc[p] = "found" => lock[p] = "read" /\ op[p].to \in g_map

WorkerOf(w) ==
    /\ pc[w] \in WorkerState
    /\ w \in g_map <=> pc[w] \in Registered
    /\ waits[w] => pc[w] = "wait" /\ handed[w] = NoCarrier /\ queue[w] = {}
    /\ handed[w] # NoCarrier => pc[w] = "wait"
    /\ pc[w] \in Outside => queue[w] = {}
    /\ pc[w] \in Between => current[w] = NoCarrier

\* A carrier that was not deleted is in one queue, or handed to its owner, or
\* being handled, or its poster has still to push it; one sender may wait for
\* it besides.  Its count says so.
Place == ({"queue", "handed", "current"} \X Worker) \cup ({"push"} \X Poster)

Holds(x, m) ==
    \/ x[1] = "queue" /\ m \in queue[x[2]]
    \/ x[1] = "handed" /\ handed[x[2]] = m
    \/ x[1] = "current" /\ current[x[2]] = m
    \/ x[1] = "push" /\ op[x[2]].carrier = m /\ pc[x[2]] \in Pushing

Sending(p, m) == op[p].carrier = m /\ op[p].call \in Sends

Somewhere(m) == \E x \in Place : Holds(x, m)
SomebodySends(m) == \E p \in Poster : Sending(p, m)

Ledger(m) ==
    /\ \A x, y \in Place : Holds(x, m) /\ Holds(y, m) => x = y
    /\ \A p, q \in Poster : Sending(p, m) /\ Sending(q, m) => p = q
    /\ carrier[m].count = (IF Somewhere(m) THEN 1 ELSE 0) + (IF SomebodySends(m) THEN 1 ELSE 0)

Posters == \A p \in Poster : PosterOf(p)
Workers == \A w \in Worker : WorkerOf(w)
Ledgers == \A m \in Carrier : Ledger(m)

Inv == Typed /\ MutexInv /\ Posters /\ Workers /\ Ledgers

\* What a step does to a carrier.
SamePlaces(m) == \A x \in Place : Holds(x, m)' <=> Holds(x, m)
SameSenders(m) == \A p \in Poster : Sending(p, m)' <=> Sending(p, m)
PlaceEnds(x, m) == Holds(x, m) /\ \A y \in Place : Holds(y, m)' <=> y # x /\ Holds(y, m)
SenderEnds(p, m) == Sending(p, m) /\ \A q \in Poster : Sending(q, m)' <=> q # p /\ Sending(q, m)

LEMMA LedgerSame ==
    ASSUME NEW m \in Carrier, Ledger(m), SamePlaces(m), SameSenders(m),
           carrier'[m].count = carrier[m].count
    PROVE  Ledger(m)'
<1>1. Somewhere(m)' <=> Somewhere(m)
  BY Zenon DEF Somewhere, SamePlaces
<1>2. SomebodySends(m)' <=> SomebodySends(m)
  BY Zenon DEF SomebodySends, SameSenders
<1>3. /\ \A x, y \in Place : Holds(x, m)' /\ Holds(y, m)' => x = y
      /\ \A p, q \in Poster : Sending(p, m)' /\ Sending(q, m)' => p = q
  BY Zenon DEF SamePlaces, SameSenders, Ledger
<1>4. QED
  BY <1>1, <1>2, <1>3, Zenon DEF Ledger

LEMMA LedgerMoves ==
    ASSUME NEW m \in Carrier, Ledger(m), NEW x \in Place, NEW y \in Place, Holds(x, m),
           \A z \in Place : Holds(z, m)' <=> z = y \/ (z # x /\ Holds(z, m)),
           SameSenders(m), carrier'[m].count = carrier[m].count
    PROVE  Ledger(m)'
<1>1. \A z \in Place : Holds(z, m)' <=> z = y
  BY Zenon DEF Ledger
<1>2. Somewhere(m)' /\ Somewhere(m)
  BY <1>1, Zenon DEF Somewhere
<1>3. SomebodySends(m)' <=> SomebodySends(m)
  BY Zenon DEF SomebodySends, SameSenders
<1>4. /\ \A v, z \in Place : Holds(v, m)' /\ Holds(z, m)' => v = z
      /\ \A p, q \in Poster : Sending(p, m)' /\ Sending(q, m)' => p = q
  BY <1>1, Zenon DEF SameSenders, Ledger
<1>5. QED
  BY <1>2, <1>3, <1>4, Zenon DEF Ledger

\* References are given up: of a place, of a sender, or of both.
LEMMA LedgerEnds ==
    ASSUME NEW m \in Carrier, Ledger(m), NEW n, carrier'[m].count = carrier[m].count - n,
           \/ n = 1 /\ SameSenders(m) /\ \E x \in Place : PlaceEnds(x, m)
           \/ n = 1 /\ SamePlaces(m) /\ \E p \in Poster : SenderEnds(p, m)
           \/ n = 2 /\ (\E x \in Place : PlaceEnds(x, m)) /\ \E p \in Poster : SenderEnds(p, m)
    PROVE  Ledger(m)'
<1>1. /\ \A x, y \in Place : Holds(x, m)' /\ Holds(y, m)' => x = y
      /\ \A p, q \in Poster : Sending(p, m)' /\ Sending(q, m)' => p = q
  BY Zenon DEF Ledger, SamePlaces, SameSenders, PlaceEnds, SenderEnds
<1>2. ASSUME NEW x \in Place, PlaceEnds(x, m) PROVE Somewhere(m) /\ ~Somewhere(m)'
  BY <1>2, Zenon DEF PlaceEnds, Somewhere, Ledger
<1>3. ASSUME NEW p \in Poster, SenderEnds(p, m) PROVE SomebodySends(m) /\ ~SomebodySends(m)'
  BY <1>3, Zenon DEF SenderEnds, SomebodySends, Ledger
<1>4. SamePlaces(m) => (Somewhere(m)' <=> Somewhere(m))
  BY Zenon DEF SamePlaces, Somewhere
<1>5. SameSenders(m) => (SomebodySends(m)' <=> SomebodySends(m))
  BY Zenon DEF SameSenders, SomebodySends
<1>6. \/ n = 1 /\ (SomebodySends(m)' <=> SomebodySends(m)) /\ Somewhere(m) /\ ~Somewhere(m)'
      \/ n = 1 /\ (Somewhere(m)' <=> Somewhere(m)) /\ SomebodySends(m) /\ ~SomebodySends(m)'
      \/ n = 2 /\ Somewhere(m) /\ ~Somewhere(m)' /\ SomebodySends(m) /\ ~SomebodySends(m)'
  BY <1>2, <1>3, <1>4, <1>5, Zenon
<1>7. carrier[m].count = (IF Somewhere(m) THEN 1 ELSE 0) + (IF SomebodySends(m) THEN 1 ELSE 0)
  BY DEF Ledger
<1>8. carrier'[m].count = (IF Somewhere(m)' THEN 1 ELSE 0) + (IF SomebodySends(m)' THEN 1 ELSE 0)
  BY <1>6, <1>7
<1>9. QED
  BY <1>1, <1>8, Zenon DEF Ledger

\* A new carrier: nobody had the old one at its place.
LEMMA LedgerBegins ==
    ASSUME NEW m \in Carrier, Ledger(m), carrier[m].count = 0, NEW p \in Poster,
           NEW sends \in BOOLEAN, carrier'[m].count = IF sends THEN 2 ELSE 1,
           \A x \in Place : Holds(x, m)' <=> x = <<"push", p>> \/ Holds(x, m),
           \A q \in Poster : Sending(q, m)' <=> (q = p /\ sends) \/ (q # p /\ Sending(q, m))
    PROVE  Ledger(m)'
<1>1. ~Somewhere(m) /\ ~SomebodySends(m)
  BY DEF Ledger
<1>2. <<"push", p>> \in Place
  BY DEF Place
<1>3. \A x \in Place : Holds(x, m)' <=> x = <<"push", p>>
  BY <1>1, Zenon DEF Somewhere
<1>4. \A q \in Poster : Sending(q, m)' <=> q = p /\ sends
  BY <1>1, Zenon DEF SomebodySends
<1>5. Somewhere(m)' /\ (SomebodySends(m)' <=> sends)
  BY <1>2, <1>3, <1>4, Zenon DEF Somewhere, SomebodySends
<1>6. /\ \A x, y \in Place : Holds(x, m)' /\ Holds(y, m)' => x = y
      /\ \A q, r \in Poster : Sending(q, m)' /\ Sending(r, m)' => q = r
  BY <1>3, <1>4, Zenon
<1>7. carrier'[m].count = (IF Somewhere(m)' THEN 1 ELSE 0) + (IF SomebodySends(m)' THEN 1 ELSE 0)
  BY <1>5
<1>8. QED
  BY <1>6, <1>7, Zenon DEF Ledger

(***************************************************************************)
(* What the steps of a worker do, whatever it is about.                    *)
(***************************************************************************)

\* A step from one state of a worker to another that leaves it registered or
\* not, as it was.
Passes(w, from, to) ==
    /\ from \in WorkerState /\ to \in WorkerState /\ from # "wait"
    /\ from \in Registered <=> to \in Registered
    /\ pc[w] = from /\ pc' = [pc EXCEPT ![w] = to]

Goes(w, from, to) ==
    /\ Passes(w, from, to)
    /\ to \in Outside => from \in Outside \/ queue[w] = {}
    /\ to \in Between => from \in Between \/ current[w] = NoCarrier
    /\ UNCHANGED <<queues, op, carrier>>

Sets(w, from, to) ==
    /\ Passes(w, from, to) /\ to \notin Outside \cup Between
    /\ current[w] # NoCarrier
    /\ carrier' = [carrier EXCEPT ![current[w]].event = TRUE]
    /\ UNCHANGED <<queues, op>>

Releases(w, from, to) ==
    /\ Passes(w, from, to) /\ to \notin Outside
    /\ current[w] # NoCarrier
    /\ carrier' = Released(current[w], 1) /\ current' = [current EXCEPT ![w] = NoCarrier]
    /\ UNCHANGED <<g_map, queue, waits, handed, op>>

Takes(w, m, from, to) ==
    /\ Passes(w, from, to) /\ from \in {"dequeue", "drain"} /\ to \notin Outside \cup Between
    /\ m \in queue[w] /\ queue' = [queue EXCEPT ![w] = @ \ {m}]
    /\ current' = [current EXCEPT ![w] = m]
    /\ UNCHANGED <<g_map, waits, handed, op, carrier>>

Stands(w) == UNCHANGED <<pc, queues, op, carrier>>

WorkerDoes(w) ==
    \/ Stands(w)
    \/ \E from, to : Goes(w, from, to) \/ Sets(w, from, to) \/ Releases(w, from, to)
    \/ \E m \in Carrier : \E from, to : Takes(w, m, from, to)
    \/ Register(w) \/ Remove(w) \/ Wait(w) \/ Woken(w)

LEMMA ReplyDoes ==
    ASSUME NEW w \in Worker,
           \/ Reply(w, "get", "get, set", "dequeue")
           \/ Reply(w, "end", "end, set", "existed")
           \/ Reply(w, "drain, reply", "drain, set", "drain")
    PROVE  WorkerDoes(w) /\ UNCHANGED mutex
<1>1. ASSUME NEW from, NEW set, NEW to, Reply(w, from, set, to),
             Goes(w, from, to) \/ current[w] # NoCarrier,
             \A a \in {from, set} : a \in WorkerState /\ a # "wait" /\ a \notin Outside,
             set \notin Between, to \in WorkerState /\ to \notin Outside,
             from \in Registered <=> to \in Registered, set \in Registered <=> to \in Registered
      PROVE  WorkerDoes(w) /\ UNCHANGED mutex
  <2>1. CASE SetEvent(w, from, set)
    <3>1. Sets(w, from, set)
      BY <1>1, <2>1, Zenon DEF SetEvent, At, Synchronous, Sets, Passes
    <3>2. QED
      BY <2>1, <3>1, Zenon DEF SetEvent, WorkerDoes
  <2>2. ASSUME NEW a \in {from, set}, ReleaseCurrent(w, a, to)
        PROVE  WorkerDoes(w) /\ UNCHANGED mutex
    <3>1. a \in WorkerState /\ a # "wait" /\ (a \in Registered <=> to \in Registered)
      BY <1>1
    <3>2. Releases(w, a, to)
      BY <1>1, <2>2, <3>1, Zenon DEF ReleaseCurrent, At, Releases, Passes
    <3>3. QED
      BY <2>2, <3>2, Zenon DEF ReleaseCurrent, WorkerDoes
  <2>3. CASE NothingToReply(w, from, to)
    <3>1. Goes(w, from, to)
      BY <1>1, <2>3 DEF NothingToReply
    <3>2. QED
      BY <2>3, <3>1, Zenon DEF NothingToReply, WorkerDoes
  <2>4. QED
    BY <1>1, <2>1, <2>2, <2>3 DEF Reply
<1>2. ASSUME NEW from, NEW set, NEW to, Reply(w, from, set, to), from \in WorkerState,
             to \in WorkerState, from # "wait", to \notin Outside,
             from \in Registered <=> to \in Registered
      PROVE  Goes(w, from, to) \/ current[w] # NoCarrier
  <2>1. CASE NothingToReply(w, from, to)
    BY <1>2, <2>1, Zenon DEF NothingToReply, At, Goes, Passes
  <2>2. CASE ~ NothingToReply(w, from, to)
    BY <1>2, <2>2, Zenon DEF Reply, SetEvent, ReleaseCurrent, Synchronous
  <2>3. QED
    BY <2>1, <2>2
<1>3. CASE Reply(w, "get", "get, set", "dequeue")
  <2>1. /\ \A a \in {"get", "get, set"} : a \in WorkerState /\ a # "wait" /\ a \notin Outside
        /\ "get, set" \notin Between /\ "dequeue" \in WorkerState /\ "dequeue" \notin Outside
        /\ "get" \in Registered <=> "dequeue" \in Registered
        /\ "get, set" \in Registered <=> "dequeue" \in Registered
    BY DEF WorkerState, Registered, Outside, Draining, Between
  <2>2. Goes(w, "get", "dequeue") \/ current[w] # NoCarrier
    BY <1>2, <1>3, <2>1
  <2>3. QED
    BY <1>1, <1>3, <2>1, <2>2
<1>4. CASE Reply(w, "end", "end, set", "existed")
  <2>1. /\ \A a \in {"end", "end, set"} : a \in WorkerState /\ a # "wait" /\ a \notin Outside
        /\ "end, set" \notin Between /\ "existed" \in WorkerState /\ "existed" \notin Outside
        /\ "end" \in Registered <=> "existed" \in Registered
        /\ "end, set" \in Registered <=> "existed" \in Registered
    BY DEF WorkerState, Registered, Outside, Draining, Between
  <2>2. Goes(w, "end", "existed") \/ current[w] # NoCarrier
    BY <1>2, <1>4, <2>1
  <2>3. QED
    BY <1>1, <1>4, <2>1, <2>2
<1>5. CASE Reply(w, "drain, reply", "drain, set", "drain")
  <2>1. /\ \A a \in {"drain, reply", "drain, set"} : a \in WorkerState /\ a # "wait" /\ a \notin Outside
        /\ "drain, set" \notin Between /\ "drain" \in WorkerState /\ "drain" \notin Outside
        /\ "drain, reply" \in Registered <=> "drain" \in Registered
        /\ "drain, set" \in Registered <=> "drain" \in Registered
    BY DEF WorkerState, Registered, Outside, Draining, Between
  <2>2. Goes(w, "drain, reply", "drain") \/ current[w] # NoCarrier
    BY <1>2, <1>5, <2>1
  <2>3. QED
    BY <1>1, <1>5, <2>1, <2>2
<1>6. QED
  BY <1>3, <1>4, <1>5

LEMMA WorkerCases ==
    ASSUME NEW w \in Worker, ContextBegins(w) \/ WorkerStep(w)
    PROVE  /\ WorkerDoes(w)
           /\ WaitToRead(w) \/ WaitToWrite(w) \/ Done(w) \/ UNCHANGED mutex
<1>1. ASSUME NEW from, NEW to, pc[w] = from, pc' = [pc EXCEPT ![w] = to],
             UNCHANGED <<queues, op, carrier>>,
             <<from, to>> \in {<<"off", "constructor">>, <<"existed", "leaving">>,
                               <<"constructor", "register">>, <<"leaving", "remove">>,
                               <<"handle", "get">>, <<"handle", "end">>, <<"drain", "off">>},
             to = "off" => queue[w] = {}
      PROVE  WorkerDoes(w)
  <2>1. /\ from \in WorkerState /\ to \in WorkerState /\ from # "wait"
        /\ from \in Registered <=> to \in Registered
        /\ to \in Outside => from \in Outside \/ to = "off"
        /\ to \in Between => from \in Between
    BY <1>1 DEF WorkerState, Registered, Outside, Draining, Between
  <2>2. Goes(w, from, to)
    BY <1>1, <2>1, Zenon DEF Goes, Passes
  <2>3. QED
    BY <2>2, Zenon DEF WorkerDoes
<1>2. ASSUME NEW from, NEW to, Exists(w, from, to),
             <<from, to>> \in {<<"off", "constructor">>, <<"existed", "leaving">>}
      PROVE  WorkerDoes(w) /\ WaitToRead(w)
  <2>1. pc[w] = from /\ pc' = [pc EXCEPT ![w] = to] /\ UNCHANGED <<queues, op, carrier>> /\ WaitToRead(w)
    BY <1>2, Zenon DEF Exists, At
  <2>2. to # "off"
    BY <1>2
  <2>3. QED
    BY <1>1, <1>2, <2>1, <2>2
<1>3. ASSUME NEW from, NEW to, ToWrite(w, from, to),
             <<from, to>> \in {<<"constructor", "register">>, <<"leaving", "remove">>}
      PROVE  WorkerDoes(w) /\ WaitToWrite(w)
  <2>1. pc[w] = from /\ pc' = [pc EXCEPT ![w] = to] /\ UNCHANGED <<queues, op, carrier>> /\ WaitToWrite(w)
    BY <1>3, Zenon DEF ToWrite, At
  <2>2. to # "off"
    BY <1>3
  <2>3. QED
    BY <1>1, <1>3, <2>1, <2>2
<1>4. ASSUME NEW from, Existed(w, from) PROVE WorkerDoes(w) /\ Done(w)
  BY <1>4, Zenon DEF Existed, WorkerDoes, Stands
<1>5. ASSUME WriteEnds(w) PROVE WorkerDoes(w) /\ Done(w)
  BY <1>5, Zenon DEF WriteEnds, WorkerDoes, Stands
<1>6. ASSUME NEW m \in Carrier, NEW from, NEW to, Dequeue(w, m, from, to),
             <<from, to>> \in {<<"dequeue", "handle">>, <<"drain", "drain, reply">>}
      PROVE  WorkerDoes(w) /\ UNCHANGED mutex
  <2>1. /\ from \in WorkerState /\ to \in WorkerState /\ from # "wait"
        /\ from \in Registered <=> to \in Registered
        /\ from \in {"dequeue", "drain"} /\ to \notin Outside \cup Between
    BY <1>6 DEF WorkerState, Registered, Outside, Draining, Between
  <2>2. Takes(w, m, from, to)
    BY <1>6, <2>1, Zenon DEF Dequeue, At, Takes, Passes
  <2>3. QED
    BY <1>6, <2>2, Zenon DEF Dequeue, WorkerDoes
<1>7. ASSUME NEW next \in {"get", "end"}, Handled(w, next) PROVE WorkerDoes(w) /\ UNCHANGED mutex
  <2>1. /\ pc[w] = "handle" /\ pc' = [pc EXCEPT ![w] = next] /\ UNCHANGED <<queues, op, carrier>>
        /\ UNCHANGED mutex
    BY <1>7, Zenon DEF Handled, At
  <2>2. QED
    BY <1>1, <2>1
<1>8. ASSUME Drained(w) PROVE WorkerDoes(w) /\ UNCHANGED mutex
  <2>1. /\ pc[w] = "drain" /\ pc' = [pc EXCEPT ![w] = "off"] /\ UNCHANGED <<queues, op, carrier>>
        /\ queue[w] = {} /\ UNCHANGED mutex
    BY <1>8, Zenon DEF Drained, At
  <2>2. QED
    BY <1>1, <2>1
<1>9. ASSUME Register(w) \/ Remove(w) \/ Wait(w) \/ Woken(w) PROVE WorkerDoes(w) /\ UNCHANGED mutex
  BY <1>9, Zenon DEF WorkerDoes, Register, Remove, Wait, Woken
<1>10. CASE ContextBegins(w)
  BY <1>2, <1>10 DEF ContextBegins
<1>11. CASE Constructor(w)
  BY <1>3, <1>4, <1>9, <1>11 DEF Constructor
<1>12. CASE GetMessage(w)
  BY <1>6, <1>7, <1>9, <1>12, ReplyDoes DEF GetMessage
<1>13. CASE Destructor(w)
  BY <1>2, <1>3, <1>4, <1>6, <1>8, <1>9, <1>13, ReplyDoes DEF Destructor, ToRemove
<1>14. QED
  BY <1>5, <1>10, <1>11, <1>12, <1>13 DEF WorkerStep

(***************************************************************************)
(* What the steps of a poster do.                                          *)
(***************************************************************************)

Starts(p, call, m, w) ==
    /\ pc[p] = "idle" /\ pc' = [pc EXCEPT ![p] = "find"] /\ carrier[m].count = 0
    /\ op' = [op EXCEPT ![p] = [call |-> call, carrier |-> m, to |-> w]]
    /\ carrier' = [carrier EXCEPT ![m] =
           [Deleted EXCEPT !.count = IF call \in Sends THEN 2 ELSE 1, !.call = call]]
    /\ WaitToRead(p) /\ UNCHANGED queues

LEMMA BeginStarts ==
    ASSUME NEW p, Begin(p)
    PROVE  \E call \in Call, w \in Worker, m \in Carrier : Starts(p, call, m, w)
<1> DEFINE free == {m \in Carrier : carrier[m].count = 0}
           m == CHOOSE c \in free : TRUE
<1>1. PICK call \in Call, w \in Worker :
         /\ free # {}
         /\ op' = [op EXCEPT ![p] = [call |-> call, carrier |-> m, to |-> w]]
         /\ carrier' = [carrier EXCEPT ![m] =
                [Deleted EXCEPT !.count = IF call \in Sends THEN 2 ELSE 1, !.call = call]]
  BY Zenon DEF Begin
<1>2. m \in free
  BY <1>1, Zenon
<1>3. m \in Carrier /\ carrier[m].count = 0
  BY <1>2
<1> HIDE DEF m
<1>4. Starts(p, call, m, w)
  BY <1>1, <1>3, Zenon DEF Begin, At, Starts
<1>5. QED
  BY <1>3, <1>4

LEMMA ThreadsOfTwoKinds ==
    /\ Worker \subseteq Thread /\ Poster \subseteq Thread
    /\ \A w \in Worker : w \notin Poster
BY MessagesAssumption

LEMMA PcMoves ==
    ASSUME Typed, NEW t \in Thread, NEW to, pc' = [pc EXCEPT ![t] = to]
    PROVE  \A u \in Thread : pc'[u] = IF u = t THEN to ELSE pc[u]
BY DEF Typed

LEMMA StepOnMutex ==
    ASSUME [Next]_vars
    PROVE  [MutexNext]_mutex
<1>1. CASE UNCHANGED vars
  BY <1>1 DEF vars
<1>2. ASSUME NEW p \in Poster, Begin(p) PROVE MutexNext
  BY <1>2, ThreadsOfTwoKinds DEF Begin, MutexNext
<1>3. ASSUME NEW p \in Poster, PosterStep(p) PROVE [MutexNext]_mutex
  <2>1. Done(p) \/ UNCHANGED mutex
    BY <1>3, Zenon DEF PosterStep, Find, Enqueue, PushEnds, Refused, Posted, Answered
  <2>2. QED
    BY <2>1, ThreadsOfTwoKinds DEF MutexNext
<1>4. ASSUME NEW w \in Worker, ContextBegins(w) \/ WorkerStep(w) PROVE [MutexNext]_mutex
  BY <1>4, WorkerCases, ThreadsOfTwoKinds DEF MutexNext
<1>5. ASSUME NEW t \in Thread, InMutex(t) PROVE MutexNext
  BY <1>5 DEF InMutex, MutexNext
<1>6. QED
  BY <1>1, <1>2, <1>3, <1>4, <1>5 DEF Next

LEMMA LockOfOthers ==
    ASSUME MutexOK, NEW t \in Thread,
           WaitToRead(t) \/ WaitToWrite(t) \/ Done(t) \/ MutexStep(t) \/ UNCHANGED mutex
    PROVE  \A u \in Thread : u # t => lock'[u] = lock[u]
<1>1. lock \in [Thread -> LockState]
  BY Zenon DEF MutexOK, LockState
<1>2. lock' = lock \/ \E to : lock' = [lock EXCEPT ![t] = to]
  <2>1. CASE UNCHANGED mutex
    BY <2>1 DEF mutex
  <2>2. CASE WaitToRead(t)
    BY <2>2, Zenon DEF WaitToRead, Moves
  <2>3. CASE WaitToWrite(t)
    BY <2>3, Zenon DEF WaitToWrite, Moves
  <2>4. CASE Done(t)
    BY <2>4, Zenon DEF Done, DoneAlone, DoneToWriter, DoneToReaders
  <2>5. CASE MutexStep(t)
    BY <2>5, Zenon DEF MutexStep, AcquireRead, AcquireWrite, Signal, Moves
  <2>6. QED
    BY <2>1, <2>2, <2>3, <2>4, <2>5
<1>3. QED
  BY <1>1, <1>2

\* The types.
LEMMA CountDown ==
    ASSUME carrier \in [Carrier -> [count : Int, event : BOOLEAN, call : Call]],
           NEW m \in Carrier, NEW n \in Int, carrier' = Released(m, n)
    PROVE  /\ carrier' \in [Carrier -> [count : Int, event : BOOLEAN, call : Call]]
           /\ \A c \in Carrier : carrier'[c].count =
                                    IF c = m THEN carrier[m].count - n ELSE carrier[c].count
<1>1. carrier' = [carrier EXCEPT ![m] = [carrier[m] EXCEPT !.count = carrier[m].count - n]]
  BY Zenon DEF Released
<1> DEFINE new == [carrier[m] EXCEPT !.count = carrier[m].count - n]
<1>2. /\ new \in [count : Int, event : BOOLEAN, call : Call]
      /\ new.count = carrier[m].count - n
  <2>1. carrier[m].count \in Int
    OBVIOUS
  <2>2. carrier[m].count - n \in Int
    BY <2>1
  <2>3. QED
    BY <2>2
<1> HIDE DEF new
<1>3. carrier' \in [Carrier -> [count : Int, event : BOOLEAN, call : Call]]
  BY <1>1, <1>2 DEF new
<1>4. \A c \in Carrier : carrier'[c] = IF c = m THEN new ELSE carrier[c]
  BY <1>1 DEF new
<1>5. QED
  BY <1>2, <1>3, <1>4

LEMMA EventSet ==
    ASSUME carrier \in [Carrier -> [count : Int, event : BOOLEAN, call : Call]],
           NEW m \in Carrier, carrier' = [carrier EXCEPT ![m].event = TRUE]
    PROVE  /\ carrier' \in [Carrier -> [count : Int, event : BOOLEAN, call : Call]]
           /\ \A c \in Carrier : carrier'[c].count = carrier[c].count
<1>1. carrier' = [carrier EXCEPT ![m] = [carrier[m] EXCEPT !.event = TRUE]]
  BY Zenon
<1> DEFINE new == [carrier[m] EXCEPT !.event = TRUE]
<1>2. /\ new \in [count : Int, event : BOOLEAN, call : Call]
      /\ new.count = carrier[m].count
  OBVIOUS
<1> HIDE DEF new
<1>3. carrier' \in [Carrier -> [count : Int, event : BOOLEAN, call : Call]]
  BY <1>1, <1>2 DEF new
<1>4. \A c \in Carrier : carrier'[c] = IF c = m THEN new ELSE carrier[c]
  BY <1>1 DEF new
<1>5. QED
  BY <1>2, <1>4

LEMMA NewCarrier ==
    ASSUME Typed, NEW p \in Poster, NEW call \in Call, NEW m \in Carrier, NEW w \in Worker,
           Starts(p, call, m, w)
    PROVE  /\ carrier' \in [Carrier -> [count : Int, event : BOOLEAN, call : Call]]
           /\ \A c \in Carrier : carrier'[c].count =
                  IF c = m THEN (IF call \in Sends THEN 2 ELSE 1) ELSE carrier[c].count
<1> DEFINE n == IF call \in Sends THEN 2 ELSE 1
           new == [Deleted EXCEPT !.count = n, !.call = call]
<1>1. carrier' = [carrier EXCEPT ![m] = new]
  BY Zenon DEF Starts
<1>2. new \in [count : Int, event : BOOLEAN, call : Call] /\ new.count = n
  <2>1. n \in Int
    OBVIOUS
  <2> HIDE DEF n
  <2>2. Deleted \in [count : Int, event : BOOLEAN, call : Call]
    <3>1. PICK unset \in BOOLEAN : unset = FALSE
      OBVIOUS
    <3>2. Deleted = [count |-> 0, event |-> unset, call |-> "post"]
      BY <3>1, Zenon DEF Deleted
    <3>3. "post" \in Call
      BY DEF Call
    <3>4. QED
      BY <3>2, <3>3
  <2> DEFINE counted == [Deleted EXCEPT !.count = n]
  <2>3. counted \in [count : Int, event : BOOLEAN, call : Call] /\ counted.count = n
    BY <2>1, <2>2
  <2>4. new = [counted EXCEPT !.call = call]
    BY Zenon
  <2> HIDE DEF counted, new
  <2>5. QED
    BY <2>3, <2>4
<1> HIDE DEF new
<1>3. carrier \in [Carrier -> [count : Int, event : BOOLEAN, call : Call]]
  BY Zenon DEF Typed
<1>4. carrier' \in [Carrier -> [count : Int, event : BOOLEAN, call : Call]]
  BY <1>1, <1>2, <1>3
<1>5. \A c \in Carrier : carrier'[c] = IF c = m THEN new ELSE carrier[c]
  BY <1>1, <1>3
<1>6. QED
  BY <1>2, <1>4, <1>5

\* The parts of a type that a step leaves alone.
LEMMA QueuesTyped ==
    ASSUME Typed, UNCHANGED queues
    PROVE  /\ g_map' \subseteq Worker /\ queue' \in [Worker -> SUBSET Carrier]
           /\ waits' \in [Worker -> BOOLEAN]
           /\ handed' \in [Worker -> Carrier \cup {NoCarrier}]
           /\ current' \in [Worker -> Carrier \cup {NoCarrier}]
BY Zenon DEF Typed, queues

LEMMA PcTyped ==
    ASSUME Typed, NEW t \in Thread, NEW to \in PosterState \cup WorkerState,
           pc' = [pc EXCEPT ![t] = to]
    PROVE  pc' \in [Thread -> PosterState \cup WorkerState]
<1>1. pc \in [Thread -> PosterState \cup WorkerState]
  BY Zenon DEF Typed
<1>2. QED
  BY <1>1

LEMMA OpTyped ==
    ASSUME Typed, NEW p \in Poster, NEW o, op' = [op EXCEPT ![p] = o],
           o \in [call : Call \cup {"none"}, carrier : Carrier \cup {NoCarrier},
                  to : Worker \cup {NoCarrier}]
    PROVE  /\ op' \in [Poster -> [call : Call \cup {"none"}, carrier : Carrier \cup {NoCarrier},
                                  to : Worker \cup {NoCarrier}]]
           /\ \A q \in Poster : op'[q] = IF q = p THEN o ELSE op[q]
<1>1. op \in [Poster -> [call : Call \cup {"none"}, carrier : Carrier \cup {NoCarrier},
                         to : Worker \cup {NoCarrier}]]
  BY Zenon DEF Typed
<1>2. QED
  BY <1>1

LEMMA ForgetTyped ==
    ASSUME Typed, NEW p \in Poster, Forget(p)
    PROVE  /\ op' \in [Poster -> [call : Call \cup {"none"}, carrier : Carrier \cup {NoCarrier},
                                  to : Worker \cup {NoCarrier}]]
           /\ \A q \in Poster : op'[q] = IF q = p THEN NoCall ELSE op[q]
<1>1. NoCall \in [call : Call \cup {"none"}, carrier : Carrier \cup {NoCarrier},
                  to : Worker \cup {NoCarrier}]
  BY DEF NoCall
<1>2. op' = [op EXCEPT ![p] = NoCall]
  BY DEF Forget
<1> HIDE DEF NoCall
<1>3. QED
  BY <1>1, <1>2, OpTyped

LEMMA WorkerTyped ==
    ASSUME Typed, NEW w \in Worker, WorkerDoes(w)
    PROVE  Typed'
<1> DEFINE Carriers == [Carrier -> [count : Int, event : BOOLEAN, call : Call]]
           Ops == [Poster -> [call : Call \cup {"none"}, carrier : Carrier \cup {NoCarrier},
                              to : Worker \cup {NoCarrier}]]
           Optional == [Worker -> Carrier \cup {NoCarrier}]
<1>1. /\ g_map \subseteq Worker /\ queue \in [Worker -> SUBSET Carrier]
      /\ waits \in [Worker -> BOOLEAN] /\ handed \in Optional /\ current \in Optional
      /\ op \in Ops /\ carrier \in Carriers /\ pc \in [Thread -> PosterState \cup WorkerState]
  BY Zenon DEF Typed
<1>2. current[w] \in Carrier \cup {NoCarrier} /\ handed[w] \in Carrier \cup {NoCarrier}
  BY <1>1
<1>3. \A m \in Carrier \cup {NoCarrier} :
         [current EXCEPT ![w] = m] \in Optional /\ [handed EXCEPT ![w] = m] \in Optional
  BY <1>1
<1> HIDE DEF Carriers, Ops, Optional
<1>4. ASSUME pc' \in [Thread -> PosterState \cup WorkerState],
             g_map' \subseteq Worker /\ queue' \in [Worker -> SUBSET Carrier],
             waits' \in [Worker -> BOOLEAN] /\ handed' \in Optional /\ current' \in Optional,
             op' \in Ops /\ carrier' \in Carriers
      PROVE  Typed'
  BY <1>4, Zenon DEF Typed, Optional, Ops, Carriers
<1>5. ASSUME NEW from, NEW to, Passes(w, from, to)
      PROVE  pc' \in [Thread -> PosterState \cup WorkerState]
  BY <1>5, PcTyped, ThreadsOfTwoKinds DEF Passes
<1>6. CASE Stands(w)
  BY <1>1, <1>4, <1>6, Zenon DEF Stands, queues
<1>7. ASSUME NEW from, NEW to, Goes(w, from, to) PROVE Typed'
  BY <1>1, <1>4, <1>5, <1>7, Zenon DEF Goes, queues
<1>8. ASSUME NEW from, NEW to, Sets(w, from, to) PROVE Typed'
  <2>1. current[w] \in Carrier
    BY <1>2, <1>8 DEF Sets
  <2>2. carrier' \in Carriers
    BY <1>1, <1>8, <2>1, EventSet DEF Sets, Carriers
  <2>3. QED
    BY <1>1, <1>4, <1>5, <1>8, <2>2, Zenon DEF Sets, queues
<1>9. ASSUME NEW from, NEW to, Releases(w, from, to) PROVE Typed'
  <2>1. current[w] \in Carrier
    BY <1>2, <1>9 DEF Releases
  <2>2. carrier' = Released(current[w], 1)
    BY <1>9 DEF Releases
  <2>3. carrier' \in Carriers
    BY <1>1, <2>1, <2>2, CountDown DEF Carriers
  <2>4. current' \in Optional
    BY <1>3, <1>9, Zenon DEF Releases
  <2>5. QED
    BY <1>1, <1>4, <1>5, <1>9, <2>3, <2>4, Zenon DEF Releases
<1>10. ASSUME NEW m \in Carrier, NEW from, NEW to, Takes(w, m, from, to) PROVE Typed'
  <2>1. queue' \in [Worker -> SUBSET Carrier]
    <3>1. queue' = [queue EXCEPT ![w] = queue[w] \ {m}]
      BY <1>10, Zenon DEF Takes
    <3>2. QED
      BY <1>1, <3>1
  <2>2. current' \in Optional
    BY <1>3, <1>10, Zenon DEF Takes
  <2>3. QED
    BY <1>1, <1>4, <1>5, <1>10, <2>1, <2>2, Zenon DEF Takes
<1>11. CASE Register(w) \/ Remove(w)
  <2>1. g_map' \subseteq Worker
    BY <1>1, <1>11 DEF Register, Remove
  <2>2. \E to \in {"get", "drain"} : pc' = [pc EXCEPT ![w] = to]
    BY <1>11, Zenon DEF Register, Remove, Holding
  <2>3. pc' \in [Thread -> PosterState \cup WorkerState]
    BY <2>2, PcTyped, ThreadsOfTwoKinds DEF WorkerState, Registered, Draining
  <2>4. UNCHANGED <<queue, waits, handed, current, op, carrier>>
    BY <1>11, Zenon DEF Register, Remove
  <2>5. QED
    BY <1>1, <1>4, <2>1, <2>3, <2>4, Zenon
<1>12. CASE Wait(w)
  <2>1. pc' = [pc EXCEPT ![w] = "wait"]
    BY <1>12, Zenon DEF Wait, At
  <2>2. pc' \in [Thread -> PosterState \cup WorkerState]
    BY <2>1, PcTyped, ThreadsOfTwoKinds DEF WorkerState, Registered
  <2>3. waits' \in [Worker -> BOOLEAN]
    BY <1>1, <1>12 DEF Wait
  <2>4. QED
    BY <1>1, <1>4, <1>12, <2>2, <2>3, Zenon DEF Wait
<1>13. CASE Woken(w)
  <2>1. pc' = [pc EXCEPT ![w] = "handle"]
    BY <1>13, Zenon DEF Woken, At
  <2>2. pc' \in [Thread -> PosterState \cup WorkerState]
    BY <2>1, PcTyped, ThreadsOfTwoKinds DEF WorkerState, Registered
  <2>3. current' \in Optional /\ handed' \in Optional
    BY <1>2, <1>3, <1>13, NoCarrier \in Carrier \cup {NoCarrier}, Zenon DEF Woken
  <2>4. QED
    BY <1>1, <1>4, <1>13, <2>2, <2>3, Zenon DEF Woken
<1>14. QED
  BY <1>6, <1>7, <1>8, <1>9, <1>10, <1>11, <1>12, <1>13 DEF WorkerDoes

LEMMA PosterTyped ==
    ASSUME Typed, NEW p \in Poster, PosterOf(p), Begin(p) \/ PosterStep(p)
    PROVE  Typed'
<1> DEFINE Carriers == [Carrier -> [count : Int, event : BOOLEAN, call : Call]]
           Ops == [Poster -> [call : Call \cup {"none"}, carrier : Carrier \cup {NoCarrier},
                              to : Worker \cup {NoCarrier}]]
<1>1. op \in Ops /\ carrier \in Carriers /\ pc \in [Thread -> PosterState \cup WorkerState]
  BY Zenon DEF Typed
<1>2. ASSUME UNCHANGED queues, op' \in Ops, carrier' \in Carriers,
             pc' \in [Thread -> PosterState \cup WorkerState]
      PROVE  Typed'
  BY <1>2, QueuesTyped, Zenon DEF Typed
<1>3. ASSUME NEW to \in PosterState, pc' = [pc EXCEPT ![p] = to]
      PROVE  pc' \in [Thread -> PosterState \cup WorkerState]
  BY <1>3, PcTyped, ThreadsOfTwoKinds
<1>4. Forget(p) => op' \in Ops
  BY ForgetTyped
<1>5. pc[p] # "idle" => op[p].carrier \in Carrier /\ op[p].to \in Worker
  BY DEF PosterOf
<1> HIDE DEF Ops, Carriers
<1>6. ASSUME NEW call \in Call, NEW w \in Worker, NEW m \in Carrier, Starts(p, call, m, w)
      PROVE  Typed'
  <2>1. carrier' \in Carriers
    BY <1>6, NewCarrier DEF Carriers
  <2>2. op' \in Ops
    <3> DEFINE o == [call |-> call, carrier |-> m, to |-> w]
    <3>1. o \in [call : Call \cup {"none"}, carrier : Carrier \cup {NoCarrier},
                 to : Worker \cup {NoCarrier}]
      OBVIOUS
    <3>2. op' = [op EXCEPT ![p] = o]
      BY <1>6, Zenon DEF Starts
    <3> HIDE DEF o
    <3>3. QED
      BY <3>1, <3>2, OpTyped DEF Ops
  <2>3. pc' = [pc EXCEPT ![p] = "find"] /\ UNCHANGED queues
    BY <1>6, Zenon DEF Starts
  <2>4. QED
    BY <1>2, <1>3, <2>1, <2>2, <2>3 DEF PosterState
<1>7. CASE Find(p)
  <2>1. /\ \E to \in {"found", "refused"} : pc' = [pc EXCEPT ![p] = to]
        /\ UNCHANGED <<queues, op, carrier>>
    BY <1>7, Zenon DEF Find, Holding
  <2>2. QED
    BY <1>1, <1>2, <1>3, <2>1 DEF PosterState
<1>8. CASE Enqueue(p)
  <2> DEFINE w == op[p].to
             m == op[p].carrier
  <2>1. pc[p] = "found" /\ pc' = [pc EXCEPT ![p] = "pushed"] /\ UNCHANGED <<g_map, current, op, carrier>>
    BY <1>8, Zenon DEF Enqueue, Holding
  <2>2. \/ /\ handed' = [handed EXCEPT ![w] = m] /\ waits' = [waits EXCEPT ![w] = FALSE]
           /\ queue' = queue
        \/ /\ queue' = [queue EXCEPT ![w] = queue[w] \cup {m}]
           /\ handed' = handed /\ waits' = waits
    BY <1>8, Zenon DEF Enqueue
  <2>3. w \in Worker /\ m \in Carrier
    BY <1>5, <2>1
  <2> HIDE DEF w, m
  <2>4. queue \in [Worker -> SUBSET Carrier] /\ handed \in [Worker -> Carrier \cup {NoCarrier}]
    BY Zenon DEF Typed
  <2>5. waits \in [Worker -> BOOLEAN]
    BY Zenon DEF Typed
  <2>6. queue' \in [Worker -> SUBSET Carrier] /\ handed' \in [Worker -> Carrier \cup {NoCarrier}]
    BY <2>2, <2>3, <2>4
  <2>7. waits' \in [Worker -> BOOLEAN]
    BY <2>2, <2>3, <2>5
  <2>8. pc' \in [Thread -> PosterState \cup WorkerState]
    BY <1>3, <2>1 DEF PosterState
  <2>9. QED
    BY <2>1, <2>6, <2>7, <2>8, Zenon DEF Typed
<1>9. CASE PushEnds(p)
  BY <1>1, <1>2, <1>9 DEF PushEnds
<1>10. CASE Refused(p)
  <2>1. PICK n \in {1, 2} : carrier' = Released(op[p].carrier, n)
    BY <1>10, Zenon DEF Refused
  <2>2. /\ pc[p] = "refused" /\ pc' = [pc EXCEPT ![p] = "idle"] /\ Forget(p)
        /\ UNCHANGED queues
    BY <1>10, Zenon DEF Refused, At
  <2>3. carrier' \in Carriers
    BY <1>1, <1>5, <2>1, <2>2, CountDown DEF Carriers
  <2>4. QED
    BY <1>2, <1>3, <1>4, <2>2, <2>3 DEF PosterState
<1>11. CASE Posted(p)
  <2>1. pc' = [pc EXCEPT ![p] = "idle"] /\ Forget(p) /\ UNCHANGED queues /\ UNCHANGED carrier
    BY <1>11, Zenon DEF Posted, At
  <2>2. QED
    BY <1>1, <1>2, <1>3, <1>4, <2>1 DEF PosterState
<1>12. CASE Answered(p)
  <2>1. /\ carrier' = Released(op[p].carrier, 1) /\ pc[p] = "pushed"
        /\ pc' = [pc EXCEPT ![p] = "idle"] /\ Forget(p) /\ UNCHANGED queues
    BY <1>12, Zenon DEF Answered, At
  <2>2. carrier' \in Carriers
    BY <1>1, <1>5, <2>1, CountDown DEF Carriers
  <2>3. QED
    BY <1>2, <1>3, <1>4, <2>1, <2>2 DEF PosterState
<1>13. QED
  BY <1>6, <1>7, <1>8, <1>9, <1>10, <1>11, <1>12, BeginStarts DEF PosterStep

(***************************************************************************)
(* Every poster, every worker.                                             *)
(***************************************************************************)

LEMMA PosterBystander ==
    ASSUME NEW q \in Poster, PosterOf(q), pc'[q] = pc[q], lock'[q] = lock[q], op'[q] = op[q],
           pc[q] = "found" /\ op[q].to \in g_map => op[q].to \in g_map'
    PROVE  PosterOf(q)'
BY Zenon DEF PosterOf

LEMMA PostersKept ==
    ASSUME Inv, [Next]_vars
    PROVE  Posters'
<1>0. Typed /\ MutexInv /\ MutexOK /\ Posters
  BY DEF Inv, MutexInv
<1>1. ASSUME NEW p \in Poster, Begin(p) \/ PosterStep(p)
      PROVE  Posters'
  <2>1. WaitToRead(p) \/ Done(p) \/ UNCHANGED mutex
    BY <1>1, Zenon DEF Begin, PosterStep, Find, Enqueue, PushEnds, Refused, Posted, Answered
  <2>2. p \in Thread /\ PosterOf(p)
    BY <1>0, ThreadsOfTwoKinds DEF Posters
  <2>3. \A u \in Thread : u # p => lock'[u] = lock[u]
    BY <1>0, <2>1, <2>2, LockOfOthers
  <2>4. g_map' = g_map
    BY <1>1, Zenon DEF Begin, PosterStep, Find, Enqueue, PushEnds, Refused, Posted,
                       Answered, queues
  <2>5. ASSUME NEW to \in PosterState, pc' = [pc EXCEPT ![p] = to],
               \A q \in Poster : q # p => op'[q] = op[q], PosterOf(p)'
        PROVE  Posters'
    <3>1. ASSUME NEW q \in Poster, q # p PROVE PosterOf(q)'
      <4>1. pc'[q] = pc[q] /\ lock'[q] = lock[q]
        BY <1>0, <2>2, <2>3, <2>5, <3>1, PcMoves, ThreadsOfTwoKinds
      <4>2. QED
        BY <1>0, <2>4, <2>5, <3>1, <4>1, PosterBystander DEF Posters
    <3>2. QED
      BY <2>5, <3>1 DEF Posters
  <2>6. ASSUME NEW to \in PosterState, pc' = [pc EXCEPT ![p] = to] PROVE pc'[p] = to
    <3>1. \A u \in Thread : pc'[u] = IF u = p THEN to ELSE pc[u]
      BY <1>0, <2>2, <2>6, PcMoves
    <3>2. QED
      BY <2>2, <3>1
  <2>7. ASSUME NEW call \in Call, NEW w \in Worker, NEW m \in Carrier, Starts(p, call, m, w)
        PROVE  Posters'
    <3> DEFINE o == [call |-> call, carrier |-> m, to |-> w]
    <3>1. /\ pc' = [pc EXCEPT ![p] = "find"] /\ WaitToRead(p)
          /\ op' = [op EXCEPT ![p] = o]
      BY <2>7, Zenon DEF Starts
    <3>2. o \in [call : Call \cup {"none"}, carrier : Carrier \cup {NoCarrier},
                 to : Worker \cup {NoCarrier}] /\ o.call = call /\ o.carrier = m /\ o.to = w
      OBVIOUS
    <3> HIDE DEF o
    <3>3. \A q \in Poster : op'[q] = IF q = p THEN o ELSE op[q]
      BY <1>0, <3>1, <3>2, OpTyped
    <3>4. lock'[p] \in {"read", "wait to read"}
      <4>1. ReadAtOnce(p) \/ ReadLater(p)
        BY <1>0, <2>2, <3>1, CallCases
      <4>2. \E to \in {"read", "wait to read"} : lock' = [lock EXCEPT ![p] = to]
        BY <4>1, Zenon DEF ReadAtOnce, ReadLater, Moves
      <4>3. lock \in [Thread -> LockState]
        BY <1>0, Zenon DEF MutexOK, LockState
      <4>4. QED
        BY <2>2, <4>2, <4>3
    <3>5. pc'[p] = "find"
      BY <2>6, <3>1 DEF PosterState
    <3>6. PosterOf(p)'
      BY <3>2, <3>3, <3>4, <3>5 DEF PosterOf, PosterState
    <3>7. QED
      BY <2>5, <3>1, <3>3, <3>6 DEF PosterState
  <2>8. CASE Find(p)
    <3>1. /\ pc[p] = "find" /\ lock[p] = "read"
          /\ pc' = [pc EXCEPT ![p] = IF op[p].to \in g_map THEN "found" ELSE "refused"]
          /\ UNCHANGED mutex /\ op' = op
      BY <2>8, Zenon DEF Find, Holding
    <3>2. lock'[p] = "read"
      BY <3>1 DEF mutex
    <3>3. pc'[p] = IF op[p].to \in g_map THEN "found" ELSE "refused"
      BY <2>6, <3>1 DEF PosterState
    <3>4. PosterOf(p)'
      BY <2>2, <2>4, <3>1, <3>2, <3>3 DEF PosterOf, PosterState
    <3>5. QED
      BY <2>5, <3>1, <3>4 DEF PosterState
  <2>9. CASE Enqueue(p)
    <3>1. pc[p] = "found" /\ pc' = [pc EXCEPT ![p] = "pushed"] /\ op' = op
      BY <2>9, Zenon DEF Enqueue, Holding
    <3>2. pc'[p] = "pushed"
      BY <2>6, <3>1 DEF PosterState
    <3>3. PosterOf(p)'
      BY <2>2, <3>1, <3>2 DEF PosterOf, PosterState
    <3>4. QED
      BY <2>5, <3>1, <3>3 DEF PosterState
  <2>10. CASE PushEnds(p)
    <3>1. pc[p] \in {"pushed", "refused"} /\ pc' = pc /\ op' = op
      BY <2>10 DEF PushEnds
    <3>2. PosterOf(p)'
      BY <2>2, <3>1 DEF PosterOf, PosterState
    <3>3. ASSUME NEW q \in Poster, q # p PROVE PosterOf(q)'
      BY <1>0, <2>3, <2>4, <3>1, <3>3, PosterBystander, ThreadsOfTwoKinds DEF Posters
    <3>4. QED
      BY <3>2, <3>3 DEF Posters
  <2>11. CASE Refused(p) \/ Posted(p) \/ Answered(p)
    <3>1. /\ lock[p] = "free" /\ pc' = [pc EXCEPT ![p] = "idle"] /\ Forget(p)
          /\ UNCHANGED mutex
      BY <2>11, Zenon DEF Refused, Posted, Answered, At
    <3>2. lock'[p] = "free" /\ pc'[p] = "idle"
      BY <2>6, <3>1 DEF mutex, PosterState
    <3>3. \A q \in Poster : op'[q] = IF q = p THEN NoCall ELSE op[q]
      BY <1>0, <3>1, ForgetTyped
    <3>4. PosterOf(p)'
      BY <3>2, <3>3 DEF PosterOf, PosterState
    <3>5. QED
      BY <2>5, <3>1, <3>3, <3>4 DEF PosterState
  <2>12. QED
    BY <1>1, <2>7, <2>8, <2>9, <2>10, <2>11, BeginStarts DEF PosterStep
<1>2. ASSUME NEW w \in Worker, ContextBegins(w) \/ WorkerStep(w)
      PROVE  Posters'
  <2>1. WorkerDoes(w) /\ (WaitToRead(w) \/ WaitToWrite(w) \/ Done(w) \/ UNCHANGED mutex)
    BY <1>2, WorkerCases
  <2>2. w \in Thread /\ w \notin Poster /\ Poster \subseteq Thread
    BY ThreadsOfTwoKinds
  <2>3. \A u \in Thread : u # w => lock'[u] = lock[u]
    BY <1>0, <2>1, <2>2, LockOfOthers
  <2>4. op' = op
    BY <2>1, Zenon DEF WorkerDoes, Stands, Goes, Sets, Releases, Takes, Register, Remove,
                       Wait, Woken
  <2>5. pc' = pc \/ \E to : pc' = [pc EXCEPT ![w] = to]
    BY <2>1, Zenon DEF WorkerDoes, Stands, Goes, Sets, Releases, Takes, Register, Remove,
                       Wait, Woken, Passes, At, Holding
  <2>6. \A q \in Poster : pc'[q] = pc[q] /\ lock'[q] = lock[q]
    BY <1>0, <2>2, <2>3, <2>5, PcMoves
  <2>7. g_map \subseteq g_map' \/ (lock[w] = "write" /\ g_map' = g_map \ {w})
    <3>1. g_map' = g_map \/ g_map' = g_map \cup {w} \/ (lock[w] = "write" /\ g_map' = g_map \ {w})
      BY <2>1, Zenon DEF WorkerDoes, Stands, Goes, Sets, Releases, Takes, Register, Remove,
                         Wait, Woken, queues, Holding
    <3>2. QED
      BY <3>1
  <2>8. ASSUME NEW q \in Poster, pc[q] = "found", op[q].to \in g_map PROVE op[q].to \in g_map'
    <3>1. lock[q] = "read"
      BY <1>0, <2>8 DEF Posters, PosterOf
    <3>2. lock[w] # "write"
      BY <1>0, <2>2, <3>1, WriterIsAlone DEF Exclusive
    <3>3. QED
      BY <2>7, <2>8, <3>2
  <2>9. QED
    BY <1>0, <2>4, <2>6, <2>8, PosterBystander DEF Posters
<1>3. ASSUME NEW t \in Thread, InMutex(t)
      PROVE  Posters'
  <2>1. MutexStep(t) /\ pc' = pc /\ op' = op /\ g_map' = g_map
    BY <1>3, Zenon DEF InMutex, queues
  <2>2. \A u \in Thread : u # t => lock'[u] = lock[u]
    BY <1>0, <2>1, LockOfOthers
  <2>3. lock[t] \in {"wait to read", "wait to write"} \cup Signals
    BY <2>1 DEF MutexStep, AcquireRead, AcquireWrite, Signal, Moves, Signals
  <2>4. lock[t] = "wait to read" => lock'[t] = "read"
    <3>1. ASSUME lock[t] = "wait to read" PROVE AcquireRead(t)
      BY <2>1, <3>1 DEF MutexStep, AcquireWrite, Signal, Moves
    <3>2. AcquireRead(t) => lock' = [lock EXCEPT ![t] = "read"]
      BY Zenon DEF AcquireRead, Moves
    <3>3. lock \in [Thread -> LockState]
      BY <1>0, Zenon DEF MutexOK, LockState
    <3>4. QED
      BY <3>1, <3>2, <3>3
  <2>5. ASSUME NEW q \in Poster PROVE PosterOf(q)'
    <3>1. PosterOf(q) /\ q \in Thread
      BY <1>0, ThreadsOfTwoKinds DEF Posters
    <3>2. CASE q = t
      BY <2>1, <2>3, <2>4, <3>1, <3>2 DEF PosterOf, PosterState, Signals
    <3>3. CASE q # t
      BY <2>1, <2>2, <3>1, <3>3, PosterBystander
    <3>4. QED
      BY <3>2, <3>3
  <2>6. QED
    BY <2>5 DEF Posters
<1>4. CASE UNCHANGED vars
  <2>1. pc' = pc /\ op' = op /\ g_map' = g_map /\ lock' = lock
    BY <1>4 DEF vars, queues, mutex
  <2>2. QED
    BY <1>0, <2>1, PosterBystander DEF Posters
<1>5. QED
  BY <1>1, <1>2, <1>3, <1>4 DEF Next

LEMMA WorkerBystander ==
    ASSUME NEW v \in Worker, WorkerOf(v), pc'[v] = pc[v], queue'[v] = queue[v],
           waits'[v] = waits[v], handed'[v] = handed[v], current'[v] = current[v],
           v \in g_map' <=> v \in g_map
    PROVE  WorkerOf(v)'
BY Zenon DEF WorkerOf

LEMMA WorkersKept ==
    ASSUME Inv, [Next]_vars
    PROVE  Workers'
<1>0. Typed /\ Workers /\ Posters
  BY DEF Inv
<1>x. /\ queue \in [Worker -> SUBSET Carrier] /\ handed \in [Worker -> Carrier \cup {NoCarrier}]
      /\ current \in [Worker -> Carrier \cup {NoCarrier}]
  BY <1>0, Zenon DEF Typed
<1>y. waits \in [Worker -> BOOLEAN]
  BY <1>0, Zenon DEF Typed
<1>1. ASSUME UNCHANGED <<queues>>, \A v \in Worker : pc'[v] = pc[v] PROVE Workers'
  <2>1. /\ g_map' = g_map /\ queue' = queue /\ waits' = waits /\ handed' = handed
        /\ current' = current
    BY <1>1 DEF queues
  <2>2. QED
    BY <1>0, <1>1, <2>1, WorkerBystander DEF Workers
<1>2. ASSUME NEW p \in Poster, Begin(p) \/ PosterStep(p) PROVE Workers'
  <2>1. \A v \in Worker : pc'[v] = pc[v]
    <3>1. pc' = pc \/ \E to : pc' = [pc EXCEPT ![p] = to]
      BY <1>2, Zenon DEF Begin, PosterStep, Find, Enqueue, PushEnds, Refused, Posted,
                         Answered, At, Holding
    <3>2. QED
      BY <1>0, <3>1, PcMoves, ThreadsOfTwoKinds
  <2>2. CASE Enqueue(p)
    <3>1. pc[p] = "found" /\ g_map' = g_map /\ current' = current
      BY <2>2, Zenon DEF Enqueue, Holding
    <3>2. PICK w \in Worker, m \in Carrier : w = op[p].to /\ m = op[p].carrier /\ w \in g_map
      BY <1>0, <3>1 DEF Posters, PosterOf
    <3>3. \/ /\ waits[w] /\ handed' = [handed EXCEPT ![w] = m]
             /\ waits' = [waits EXCEPT ![w] = FALSE] /\ queue' = queue
          \/ /\ ~waits[w] /\ queue' = [queue EXCEPT ![w] = queue[w] \cup {m}]
             /\ handed' = handed /\ waits' = waits
      BY <2>2, <3>2, Zenon DEF Enqueue
    <3>4. WorkerOf(w) /\ pc[w] \in Registered
      BY <1>0, <3>2 DEF Workers, WorkerOf
    <3>5. CASE /\ waits[w] /\ handed' = [handed EXCEPT ![w] = m]
               /\ waits' = [waits EXCEPT ![w] = FALSE] /\ queue' = queue
      <4>1. \A v \in Worker : handed'[v] = IF v = w THEN m ELSE handed[v]
        BY <1>x, <3>5
      <4>2. \A v \in Worker : waits'[v] = IF v = w THEN FALSE ELSE waits[v]
        BY <1>y, <3>5, Zenon
      <4>3. pc'[w] = "wait"
        BY <2>1, <3>4, <3>5, Zenon DEF WorkerOf
      <4>4. ~waits'[w] /\ handed'[w] = m /\ queue'[w] = queue[w] /\ current'[w] = current[w]
        BY <3>1, <3>5, <4>1, <4>2, Zenon
      <4>5. WorkerOf(w)'
        <5>1. pc[w] = "wait" /\ pc[w] \notin Outside
          BY <2>1, <4>3, "wait" \notin Outside, Zenon DEF Outside
        <5>2. QED
          BY <3>1, <3>4, <4>3, <4>4, <5>1, Zenon DEF WorkerOf
      <4>6. ASSUME NEW v \in Worker, v # w PROVE WorkerOf(v)'
        BY <1>0, <2>1, <3>1, <3>5, <4>1, <4>2, <4>6, WorkerBystander, Zenon DEF Workers
      <4>7. QED
        BY <4>5, <4>6, Zenon DEF Workers
    <3>6. CASE /\ ~waits[w] /\ queue' = [queue EXCEPT ![w] = queue[w] \cup {m}]
               /\ handed' = handed /\ waits' = waits
      <4>1. \A v \in Worker : v # w => queue'[v] = queue[v]
        BY <1>x, <3>6
      <4>2. ~waits'[w] /\ handed'[w] = handed[w] /\ current'[w] = current[w]
        BY <3>1, <3>6, Zenon
      <4>3. pc[w] \notin Outside
        BY <3>4 DEF Registered, Outside
      <4>4. WorkerOf(w)'
        BY <2>1, <3>1, <3>4, <4>2, <4>3, Zenon DEF WorkerOf
      <4>5. ASSUME NEW v \in Worker, v # w PROVE WorkerOf(v)'
        BY <1>0, <2>1, <3>1, <3>6, <4>1, <4>5, WorkerBystander, Zenon DEF Workers
      <4>6. QED
        BY <4>4, <4>5, Zenon DEF Workers
    <3>7. QED
      BY <3>3, <3>5, <3>6
  <2>3. CASE ~Enqueue(p)
    <3>1. UNCHANGED queues
      BY <1>2, <2>3, Zenon DEF Begin, PosterStep, Find, PushEnds, Refused, Posted, Answered
    <3>2. QED
      BY <1>1, <2>1, <3>1
  <2>4. QED
    BY <2>2, <2>3
<1>3. ASSUME NEW w \in Worker, ContextBegins(w) \/ WorkerStep(w) PROVE Workers'
  <2>1. WorkerDoes(w) /\ w \in Thread /\ WorkerOf(w)
    BY <1>0, <1>3, WorkerCases, ThreadsOfTwoKinds DEF Workers
  <2>2. ASSUME NEW to, pc' = [pc EXCEPT ![w] = to]
        PROVE  pc'[w] = to /\ \A v \in Worker : v # w => pc'[v] = pc[v]
    <3>1. \A u \in Thread : pc'[u] = IF u = w THEN to ELSE pc[u]
      BY <1>0, <2>1, <2>2, PcMoves
    <3>2. QED
      BY <2>1, <3>1, ThreadsOfTwoKinds
  <2>3. ASSUME WorkerOf(w)', \A v \in Worker : v # w => pc'[v] = pc[v],
               \A v \in Worker : v # w => /\ queue'[v] = queue[v] /\ waits'[v] = waits[v]
                                          /\ handed'[v] = handed[v] /\ current'[v] = current[v]
                                          /\ (v \in g_map' <=> v \in g_map)
        PROVE  Workers'
    BY <1>0, <2>3, WorkerBystander, Zenon DEF Workers
  <2>4. CASE Stands(w)
    BY <1>1, <2>4 DEF Stands
  <2>5. ASSUME NEW from, NEW to, Passes(w, from, to), UNCHANGED <<g_map, waits, handed>>,
               \A v \in Worker : v # w => queue'[v] = queue[v] /\ current'[v] = current[v],
               queue'[w] \subseteq queue[w],
               to \in Outside => from \in Outside \/ queue[w] = {},
               to \in Between => current'[w] = NoCarrier
        PROVE  Workers'
    <3>1. pc'[w] = to /\ \A v \in Worker : v # w => pc'[v] = pc[v]
      BY <2>2, <2>5 DEF Passes
    <3>2. to \in WorkerState /\ pc[w] = from /\ from # "wait" /\ (from \in Registered <=> to \in Registered)
      BY <2>5 DEF Passes
    <3>3. ~waits[w] /\ handed[w] = NoCarrier
      BY <2>1, <3>2, Zenon DEF WorkerOf
    <3>4. to \in Outside => queue'[w] = {}
      <4>1. to \in Outside => queue[w] = {}
        BY <2>1, <2>5, <3>2, Zenon DEF WorkerOf
      <4>2. QED
        BY <2>5, <4>1
    <3>5. ~waits'[w] /\ handed'[w] = NoCarrier /\ g_map' = g_map
      BY <2>5, <3>3, Zenon
    <3>6. WorkerOf(w)'
      BY <2>1, <2>5, <3>1, <3>2, <3>4, <3>5, Zenon DEF WorkerOf
    <3>7. QED
      BY <2>3, <2>5, <3>1, <3>6, Zenon
  <2>6. ASSUME NEW from, NEW to, Goes(w, from, to) PROVE Workers'
    <3>1. /\ g_map' = g_map /\ queue' = queue /\ waits' = waits /\ handed' = handed
          /\ current' = current
      BY <2>6, Zenon DEF Goes, queues
    <3>2. Passes(w, from, to) /\ (to \in Outside => from \in Outside \/ queue[w] = {})
      BY <2>6 DEF Goes
    <3>3. to \in Between => current'[w] = NoCarrier
      BY <2>1, <2>6, <3>1, Zenon DEF Goes, Passes, WorkerOf
    <3>4. QED
      BY <2>5, <3>1, <3>2, <3>3
  <2>7. ASSUME NEW from, NEW to, Sets(w, from, to) PROVE Workers'
    <3>1. /\ g_map' = g_map /\ queue' = queue /\ waits' = waits /\ handed' = handed
          /\ current' = current
      BY <2>7, Zenon DEF Sets, queues
    <3>2. Passes(w, from, to) /\ to \notin Outside /\ to \notin Between
      BY <2>7 DEF Sets
    <3>3. QED
      BY <2>5, <3>1, <3>2
  <2>8. ASSUME NEW from, NEW to, Releases(w, from, to) PROVE Workers'
    <3>1. /\ g_map' = g_map /\ queue' = queue /\ waits' = waits /\ handed' = handed
          /\ current' = [current EXCEPT ![w] = NoCarrier]
      BY <2>8, Zenon DEF Releases
    <3>2. Passes(w, from, to) /\ to \notin Outside
      BY <2>8 DEF Releases
    <3>3. current'[w] = NoCarrier /\ \A v \in Worker : v # w => current'[v] = current[v]
      BY <1>x, <3>1
    <3>4. QED
      BY <2>5, <3>1, <3>2, <3>3
  <2>9. ASSUME NEW m \in Carrier, NEW from, NEW to, Takes(w, m, from, to) PROVE Workers'
    <3>1. /\ g_map' = g_map /\ waits' = waits /\ handed' = handed
          /\ queue' = [queue EXCEPT ![w] = queue[w] \ {m}]
          /\ current' = [current EXCEPT ![w] = m]
      BY <2>9, Zenon DEF Takes
    <3>2. Passes(w, from, to) /\ to \notin Outside /\ to \notin Between
      BY <2>9 DEF Takes
    <3>3. /\ \A v \in Worker : v # w => queue'[v] = queue[v] /\ current'[v] = current[v]
          /\ queue'[w] \subseteq queue[w]
      BY <1>x, <3>1
    <3>4. QED
      BY <2>5, <3>1, <3>2, <3>3
  <2>10. CASE Register(w)
    <3>1. /\ pc[w] = "register" /\ pc' = [pc EXCEPT ![w] = "get"] /\ g_map' = g_map \cup {w}
          /\ queue' = queue /\ waits' = waits /\ handed' = handed /\ current' = current
      BY <2>10, Zenon DEF Register, Holding
    <3>2. ~waits[w] /\ handed[w] = NoCarrier
      BY <2>1, <3>1, "register" # "wait", Zenon DEF WorkerOf
    <3>3. pc'[w] = "get" /\ \A v \in Worker : v # w => pc'[v] = pc[v]
      BY <2>2, <3>1
    <3>4. "get" \in Registered /\ "get" \in WorkerState /\ "get" \notin Outside /\ "get" \notin Between
      BY DEF WorkerState, Registered, Outside, Between
    <3>5. WorkerOf(w)'
      BY <3>1, <3>2, <3>3, <3>4, Zenon DEF WorkerOf
    <3>6. \A v \in Worker : v # w => (v \in g_map' <=> v \in g_map)
      BY <3>1
    <3>7. QED
      BY <2>3, <3>1, <3>3, <3>5, <3>6, Zenon
  <2>11. CASE Remove(w)
    <3>1. /\ pc[w] = "remove" /\ pc' = [pc EXCEPT ![w] = "drain"] /\ g_map' = g_map \ {w}
          /\ queue' = queue /\ waits' = waits /\ handed' = handed /\ current' = current
      BY <2>11, Zenon DEF Remove, Holding
    <3>2. ~waits[w] /\ handed[w] = NoCarrier
      BY <2>1, <3>1, "remove" # "wait", Zenon DEF WorkerOf
    <3>3. pc'[w] = "drain" /\ \A v \in Worker : v # w => pc'[v] = pc[v]
      BY <2>2, <3>1
    <3>4. /\ "drain" \notin Registered /\ "drain" \in WorkerState /\ "drain" \notin Outside
          /\ "remove" \in Between
      BY DEF WorkerState, Registered, Outside, Between, Draining
    <3>5. current[w] = NoCarrier /\ w \notin g_map'
      BY <2>1, <3>1, <3>4 DEF WorkerOf
    <3>6. WorkerOf(w)'
      BY <3>1, <3>2, <3>3, <3>4, <3>5, Zenon DEF WorkerOf
    <3>7. \A v \in Worker : v # w => (v \in g_map' <=> v \in g_map)
      BY <3>1
    <3>8. QED
      BY <2>3, <3>1, <3>3, <3>6, <3>7, Zenon
  <2>12. CASE Wait(w)
    <3>1. /\ pc[w] = "dequeue" /\ pc' = [pc EXCEPT ![w] = "wait"] /\ g_map' = g_map
          /\ queue' = queue /\ handed' = handed /\ current' = current
          /\ queue[w] = {} /\ waits' = [waits EXCEPT ![w] = TRUE]
      BY <2>12, Zenon DEF Wait, At
    <3>2. handed[w] = NoCarrier
      BY <2>1, <3>1, "dequeue" # "wait", Zenon DEF WorkerOf
    <3>3. pc'[w] = "wait" /\ \A v \in Worker : v # w => pc'[v] = pc[v]
      BY <2>2, <3>1
    <3>4. /\ "wait" \in Registered /\ "wait" \in WorkerState /\ "wait" \notin Outside
          /\ "dequeue" \in Between /\ "dequeue" \in Registered
      BY DEF WorkerState, Registered, Outside, Between
    <3>5. current[w] = NoCarrier /\ w \in g_map
      BY <2>1, <3>1, <3>4, Zenon DEF WorkerOf
    <3>6. WorkerOf(w)'
      BY <3>1, <3>2, <3>3, <3>4, <3>5, Zenon DEF WorkerOf
    <3>7. \A v \in Worker : v # w => waits'[v] = waits[v]
      BY <1>y, <3>1, Zenon
    <3>8. QED
      BY <2>3, <3>1, <3>3, <3>6, <3>7, Zenon
  <2>13. CASE Woken(w)
    <3>1. /\ pc[w] = "wait" /\ pc' = [pc EXCEPT ![w] = "handle"] /\ g_map' = g_map
          /\ queue' = queue /\ waits' = waits /\ handed[w] # NoCarrier
          /\ current' = [current EXCEPT ![w] = handed[w]]
          /\ handed' = [handed EXCEPT ![w] = NoCarrier]
      BY <2>13, Zenon DEF Woken, At
    <3>2. ~waits[w]
      BY <2>1, <3>1, Zenon DEF WorkerOf
    <3>3. pc'[w] = "handle" /\ \A v \in Worker : v # w => pc'[v] = pc[v]
      BY <2>2, <3>1
    <3>4. /\ "handle" \in Registered /\ "handle" \in WorkerState /\ "handle" \notin Outside
          /\ "handle" \notin Between /\ "wait" \in Registered
      BY DEF WorkerState, Registered, Outside, Between
    <3>5. w \in g_map
      BY <2>1, <3>1, <3>4, Zenon DEF WorkerOf
    <3>6. /\ handed'[w] = NoCarrier
          /\ \A v \in Worker : v # w => handed'[v] = handed[v] /\ current'[v] = current[v]
      BY <1>x, <3>1
    <3>7. WorkerOf(w)'
      BY <3>1, <3>2, <3>3, <3>4, <3>5, <3>6, Zenon DEF WorkerOf
    <3>8. QED
      BY <2>3, <3>1, <3>3, <3>6, <3>7, Zenon
  <2>14. QED
    BY <2>1, <2>4, <2>6, <2>7, <2>8, <2>9, <2>10, <2>11, <2>12, <2>13 DEF WorkerDoes
<1>4. ASSUME NEW t \in Thread, InMutex(t) PROVE Workers'
  BY <1>1, <1>4 DEF InMutex
<1>5. CASE UNCHANGED vars
  BY <1>1, <1>5 DEF vars
<1>6. QED
  BY <1>2, <1>3, <1>4, <1>5 DEF Next

(***************************************************************************)
(* Every carrier.                                                          *)
(***************************************************************************)

LEMMA PlaceKinds ==
    /\ \A w \in Worker : \A kind \in {"queue", "handed", "current"} : <<kind, w>> \in Place
    /\ \A p \in Poster : <<"push", p>> \in Place
    /\ \A x \in Place : \/ \E w \in Worker : x \in {<<"queue", w>>, <<"handed", w>>, <<"current", w>>}
                        \/ \E p \in Poster : x = <<"push", p>>
BY DEF Place

LEMMA HoldsKinds ==
    ASSUME NEW m
    PROVE  /\ \A w : /\ Holds(<<"queue", w>>, m) <=> m \in queue[w]
                     /\ Holds(<<"handed", w>>, m) <=> handed[w] = m
                     /\ Holds(<<"current", w>>, m) <=> current[w] = m
           /\ \A p : Holds(<<"push", p>>, m) <=> op[p].carrier = m /\ pc[p] \in Pushing
<1>1. ASSUME NEW y PROVE /\ <<"queue", y>>[1] = "queue" /\ <<"queue", y>>[2] = y
                         /\ <<"handed", y>>[1] = "handed" /\ <<"handed", y>>[2] = y
                         /\ <<"current", y>>[1] = "current" /\ <<"current", y>>[2] = y
                         /\ <<"push", y>>[1] = "push" /\ <<"push", y>>[2] = y
  OBVIOUS
<1>2. /\ "queue" # "handed" /\ "queue" # "current" /\ "queue" # "push"
      /\ "handed" # "current" /\ "handed" # "push" /\ "current" # "push"
  OBVIOUS
<1>3. QED
  BY <1>1, <1>2, Zenon DEF Holds

LEMMA HoldsKindsPrimed ==
    ASSUME NEW CONSTANT m
    PROVE  /\ \A w : /\ Holds(<<"queue", w>>, m)' <=> m \in queue'[w]
                     /\ Holds(<<"handed", w>>, m)' <=> handed'[w] = m
                     /\ Holds(<<"current", w>>, m)' <=> current'[w] = m
           /\ \A p : Holds(<<"push", p>>, m)' <=> op'[p].carrier = m /\ pc'[p] \in Pushing
<1>1. ASSUME NEW y PROVE /\ <<"queue", y>>[1] = "queue" /\ <<"queue", y>>[2] = y
                         /\ <<"handed", y>>[1] = "handed" /\ <<"handed", y>>[2] = y
                         /\ <<"current", y>>[1] = "current" /\ <<"current", y>>[2] = y
                         /\ <<"push", y>>[1] = "push" /\ <<"push", y>>[2] = y
  OBVIOUS
<1>2. /\ "queue" # "handed" /\ "queue" # "current" /\ "queue" # "push"
      /\ "handed" # "current" /\ "handed" # "push" /\ "current" # "push"
  OBVIOUS
<1>3. QED
  BY <1>1, <1>2, Zenon DEF Holds

\* The places of a carrier after a step, kind by kind.
LEMMA PlacesAfter ==
    ASSUME NEW CONSTANT m, NEW CONSTANT places,
           \A w \in Worker : /\ m \in queue'[w] <=> <<"queue", w>> \in places
                             /\ handed'[w] = m <=> <<"handed", w>> \in places
                             /\ current'[w] = m <=> <<"current", w>> \in places,
           \A p \in Poster : op'[p].carrier = m /\ pc'[p] \in Pushing <=> <<"push", p>> \in places
    PROVE  \A x \in Place : Holds(x, m)' <=> x \in places
<1> SUFFICES ASSUME NEW CONSTANT x \in Place PROVE Holds(x, m)' <=> x \in places
  OBVIOUS
<1>1. CASE \E w \in Worker : x \in {<<"queue", w>>, <<"handed", w>>, <<"current", w>>}
  <2>1. PICK w \in Worker : x \in {<<"queue", w>>, <<"handed", w>>, <<"current", w>>}
    BY <1>1
  <2>2. CASE x = <<"queue", w>>
    BY <2>2, HoldsKindsPrimed
  <2>3. CASE x = <<"handed", w>>
    BY <2>3, HoldsKindsPrimed
  <2>4. CASE x = <<"current", w>>
    BY <2>4, HoldsKindsPrimed
  <2>5. QED
    BY <2>1, <2>2, <2>3, <2>4
<1>2. CASE \E p \in Poster : x = <<"push", p>>
  BY <1>2, HoldsKindsPrimed
<1>3. QED
  BY <1>1, <1>2, PlaceKinds

\* A step that leaves the places as they are.
LEMMA PlacesStay ==
    ASSUME NEW CONSTANT m,
           \A w \in Worker : /\ m \in queue'[w] <=> m \in queue[w]
                             /\ handed'[w] = m <=> handed[w] = m
                             /\ current'[w] = m <=> current[w] = m,
           \A p \in Poster : op'[p].carrier = m /\ pc'[p] \in Pushing
                             <=> op[p].carrier = m /\ pc[p] \in Pushing
    PROVE  SamePlaces(m)
<1> DEFINE places == {x \in Place : Holds(x, m)}
<1>1. \A w \in Worker : /\ m \in queue'[w] <=> <<"queue", w>> \in places
                        /\ handed'[w] = m <=> <<"handed", w>> \in places
                        /\ current'[w] = m <=> <<"current", w>> \in places
  BY HoldsKinds, PlaceKinds
<1>2. \A p \in Poster : op'[p].carrier = m /\ pc'[p] \in Pushing <=> <<"push", p>> \in places
  BY HoldsKinds, PlaceKinds
<1>3. \A x \in Place : x \in places <=> Holds(x, m)
  OBVIOUS
<1> HIDE DEF places
<1>4. \A x \in Place : Holds(x, m)' <=> x \in places
  BY <1>1, <1>2, PlacesAfter
<1>5. QED
  BY <1>3, <1>4 DEF SamePlaces

\* A step that gives up one place, and one that fills another besides.
LEMMA PlaceLeft ==
    ASSUME NEW CONSTANT m, NEW x \in Place, Holds(x, m),
           \A w \in Worker : /\ m \in queue'[w] <=> m \in queue[w] /\ x # <<"queue", w>>
                             /\ handed'[w] = m <=> handed[w] = m /\ x # <<"handed", w>>
                             /\ current'[w] = m <=> current[w] = m /\ x # <<"current", w>>,
           \A p \in Poster : op'[p].carrier = m /\ pc'[p] \in Pushing
                             <=> op[p].carrier = m /\ pc[p] \in Pushing /\ x # <<"push", p>>
    PROVE  PlaceEnds(x, m)
<1> DEFINE places == {y \in Place : y # x /\ Holds(y, m)}
<1>1. \A w \in Worker : /\ m \in queue'[w] <=> <<"queue", w>> \in places
                        /\ handed'[w] = m <=> <<"handed", w>> \in places
                        /\ current'[w] = m <=> <<"current", w>> \in places
  BY HoldsKinds, PlaceKinds
<1>2. \A p \in Poster : op'[p].carrier = m /\ pc'[p] \in Pushing <=> <<"push", p>> \in places
  BY HoldsKinds, PlaceKinds
<1>3. \A y \in Place : y \in places <=> y # x /\ Holds(y, m)
  OBVIOUS
<1> HIDE DEF places
<1>4. \A y \in Place : Holds(y, m)' <=> y \in places
  BY <1>1, <1>2, PlacesAfter
<1>5. QED
  BY <1>3, <1>4 DEF PlaceEnds

LEMMA PlaceChanged ==
    ASSUME NEW CONSTANT m, NEW x \in Place, NEW y \in Place,
           \A w \in Worker :
              /\ m \in queue'[w] <=> y = <<"queue", w>> \/ (m \in queue[w] /\ x # <<"queue", w>>)
              /\ handed'[w] = m <=> y = <<"handed", w>> \/ (handed[w] = m /\ x # <<"handed", w>>)
              /\ current'[w] = m <=> y = <<"current", w>> \/ (current[w] = m /\ x # <<"current", w>>),
           \A p \in Poster : op'[p].carrier = m /\ pc'[p] \in Pushing
              <=> y = <<"push", p>> \/ (op[p].carrier = m /\ pc[p] \in Pushing /\ x # <<"push", p>>)
    PROVE  \A z \in Place : Holds(z, m)' <=> z = y \/ (z # x /\ Holds(z, m))
<1> DEFINE places == {z \in Place : z = y \/ (z # x /\ Holds(z, m))}
<1>1. \A w \in Worker : /\ m \in queue'[w] <=> <<"queue", w>> \in places
                        /\ handed'[w] = m <=> <<"handed", w>> \in places
                        /\ current'[w] = m <=> <<"current", w>> \in places
  BY HoldsKinds, PlaceKinds
<1>2. \A p \in Poster : op'[p].carrier = m /\ pc'[p] \in Pushing <=> <<"push", p>> \in places
  BY HoldsKinds, PlaceKinds
<1>3. \A z \in Place : z \in places <=> z = y \/ (z # x /\ Holds(z, m))
  OBVIOUS
<1> HIDE DEF places
<1>4. \A z \in Place : Holds(z, m)' <=> z \in places
  BY <1>1, <1>2, PlacesAfter
<1>5. QED
  BY <1>3, <1>4

LEMMA SendersStay ==
    ASSUME NEW CONSTANT m, op' = op
    PROVE  SameSenders(m)
BY Zenon DEF SameSenders, Sending

LEMMA WorkerLedgers ==
    ASSUME Inv, NEW w \in Worker, WorkerDoes(w)
    PROVE  Ledgers'
<1>1. Typed /\ Ledgers /\ WorkerOf(w) /\ w \in Thread
  BY ThreadsOfTwoKinds DEF Inv, Workers
<1>2. /\ queue \in [Worker -> SUBSET Carrier] /\ handed \in [Worker -> Carrier \cup {NoCarrier}]
      /\ current \in [Worker -> Carrier \cup {NoCarrier}]
  BY <1>1, Zenon DEF Typed
<1>3. carrier \in [Carrier -> [count : Int, event : BOOLEAN, call : Call]]
  BY <1>1, Zenon DEF Typed
<1>4. op' = op /\ \A p \in Poster : pc'[p] = pc[p]
  <2>1. op' = op
    BY Zenon DEF WorkerDoes, Stands, Goes, Sets, Releases, Takes, Register, Remove, Wait,
                 Woken
  <2>2. pc' = pc \/ \E to : pc' = [pc EXCEPT ![w] = to]
    BY Zenon DEF WorkerDoes, Stands, Goes, Sets, Releases, Takes, Register, Remove, Wait,
                 Woken, Passes, At, Holding
  <2>3. QED
    BY <1>1, <2>1, <2>2, PcMoves, ThreadsOfTwoKinds
<1>5. ASSUME NEW m \in Carrier, carrier'[m].count = carrier[m].count,
             \A v \in Worker : /\ m \in queue'[v] <=> m \in queue[v]
                               /\ handed'[v] = m <=> handed[v] = m
                               /\ current'[v] = m <=> current[v] = m
      PROVE  Ledger(m)'
  <2>1. SamePlaces(m)
    BY <1>4, <1>5, PlacesStay
  <2>2. QED
    BY <1>1, <1>4, <1>5, <2>1, SendersStay, LedgerSame DEF Ledgers
<1>6. CASE /\ queue' = queue /\ handed' = handed /\ current' = current
           /\ \A m \in Carrier : carrier'[m].count = carrier[m].count
  BY <1>5, <1>6 DEF Ledgers
<1>7. ASSUME NEW c \in Carrier, NEW x \in Place, NEW y \in Place, Holds(x, c), carrier' = carrier,
             \A v \in Worker :
                /\ c \in queue'[v] <=> y = <<"queue", v>> \/ (c \in queue[v] /\ x # <<"queue", v>>)
                /\ handed'[v] = c <=> y = <<"handed", v>> \/ (handed[v] = c /\ x # <<"handed", v>>)
                /\ current'[v] = c <=> y = <<"current", v>> \/ (current[v] = c /\ x # <<"current", v>>),
             \A p \in Poster : x # <<"push", p>> /\ y # <<"push", p>>
      PROVE  Ledger(c)'
  <2>1. \A p \in Poster : op'[p].carrier = c /\ pc'[p] \in Pushing
              <=> y = <<"push", p>> \/ (op[p].carrier = c /\ pc[p] \in Pushing /\ x # <<"push", p>>)
    BY <1>4, <1>7, Zenon
  <2>2. \A z \in Place : Holds(z, c)' <=> z = y \/ (z # x /\ Holds(z, c))
    BY <1>7, <2>1, PlaceChanged
  <2>3. SameSenders(c) /\ carrier'[c].count = carrier[c].count
    BY <1>4, <1>7, SendersStay
  <2>4. QED
    BY <1>1, <1>7, <2>2, <2>3, LedgerMoves DEF Ledgers
<1>8. CASE Stands(w)
  <2>1. queue' = queue /\ handed' = handed /\ current' = current /\ carrier' = carrier
    BY <1>8 DEF Stands, queues
  <2>2. QED
    BY <1>6, <2>1
<1>9. ASSUME NEW from, NEW to, Goes(w, from, to) PROVE Ledgers'
  <2>1. queue' = queue /\ handed' = handed /\ current' = current /\ carrier' = carrier
    BY <1>9, Zenon DEF Goes, queues
  <2>2. QED
    BY <1>6, <2>1
<1>10. ASSUME NEW from, NEW to, Sets(w, from, to) PROVE Ledgers'
  <2>1. /\ queue' = queue /\ handed' = handed /\ current' = current /\ current[w] # NoCarrier
        /\ carrier' = [carrier EXCEPT ![current[w]].event = TRUE]
    BY <1>10, Zenon DEF Sets, queues
  <2>2. current[w] \in Carrier
    BY <1>2, <2>1
  <2>3. \A m \in Carrier : carrier'[m].count = carrier[m].count
    BY <1>3, <2>1, <2>2, EventSet
  <2>4. QED
    BY <1>6, <2>1, <2>3
<1>11. ASSUME NEW from, NEW to, Releases(w, from, to) PROVE Ledgers'
  <2>1. /\ queue' = queue /\ handed' = handed /\ current[w] # NoCarrier
        /\ current' = [current EXCEPT ![w] = NoCarrier]
        /\ carrier' = Released(current[w], 1)
    BY <1>11, Zenon DEF Releases
  <2>2. PICK c \in Carrier : c = current[w]
    BY <1>2, <2>1
  <2>3. \A v \in Worker : current'[v] = IF v = w THEN NoCarrier ELSE current[v]
    BY <1>2, <2>1
  <2>4. \A m \in Carrier : carrier'[m].count =
                              IF m = c THEN carrier[c].count - 1 ELSE carrier[m].count
    BY <1>3, <2>1, <2>2, CountDown
  <2>5. NoCarrier \notin Carrier
    BY MessagesAssumption
  <2>6. Ledger(c)'
    <3> DEFINE x == <<"current", w>>
    <3>1. x \in Place /\ Holds(x, c)
      BY <2>2, PlaceKinds, HoldsKinds
    <3>2. \A v \in Worker : /\ x # <<"queue", v>> /\ x # <<"handed", v>>
                            /\ x = <<"current", v>> <=> v = w
      OBVIOUS
    <3>3. \A p \in Poster : x # <<"push", p>>
      OBVIOUS
    <3> HIDE DEF x
    <3>4. \A v \in Worker : /\ c \in queue'[v] <=> c \in queue[v] /\ x # <<"queue", v>>
                            /\ handed'[v] = c <=> handed[v] = c /\ x # <<"handed", v>>
                            /\ current'[v] = c <=> current[v] = c /\ x # <<"current", v>>
      BY <2>1, <2>3, <2>5, <3>2
    <3>5. \A p \in Poster : op'[p].carrier = c /\ pc'[p] \in Pushing
                            <=> op[p].carrier = c /\ pc[p] \in Pushing /\ x # <<"push", p>>
      BY <1>4, <3>3, Zenon
    <3>6. PlaceEnds(x, c)
      BY <3>1, <3>4, <3>5, PlaceLeft
    <3>7. carrier'[c].count = carrier[c].count - 1 /\ SameSenders(c) /\ Ledger(c)
      BY <1>1, <1>4, <2>4, SendersStay DEF Ledgers
    <3>8. QED
      BY <3>1, <3>6, <3>7, LedgerEnds
  <2>7. ASSUME NEW m \in Carrier, m # c PROVE Ledger(m)'
    <3>1. \A v \in Worker : current'[v] = m <=> current[v] = m
      BY <2>2, <2>3, <2>5, <2>7
    <3>2. QED
      BY <1>5, <2>1, <2>4, <2>7, <3>1
  <2>8. QED
    BY <2>6, <2>7, Zenon DEF Ledgers
<1>12. ASSUME NEW c \in Carrier, NEW from, NEW to, Takes(w, c, from, to) PROVE Ledgers'
  <2>1. /\ handed' = handed /\ carrier' = carrier /\ c \in queue[w]
        /\ queue' = [queue EXCEPT ![w] = queue[w] \ {c}]
        /\ current' = [current EXCEPT ![w] = c]
    BY <1>12, Zenon DEF Takes
  <2>2. current[w] = NoCarrier
    <3>1. pc[w] \in Between
      BY <1>12 DEF Takes, Passes, Between
    <3>2. QED
      BY <1>1, <3>1 DEF WorkerOf
  <2>3. NoCarrier \notin Carrier
    BY MessagesAssumption
  <2>4. /\ \A v \in Worker : current'[v] = IF v = w THEN c ELSE current[v]
        /\ \A v \in Worker : queue'[v] = IF v = w THEN queue[w] \ {c} ELSE queue[v]
    BY <1>2, <2>1
  <2>5. Ledger(c)'
    <3> DEFINE x == <<"queue", w>>
               y == <<"current", w>>
    <3>1. x \in Place /\ y \in Place /\ Holds(x, c)
      BY <2>1, PlaceKinds, HoldsKinds
    <3>2. \A v \in Worker : /\ x # <<"current", v>> /\ x # <<"handed", v>>
                            /\ x = <<"queue", v>> <=> v = w
                            /\ y # <<"queue", v>> /\ y # <<"handed", v>>
                            /\ y = <<"current", v>> <=> v = w
      OBVIOUS
    <3>3. \A p \in Poster : x # <<"push", p>> /\ y # <<"push", p>>
      OBVIOUS
    <3> HIDE DEF x, y
    <3>4. \A v \in Worker :
             /\ c \in queue'[v] <=> y = <<"queue", v>> \/ (c \in queue[v] /\ x # <<"queue", v>>)
             /\ handed'[v] = c <=> y = <<"handed", v>> \/ (handed[v] = c /\ x # <<"handed", v>>)
             /\ current'[v] = c <=> y = <<"current", v>> \/ (current[v] = c /\ x # <<"current", v>>)
      BY <2>1, <2>2, <2>3, <2>4, <3>2
    <3>5. QED
      BY <1>7, <2>1, <3>1, <3>3, <3>4
  <2>6. ASSUME NEW m \in Carrier, m # c PROVE Ledger(m)'
    <3>1. \A v \in Worker : /\ current'[v] = m <=> current[v] = m
                            /\ m \in queue'[v] <=> m \in queue[v]
      BY <2>2, <2>3, <2>4, <2>6
    <3>2. QED
      BY <1>5, <2>1, <2>6, <3>1
  <2>7. QED
    BY <2>5, <2>6, Zenon DEF Ledgers
<1>13. CASE Register(w) \/ Remove(w) \/ Wait(w)
  <2>1. queue' = queue /\ handed' = handed /\ current' = current /\ carrier' = carrier
    BY <1>13, Zenon DEF Register, Remove, Wait
  <2>2. QED
    BY <1>6, <2>1
<1>14. CASE Woken(w)
  <2>1. /\ queue' = queue /\ carrier' = carrier /\ handed[w] # NoCarrier /\ pc[w] = "wait"
        /\ handed' = [handed EXCEPT ![w] = NoCarrier]
        /\ current' = [current EXCEPT ![w] = handed[w]]
    BY <1>14, Zenon DEF Woken, At
  <2>2. current[w] = NoCarrier
    BY <1>1, <2>1 DEF WorkerOf, Between
  <2>3. NoCarrier \notin Carrier
    BY MessagesAssumption
  <2>4. PICK c \in Carrier : c = handed[w]
    BY <1>2, <2>1
  <2>5. /\ \A v \in Worker : current'[v] = IF v = w THEN c ELSE current[v]
        /\ \A v \in Worker : handed'[v] = IF v = w THEN NoCarrier ELSE handed[v]
    BY <1>2, <2>1, <2>4
  <2>6. Ledger(c)'
    <3> DEFINE x == <<"handed", w>>
               y == <<"current", w>>
    <3>1. x \in Place /\ y \in Place /\ Holds(x, c)
      BY <2>4, PlaceKinds, HoldsKinds
    <3>2. \A v \in Worker : /\ x # <<"current", v>> /\ x # <<"queue", v>>
                            /\ x = <<"handed", v>> <=> v = w
                            /\ y # <<"queue", v>> /\ y # <<"handed", v>>
                            /\ y = <<"current", v>> <=> v = w
      OBVIOUS
    <3>3. \A p \in Poster : x # <<"push", p>> /\ y # <<"push", p>>
      OBVIOUS
    <3> HIDE DEF x, y
    <3>4. \A v \in Worker :
             /\ c \in queue'[v] <=> y = <<"queue", v>> \/ (c \in queue[v] /\ x # <<"queue", v>>)
             /\ handed'[v] = c <=> y = <<"handed", v>> \/ (handed[v] = c /\ x # <<"handed", v>>)
             /\ current'[v] = c <=> y = <<"current", v>> \/ (current[v] = c /\ x # <<"current", v>>)
      BY <2>1, <2>2, <2>3, <2>5, <3>2
    <3>5. QED
      BY <1>7, <2>1, <3>1, <3>3, <3>4
  <2>7. ASSUME NEW m \in Carrier, m # c PROVE Ledger(m)'
    <3>1. \A v \in Worker : /\ current'[v] = m <=> current[v] = m
                            /\ handed'[v] = m <=> handed[v] = m
      BY <2>2, <2>3, <2>4, <2>5, <2>7
    <3>2. QED
      BY <1>5, <2>1, <2>7, <3>1
  <2>8. QED
    BY <2>6, <2>7, Zenon DEF Ledgers
<1>15. QED
  BY <1>8, <1>9, <1>10, <1>11, <1>12, <1>13, <1>14 DEF WorkerDoes

LEMMA PosterLedgers ==
    ASSUME Inv, NEW p \in Poster, Begin(p) \/ PosterStep(p)
    PROVE  Ledgers'
<1>1. Typed /\ Ledgers /\ Workers /\ PosterOf(p) /\ p \in Thread
  BY ThreadsOfTwoKinds DEF Inv, Posters
<1>2. /\ queue \in [Worker -> SUBSET Carrier] /\ handed \in [Worker -> Carrier \cup {NoCarrier}]
  BY <1>1, Zenon DEF Typed
<1>3. carrier \in [Carrier -> [count : Int, event : BOOLEAN, call : Call]]
  BY <1>1, Zenon DEF Typed
<1>4. NoCarrier \notin Carrier /\ NoCall.carrier = NoCarrier /\ NoCall.call \notin Sends
  BY MessagesAssumption DEF NoCall, Sends
<1>5. ASSUME NEW to, pc' = [pc EXCEPT ![p] = to]
      PROVE  pc'[p] = to /\ \A q \in Poster : q # p => pc'[q] = pc[q]
  <2>1. \A u \in Thread : pc'[u] = IF u = p THEN to ELSE pc[u]
    BY <1>1, <1>5, PcMoves
  <2>2. QED
    BY <1>1, <2>1, ThreadsOfTwoKinds
<1>6. ASSUME NEW m \in Carrier, carrier'[m].count = carrier[m].count, UNCHANGED queues,
             \A q \in Poster : q # p => op'[q] = op[q] /\ pc'[q] = pc[q],
             op'[p].carrier = m /\ pc'[p] \in Pushing <=> op[p].carrier = m /\ pc[p] \in Pushing,
             Sending(p, m)' <=> Sending(p, m)
      PROVE  Ledger(m)'
  <2>1. queue' = queue /\ handed' = handed /\ current' = current
    BY <1>6 DEF queues
  <2>2. SamePlaces(m)
    <3>1. \A q \in Poster : op'[q].carrier = m /\ pc'[q] \in Pushing
                            <=> op[q].carrier = m /\ pc[q] \in Pushing
      BY <1>6, Zenon
    <3>2. QED
      BY <2>1, <3>1, PlacesStay
  <2>3. SameSenders(m)
    BY <1>6, Zenon DEF SameSenders, Sending
  <2>4. QED
    BY <1>1, <1>6, <2>2, <2>3, LedgerSame DEF Ledgers
<1>p. /\ <<"push", p>> \in Place
      /\ \A v : <<"push", p>> # <<"queue", v>> /\ <<"push", p>> # <<"handed", v>>
                /\ <<"push", p>> # <<"current", v>>
      /\ \A q : <<"push", p>> = <<"push", q>> <=> q = p
  BY PlaceKinds
<1>7. ASSUME NEW call \in Call, NEW w \in Worker, NEW c \in Carrier, Starts(p, call, c, w)
      PROVE  Ledgers'
  <2> DEFINE o == [call |-> call, carrier |-> c, to |-> w]
  <2>1. /\ pc[p] = "idle" /\ pc' = [pc EXCEPT ![p] = "find"] /\ carrier[c].count = 0
        /\ op' = [op EXCEPT ![p] = o] /\ UNCHANGED queues
    BY <1>7, Zenon DEF Starts
  <2>2. o \in [call : Call \cup {"none"}, carrier : Carrier \cup {NoCarrier},
               to : Worker \cup {NoCarrier}] /\ o.call = call /\ o.carrier = c
    OBVIOUS
  <2> HIDE DEF o
  <2>3. \A q \in Poster : op'[q] = IF q = p THEN o ELSE op[q]
    BY <1>1, <2>1, <2>2, OpTyped
  <2>4. pc'[p] \in Pushing /\ pc[p] \notin Pushing /\ \A q \in Poster : q # p => pc'[q] = pc[q]
    BY <1>5, <2>1 DEF Pushing
  <2>5. op[p] = NoCall /\ op'[p].carrier = c /\ op'[p].call = call
    BY <1>1, <2>1, <2>2, <2>3 DEF PosterOf
  <2>6. \A m \in Carrier : carrier'[m].count =
                  IF m = c THEN (IF call \in Sends THEN 2 ELSE 1) ELSE carrier[m].count
    BY <1>1, <1>7, NewCarrier
  <2>7. Ledger(c)'
    <3> DEFINE x == <<"push", p>>
    <3>1. queue' = queue /\ handed' = handed /\ current' = current
      BY <2>1 DEF queues
    <3>2. \A v \in Worker : /\ c \in queue'[v] <=> c \in queue[v]
                            /\ handed'[v] = c <=> handed[v] = c
                            /\ current'[v] = c <=> current[v] = c
      BY <3>1
    <3>3. \A q \in Poster : op'[q].carrier = c /\ pc'[q] \in Pushing
                <=> q = p \/ (op[q].carrier = c /\ pc[q] \in Pushing)
      BY <2>3, <2>4, <2>5, Zenon
    <3>4. \A z \in Place : Holds(z, c)' <=> z = x \/ (z # x /\ Holds(z, c))
      <4>1. \A v \in Worker :
               /\ c \in queue'[v] <=> x = <<"queue", v>> \/ (c \in queue[v] /\ x # <<"queue", v>>)
               /\ handed'[v] = c <=> x = <<"handed", v>> \/ (handed[v] = c /\ x # <<"handed", v>>)
               /\ current'[v] = c
                  <=> x = <<"current", v>> \/ (current[v] = c /\ x # <<"current", v>>)
        BY <1>p, <3>2, Zenon
      <4>2. \A q \in Poster : op'[q].carrier = c /\ pc'[q] \in Pushing
               <=> x = <<"push", q>> \/ (op[q].carrier = c /\ pc[q] \in Pushing /\ x # <<"push", q>>)
        BY <1>p, <3>3, Zenon
      <4>3. QED
        BY <1>p, <4>1, <4>2, PlaceChanged
    <3>5. \A z \in Place : Holds(z, c)' <=> z = x \/ Holds(z, c)
      BY <3>4
    <3>6. PICK sends \in BOOLEAN : sends <=> call \in Sends
      OBVIOUS
    <3>7. \A q \in Poster : Sending(q, c)' <=> (q = p /\ sends) \/ (q # p /\ Sending(q, c))
      BY <2>3, <2>5, <3>6, Zenon DEF Sending
    <3>8. carrier'[c].count = IF sends THEN 2 ELSE 1
      BY <2>6, <3>6, Zenon
    <3>9. carrier[c].count = 0 /\ Ledger(c)
      BY <1>1, <2>1 DEF Ledgers
    <3>10. QED
      BY <3>5, <3>7, <3>8, <3>9, LedgerBegins
  <2>8. ASSUME NEW m \in Carrier, m # c PROVE Ledger(m)'
    <3>1. ~ (op'[p].carrier = m) /\ ~ (op[p].carrier = m)
      BY <1>4, <2>5, <2>8, Zenon
    <3>2. Sending(p, m)' <=> Sending(p, m)
      BY <3>1, Zenon DEF Sending
    <3>3. carrier'[m].count = carrier[m].count
      BY <2>6, <2>8, Zenon
    <3>4. \A q \in Poster : q # p => op'[q] = op[q] /\ pc'[q] = pc[q]
      BY <2>3, <2>4, Zenon
    <3>5. QED
      BY <1>6, <2>1, <3>1, <3>2, <3>3, <3>4
  <2>9. QED
    BY <2>7, <2>8, Zenon DEF Ledgers
<1>8. ASSUME UNCHANGED queues, op' = op, carrier' = carrier,
             \A q \in Poster : q # p => pc'[q] = pc[q], pc'[p] \in Pushing <=> pc[p] \in Pushing
      PROVE  Ledgers'
  <2>1. \A m \in Carrier : Sending(p, m)' <=> Sending(p, m)
    BY <1>8, Zenon DEF Sending
  <2>2. QED
    BY <1>6, <1>8, <2>1, Zenon DEF Ledgers
<1>9. CASE Find(p)
  <2>1. /\ pc[p] = "find" /\ UNCHANGED <<queues, op, carrier>>
        /\ \E to \in {"found", "refused"} : pc' = [pc EXCEPT ![p] = to]
    BY <1>9, Zenon DEF Find, Holding
  <2>2. pc[p] \in Pushing /\ pc'[p] \in Pushing
    BY <1>5, <2>1 DEF Pushing
  <2>3. QED
    BY <1>5, <1>8, <2>1, <2>2
<1>10. CASE PushEnds(p)
  BY <1>8, <1>10 DEF PushEnds
<1>11. CASE Enqueue(p)
  <2>1. /\ pc[p] = "found" /\ pc' = [pc EXCEPT ![p] = "pushed"]
        /\ current' = current /\ op' = op /\ carrier' = carrier
    BY <1>11, Zenon DEF Enqueue, Holding
  <2>2. PICK w \in Worker, c \in Carrier : w = op[p].to /\ c = op[p].carrier
    BY <1>1, <2>1 DEF PosterOf
  <2>3. \/ /\ waits[w] /\ handed' = [handed EXCEPT ![w] = c] /\ queue' = queue
        \/ /\ queue' = [queue EXCEPT ![w] = queue[w] \cup {c}] /\ handed' = handed
    BY <1>11, <2>2, Zenon DEF Enqueue
  <2>4. waits[w] => handed[w] = NoCarrier
    BY <1>1 DEF Workers, WorkerOf
  <2>5. pc[p] \in Pushing /\ pc'[p] \notin Pushing /\ \A q \in Poster : q # p => pc'[q] = pc[q]
    <3>1. pc'[p] = "pushed" /\ \A q \in Poster : q # p => pc'[q] = pc[q]
      BY <1>5, <2>1
    <3>2. pc[p] = "found"
      BY <2>1
    <3>3. QED
      BY <3>1, <3>2 DEF Pushing
  <2>6. PICK kind \in {"handed", "queue"} :
           \A v \in Worker :
              /\ c \in queue'[v] <=> (kind = "queue" /\ v = w) \/ c \in queue[v]
              /\ handed'[v] = c <=> (kind = "handed" /\ v = w) \/ handed[v] = c
              /\ \A m \in Carrier \ {c} : /\ m \in queue'[v] <=> m \in queue[v]
                                          /\ handed'[v] = m <=> handed[v] = m
    <3>1. CASE waits[w] /\ handed' = [handed EXCEPT ![w] = c] /\ queue' = queue
      <4>1. \A v \in Worker : handed'[v] = IF v = w THEN c ELSE handed[v]
        BY <1>2, <3>1
      <4>2. \A v \in Worker : handed'[v] = c <=> v = w \/ handed[v] = c
        BY <4>1
      <4>3. \A v \in Worker : \A m \in Carrier \ {c} : handed'[v] = m <=> handed[v] = m
        BY <1>4, <2>4, <3>1, <4>1
      <4>4. QED
        BY <3>1, <4>2, <4>3
    <3>2. CASE queue' = [queue EXCEPT ![w] = queue[w] \cup {c}] /\ handed' = handed
      <4>1. \A v \in Worker : queue'[v] = IF v = w THEN queue[w] \cup {c} ELSE queue[v]
        BY <1>2, <3>2
      <4>2. \A v \in Worker : /\ c \in queue'[v] <=> v = w \/ c \in queue[v]
                              /\ \A m \in Carrier \ {c} : m \in queue'[v] <=> m \in queue[v]
        BY <4>1
      <4>3. QED
        BY <3>2, <4>2
    <3>3. QED
      BY <2>3, <3>1, <3>2
  <2>7. Ledger(c)'
    <3> DEFINE x == <<"push", p>>
    <3>1. PICK y \in Place : y = <<kind, w>>
      BY PlaceKinds
    <3>2. /\ \A v : (y = <<"queue", v>> <=> kind = "queue" /\ v = w)
                    /\ (y = <<"handed", v>> <=> kind = "handed" /\ v = w)
                    /\ y # <<"current", v>> /\ y # <<"push", v>>
      BY <3>1
    <3>3. \A v \in Worker :
             /\ c \in queue'[v] <=> y = <<"queue", v>> \/ (c \in queue[v] /\ x # <<"queue", v>>)
             /\ handed'[v] = c <=> y = <<"handed", v>> \/ (handed[v] = c /\ x # <<"handed", v>>)
             /\ current'[v] = c <=> y = <<"current", v>> \/ (current[v] = c /\ x # <<"current", v>>)
      <4>1. \A v \in Worker : c \in queue'[v] <=> y = <<"queue", v>> \/ (c \in queue[v] /\ x # <<"queue", v>>)
        BY <1>p, <2>6, <3>2, Zenon
      <4>2. \A v \in Worker : handed'[v] = c <=> y = <<"handed", v>> \/ (handed[v] = c /\ x # <<"handed", v>>)
        BY <1>p, <2>6, <3>2, Zenon
      <4>3. \A v \in Worker : current'[v] = c <=> y = <<"current", v>> \/ (current[v] = c /\ x # <<"current", v>>)
        BY <1>p, <2>1, <3>2, Zenon
      <4>4. QED
        BY <4>1, <4>2, <4>3, Zenon
    <3>4. \A q \in Poster : op'[q].carrier = c /\ pc'[q] \in Pushing
             <=> y = <<"push", q>> \/ (op[q].carrier = c /\ pc[q] \in Pushing /\ x # <<"push", q>>)
      BY <1>p, <2>1, <2>5, <3>2, Zenon
    <3>5. Holds(x, c) /\ x \in Place
      BY <1>p, <2>2, <2>5, HoldsKinds
    <3> HIDE DEF x
    <3>6. \A z \in Place : Holds(z, c)' <=> z = y \/ (z # x /\ Holds(z, c))
      BY <3>3, <3>4, <3>5, PlaceChanged
    <3>7. SameSenders(c) /\ carrier'[c].count = carrier[c].count /\ Ledger(c)
      BY <1>1, <2>1, SendersStay DEF Ledgers
    <3>8. QED
      BY <3>5, <3>6, <3>7, LedgerMoves
  <2>8. ASSUME NEW m \in Carrier, m # c PROVE Ledger(m)'
    <3>1. \A v \in Worker : /\ m \in queue'[v] <=> m \in queue[v]
                            /\ handed'[v] = m <=> handed[v] = m
                            /\ current'[v] = m <=> current[v] = m
      BY <2>1, <2>6, <2>8
    <3>2. \A q \in Poster : op'[q].carrier = m /\ pc'[q] \in Pushing
                            <=> op[q].carrier = m /\ pc[q] \in Pushing
      BY <2>1, <2>2, <2>5, <2>8, Zenon
    <3>3. SamePlaces(m)
      BY <3>1, <3>2, PlacesStay
    <3>4. SameSenders(m) /\ carrier'[m].count = carrier[m].count /\ Ledger(m)
      BY <1>1, <2>1, SendersStay DEF Ledgers
    <3>5. QED
      BY <3>3, <3>4, LedgerSame
  <2>9. QED
    BY <2>7, <2>8, Zenon DEF Ledgers
<1>12. CASE Posted(p)
  <2>1. /\ pc[p] = "pushed" /\ op[p].call \notin Sends /\ Forget(p)
        /\ pc' = [pc EXCEPT ![p] = "idle"] /\ UNCHANGED queues /\ carrier' = carrier
    BY <1>12, Zenon DEF Posted, At
  <2>2. \A q \in Poster : op'[q] = IF q = p THEN NoCall ELSE op[q]
    BY <1>1, <2>1, ForgetTyped
  <2>3. pc[p] \notin Pushing /\ pc'[p] \notin Pushing /\ \A q \in Poster : q # p => pc'[q] = pc[q]
    BY <1>5, <2>1 DEF Pushing
  <2>4. \A m \in Carrier : ~ Sending(p, m)' /\ ~ Sending(p, m)
    BY <1>4, <2>1, <2>2, Zenon DEF Sending
  <2>5. QED
    BY <1>6, <2>1, <2>2, <2>3, <2>4, Zenon DEF Ledgers
<1>13. ASSUME NEW c \in Carrier, c = op[p].carrier, NEW n, n \in {1, 2}, carrier' = Released(c, n),
              Forget(p), pc' = [pc EXCEPT ![p] = "idle"], UNCHANGED queues,
              \/ n = 1 /\ pc[p] = "refused" /\ op[p].call \notin Sends
              \/ n = 1 /\ pc[p] = "pushed" /\ op[p].call \in Sends
              \/ n = 2 /\ pc[p] = "refused" /\ op[p].call \in Sends
       PROVE  Ledgers'
  <2>1. \A q \in Poster : op'[q] = IF q = p THEN NoCall ELSE op[q]
    BY <1>1, <1>13, ForgetTyped
  <2>2. /\ pc'[p] \notin Pushing /\ \A q \in Poster : q # p => pc'[q] = pc[q]
        /\ pc[p] = "refused" => pc[p] \in Pushing
        /\ pc[p] = "pushed" => pc[p] \notin Pushing
    <3>1. pc'[p] = "idle" /\ \A q \in Poster : q # p => pc'[q] = pc[q]
      BY <1>5, <1>13
    <3>2. QED
      BY <3>1 DEF Pushing
  <2>3. \A m \in Carrier : carrier'[m].count =
                              IF m = c THEN carrier[c].count - n ELSE carrier[m].count
    BY <1>3, <1>13, CountDown
  <2>4. queue' = queue /\ handed' = handed /\ current' = current
    BY <1>13 DEF queues
  <2>5. Ledger(c)'
    <3> DEFINE x == <<"push", p>>
    <3>1. ASSUME pc[p] = "refused" PROVE PlaceEnds(x, c)
      <4>1. \A v \in Worker : /\ c \in queue'[v] <=> c \in queue[v] /\ x # <<"queue", v>>
                              /\ handed'[v] = c <=> handed[v] = c /\ x # <<"handed", v>>
                              /\ current'[v] = c <=> current[v] = c /\ x # <<"current", v>>
        BY <1>p, <2>4, Zenon
      <4>2. \A q \in Poster : op'[q].carrier = c /\ pc'[q] \in Pushing
                              <=> op[q].carrier = c /\ pc[q] \in Pushing /\ x # <<"push", q>>
        BY <1>p, <2>1, <2>2, Zenon
      <4>3. Holds(x, c) /\ x \in Place
        BY <1>p, <1>13, <2>2, <3>1, HoldsKinds
      <4> HIDE DEF x
      <4>4. QED
        BY <4>1, <4>2, <4>3, PlaceLeft
    <3>2. ASSUME pc[p] = "pushed" PROVE SamePlaces(c)
      <4>1. \A q \in Poster : op'[q].carrier = c /\ pc'[q] \in Pushing
                              <=> op[q].carrier = c /\ pc[q] \in Pushing
        BY <2>1, <2>2, <3>2, Zenon
      <4>2. QED
        BY <2>4, <4>1, PlacesStay
    <3>3. ASSUME op[p].call \in Sends PROVE SenderEnds(p, c)
      BY <1>4, <1>13, <2>1, <3>3, Zenon DEF SenderEnds, Sending
    <3>4. ASSUME op[p].call \notin Sends PROVE SameSenders(c)
      BY <1>4, <2>1, <3>4, Zenon DEF SameSenders, Sending
    <3>5. x \in Place /\ Ledger(c) /\ carrier'[c].count = carrier[c].count - n
      BY <1>1, <1>p, <2>3 DEF Ledgers
    <3> HIDE DEF x
    <3>6. \/ n = 1 /\ SameSenders(c) /\ \E y \in Place : PlaceEnds(y, c)
          \/ n = 1 /\ SamePlaces(c) /\ \E q \in Poster : SenderEnds(q, c)
          \/ n = 2 /\ (\E y \in Place : PlaceEnds(y, c)) /\ \E q \in Poster : SenderEnds(q, c)
      BY <1>13, <3>1, <3>2, <3>3, <3>4, <3>5, Zenon
    <3>7. QED
      BY <3>5, <3>6, LedgerEnds
  <2>6. ASSUME NEW m \in Carrier, m # c PROVE Ledger(m)'
    <3>1. ~ (op'[p].carrier = m) /\ ~ (op[p].carrier = m)
      BY <1>4, <1>13, <2>1, <2>6, Zenon
    <3>2. Sending(p, m)' <=> Sending(p, m)
      BY <3>1, Zenon DEF Sending
    <3>3. QED
      BY <1>6, <1>13, <2>1, <2>2, <2>3, <2>6, <3>1, <3>2
  <2>7. QED
    BY <2>5, <2>6, Zenon DEF Ledgers
<1>14. CASE Refused(p)
  <2>1. /\ pc[p] = "refused" /\ pc' = [pc EXCEPT ![p] = "idle"] /\ Forget(p) /\ UNCHANGED queues
        /\ \/ op[p].call \in Sends /\ carrier' = Released(op[p].carrier, 2)
           \/ op[p].call \notin Sends /\ carrier' = Released(op[p].carrier, 1)
    BY <1>14, Zenon DEF Refused, At
  <2>2. op[p].carrier \in Carrier
    BY <1>1, <2>1 DEF PosterOf
  <2>3. QED
    BY <1>13, <2>1, <2>2
<1>15. CASE Answered(p)
  <2>1. /\ pc[p] = "pushed" /\ pc' = [pc EXCEPT ![p] = "idle"] /\ Forget(p) /\ UNCHANGED queues
        /\ op[p].call \in Sends /\ carrier' = Released(op[p].carrier, 1)
    BY <1>15, Zenon DEF Answered, At
  <2>2. op[p].carrier \in Carrier
    BY <1>1, <2>1 DEF PosterOf
  <2>3. QED
    BY <1>13, <2>1, <2>2
<1>16. QED
  BY <1>7, <1>9, <1>10, <1>11, <1>12, <1>14, <1>15, BeginStarts DEF PosterStep

LEMMA LedgersKept ==
    ASSUME Inv, [Next]_vars
    PROVE  Ledgers'
<1>1. ASSUME UNCHANGED <<pc, queues, op, carrier>> PROVE Ledgers'
  <2>1. /\ pc' = pc /\ op' = op /\ carrier' = carrier
        /\ queue' = queue /\ handed' = handed /\ current' = current
    BY <1>1 DEF queues
  <2>2. ASSUME NEW m \in Carrier PROVE Ledger(m)'
    <3>1. SamePlaces(m)
      BY <2>1, PlacesStay
    <3>2. QED
      BY <2>1, <3>1, SendersStay, LedgerSame DEF Inv, Ledgers
  <2>3. QED
    BY <2>2 DEF Ledgers
<1>2. ASSUME NEW p \in Poster, Begin(p) \/ PosterStep(p) PROVE Ledgers'
  BY <1>2, PosterLedgers
<1>3. ASSUME NEW w \in Worker, ContextBegins(w) \/ WorkerStep(w) PROVE Ledgers'
  BY <1>3, WorkerCases, WorkerLedgers
<1>4. ASSUME NEW t \in Thread, InMutex(t) PROVE Ledgers'
  BY <1>1, <1>4 DEF InMutex
<1>5. CASE UNCHANGED vars
  BY <1>1, <1>5 DEF vars
<1>6. QED
  BY <1>2, <1>3, <1>4, <1>5 DEF Next

LEMMA TypedKept ==
    ASSUME Inv, [Next]_vars
    PROVE  Typed'
<1>1. ASSUME UNCHANGED <<pc, queues, op, carrier>> PROVE Typed'
  <2>1. Typed
    BY DEF Inv
  <2>2. QED
    BY <1>1, <2>1, Zenon DEF Typed, queues
<1>2. ASSUME NEW p \in Poster, Begin(p) \/ PosterStep(p) PROVE Typed'
  BY <1>2, PosterTyped DEF Inv, Posters
<1>3. ASSUME NEW w \in Worker, ContextBegins(w) \/ WorkerStep(w) PROVE Typed'
  BY <1>3, WorkerCases, WorkerTyped DEF Inv
<1>4. ASSUME NEW t \in Thread, InMutex(t) PROVE Typed'
  BY <1>1, <1>4 DEF InMutex
<1>5. CASE UNCHANGED vars
  BY <1>1, <1>5 DEF vars
<1>6. QED
  BY <1>2, <1>3, <1>4, <1>5 DEF Next

LEMMA InvAtFirst == Init => Inv
<1> SUFFICES ASSUME Init PROVE Inv
  OBVIOUS
<1>1. /\ g_map = {} /\ pc = [t \in Thread |-> IF t \in Worker THEN "off" ELSE "idle"]
      /\ queue = [w \in Worker |-> {}]
      /\ handed = [w \in Worker |-> NoCarrier] /\ current = [w \in Worker |-> NoCarrier]
      /\ op = [p \in Poster |-> NoCall]
  BY DEF Init
<1>2. waits = [w \in Worker |-> FALSE] /\ carrier = [m \in Carrier |-> Deleted]
  BY DEF Init
<1>3. MutexInv
  BY MutexInvAtFirst DEF Init
<1>4. \A w \in Worker : pc[w] = "off" /\ queue[w] = {} /\ handed[w] = NoCarrier /\ current[w] = NoCarrier
  BY <1>1, ThreadsOfTwoKinds
<1>5. \A w \in Worker : ~waits[w]
  BY <1>2
<1>6. \A p \in Poster : pc[p] = "idle" /\ op[p] = NoCall
  BY <1>1, ThreadsOfTwoKinds
<1>7. Typed
  <2>1. g_map \subseteq Worker /\ queue \in [Worker -> SUBSET Carrier]
    BY <1>1
  <2>2. /\ handed \in [Worker -> Carrier \cup {NoCarrier}]
        /\ current \in [Worker -> Carrier \cup {NoCarrier}]
    BY <1>1
  <2>3. pc \in [Thread -> PosterState \cup WorkerState]
    BY <1>1 DEF PosterState, WorkerState, Outside
  <2>4. waits \in [Worker -> BOOLEAN]
    BY <1>2
  <2>5. op \in [Poster -> [call : Call \cup {"none"}, carrier : Carrier \cup {NoCarrier},
                           to : Worker \cup {NoCarrier}]]
    BY <1>1 DEF NoCall
  <2>6. Deleted \in [count : Int, event : BOOLEAN, call : Call]
    <3>1. PICK unset \in BOOLEAN : unset = FALSE
      OBVIOUS
    <3>2. Deleted = [count |-> 0, event |-> unset, call |-> "post"]
      BY <3>1, Zenon DEF Deleted
    <3>3. "post" \in Call
      BY DEF Call
    <3>4. QED
      BY <3>2, <3>3
  <2>7. carrier \in [Carrier -> [count : Int, event : BOOLEAN, call : Call]]
    BY <1>2, <2>6
  <2>8. QED
    BY <2>1, <2>2, <2>3, <2>4, <2>5, <2>7, Zenon DEF Typed
<1>8. Posters
  <2>1. \A p \in Poster : lock[p] = "free"
    BY ThreadsOfTwoKinds DEF Init, InitMutex
  <2>2. QED
    BY <1>6, <2>1 DEF Posters, PosterOf, PosterState
<1>9. Workers
  <2>1. /\ "off" \in WorkerState /\ "off" \in Outside /\ "off" \notin Registered
    BY DEF WorkerState, Outside, Registered
  <2>2. \A w \in Worker : w \notin g_map
    BY <1>1
  <2>3. QED
    BY <1>4, <1>5, <2>1, <2>2, Zenon DEF Workers, WorkerOf
<1>10. ASSUME NEW m \in Carrier PROVE Ledger(m)
  <2>1. NoCarrier # m /\ NoCall.carrier = NoCarrier
    BY MessagesAssumption DEF NoCall
  <2>2. \A w \in Worker : m \notin queue[w] /\ handed[w] # m /\ current[w] # m
    BY <1>4, <2>1
  <2>3. \A p \in Poster : op[p].carrier # m
    BY <1>6, <2>1
  <2>4. ~Somewhere(m) /\ ~SomebodySends(m)
    <3>1. ASSUME NEW x \in Place, Holds(x, m) PROVE FALSE
      <4>1. CASE \E p \in Poster : x = <<"push", p>>
        BY <2>3, <3>1, <4>1, HoldsKinds
      <4>2. ASSUME NEW w \in Worker, x \in {<<"queue", w>>, <<"handed", w>>, <<"current", w>>}
            PROVE  FALSE
        <5>1. ~Holds(<<"queue", w>>, m) /\ ~Holds(<<"handed", w>>, m) /\ ~Holds(<<"current", w>>, m)
          BY <2>2, HoldsKinds, Zenon
        <5>2. QED
          BY <3>1, <4>2, <5>1, Zenon
      <4>3. QED
        BY <3>1, <4>1, <4>2, PlaceKinds
    <3>2. QED
      BY <2>3, <3>1, Zenon DEF Somewhere, SomebodySends, Sending
  <2>5. carrier[m].count = 0
    BY <1>2 DEF Deleted
  <2>6. carrier[m].count = (IF Somewhere(m) THEN 1 ELSE 0) + (IF SomebodySends(m) THEN 1 ELSE 0)
    BY <2>4, <2>5
  <2>7. /\ \A x, y \in Place : Holds(x, m) /\ Holds(y, m) => x = y
        /\ \A p, q \in Poster : Sending(p, m) /\ Sending(q, m) => p = q
    BY <2>4, Zenon DEF Somewhere, SomebodySends
  <2>8. QED
    BY <2>6, <2>7, Zenon DEF Ledger
<1>11. QED
  BY <1>3, <1>7, <1>8, <1>9, <1>10 DEF Inv, Ledgers

LEMMA InvKept ==
    ASSUME Inv, [Next]_vars
    PROVE  Inv'
BY StepOnMutex, MutexInvKept, TypedKept, PostersKept, WorkersKept, LedgersKept DEF Inv

\* The inductive invariant: types and the mutex, what the posters and the workers
\* are doing, and the references of each carrier, in every reachable state.
THEOREM InvHolds == Spec => []Inv
BY InvAtFirst, InvKept, PTL DEF Spec

(***************************************************************************)
(* The properties.                                                         *)
(***************************************************************************)

LEMMA OneOrNone ==
    ASSUME NEW S, \A x, y \in S : x = y
    PROVE  Cardinality(S) = IF S = {} THEN 0 ELSE 1
<1>1. CASE S = {}
  BY <1>1, FS_EmptySet
<1>2. CASE S # {}
  <2>1. PICK x : S = {x}
    BY <1>2
  <2>2. QED
    BY <1>2, <2>1, FS_Singleton
<1>3. QED
  BY <1>1, <1>2

LEMMA CountIsHeld ==
    ASSUME NEW m \in Carrier, Ledger(m)
    PROVE  carrier[m].count = Held(m)
<1> DEFINE queued == {w \in Worker : m \in queue[w]}
           given == {w \in Worker : handed[w] = m}
           handling == {w \in Worker : current[w] = m}
           pushing == {p \in Poster : op[p].carrier = m /\ pc[p] \in Pushing}
           sending == {p \in Poster : op[p].carrier = m /\ op[p].call \in Sends}
<1>1. \A x, y \in Place : Holds(x, m) /\ Holds(y, m) => x = y
  BY DEF Ledger
<1>2. /\ \A w \in queued : <<"queue", w>> \in Place /\ Holds(<<"queue", w>>, m)
      /\ \A w \in given : <<"handed", w>> \in Place /\ Holds(<<"handed", w>>, m)
      /\ \A w \in handling : <<"current", w>> \in Place /\ Holds(<<"current", w>>, m)
      /\ \A p \in pushing : <<"push", p>> \in Place /\ Holds(<<"push", p>>, m)
  BY PlaceKinds, HoldsKinds
<1>3. \A x \in Place : Holds(x, m) =>
         \/ \E w \in queued : x = <<"queue", w>>
         \/ \E w \in given : x = <<"handed", w>>
         \/ \E w \in handling : x = <<"current", w>>
         \/ \E p \in pushing : x = <<"push", p>>
  <2>1. ASSUME NEW x \in Place, Holds(x, m), NEW w \in Worker,
               x \in {<<"queue", w>>, <<"handed", w>>, <<"current", w>>}
        PROVE  \/ w \in queued /\ x = <<"queue", w>>
               \/ w \in given /\ x = <<"handed", w>>
               \/ w \in handling /\ x = <<"current", w>>
    <3>1. /\ Holds(<<"queue", w>>, m) => w \in queued
          /\ Holds(<<"handed", w>>, m) => w \in given
          /\ Holds(<<"current", w>>, m) => w \in handling
      BY HoldsKinds
    <3> HIDE DEF queued, given, handling
    <3>2. QED
      BY <2>1, <3>1, Zenon
  <2>2. ASSUME NEW x \in Place, Holds(x, m), NEW p \in Poster, x = <<"push", p>>
        PROVE  p \in pushing
    BY <2>2, HoldsKinds
  <2> HIDE DEF queued, given, handling, pushing
  <2>3. QED
    BY <2>1, <2>2, PlaceKinds, Zenon
<1>4. /\ \A p, q \in sending : p = q
      /\ SomebodySends(m) <=> sending # {}
  BY DEF Ledger, SomebodySends, Sending
<1>5. /\ Held(m) = Cardinality(queued) + Cardinality(given) + Cardinality(handling)
                   + Cardinality(pushing) + Cardinality(sending)
      /\ carrier[m].count = (IF Somewhere(m) THEN 1 ELSE 0) + (IF SomebodySends(m) THEN 1 ELSE 0)
  BY DEF Held, Ledger, Pushing
<1> HIDE DEF queued, given, handling, pushing, sending
<1>6. /\ \A v, w \in queued : v = w
      /\ \A v, w \in given : v = w
      /\ \A v, w \in handling : v = w
      /\ \A v, w \in pushing : v = w
  BY <1>1, <1>2
<1>7. /\ queued = {} \/ given = {}
      /\ queued = {} \/ handling = {}
      /\ queued = {} \/ pushing = {}
      /\ given = {} \/ handling = {}
      /\ given = {} \/ pushing = {}
      /\ handling = {} \/ pushing = {}
  BY <1>1, <1>2
<1>8. Somewhere(m) <=> queued # {} \/ given # {} \/ handling # {} \/ pushing # {}
  BY <1>2, <1>3 DEF Somewhere
<1>9. /\ Cardinality(queued) = IF queued = {} THEN 0 ELSE 1
      /\ Cardinality(given) = IF given = {} THEN 0 ELSE 1
      /\ Cardinality(handling) = IF handling = {} THEN 0 ELSE 1
      /\ Cardinality(pushing) = IF pushing = {} THEN 0 ELSE 1
      /\ Cardinality(sending) = IF sending = {} THEN 0 ELSE 1
  BY <1>4, <1>6, OneOrNone
<1>10. Cardinality(queued) + Cardinality(given) + Cardinality(handling) + Cardinality(pushing)
          = IF Somewhere(m) THEN 1 ELSE 0
  BY <1>7, <1>8, <1>9
<1>11. Cardinality(sending) = IF SomebodySends(m) THEN 1 ELSE 0
  BY <1>4, <1>9
<1>12. QED
  BY <1>5, <1>10, <1>11

\* A carrier counts exactly the references there are, for any number of
\* threads and carriers: it is deleted with the last one, never before, and
\* none is left with a count nobody will give up.
THEOREM CountsAreExact == Spec => []CountsExact
<1>1. Inv => CountsExact
  <2> SUFFICES ASSUME Inv PROVE CountsExact
    OBVIOUS
  <2>1. MutexOK /\ g_map \subseteq Worker
    BY DEF Inv, MutexInv, Typed
  <2>2. \A m \in Carrier : carrier[m].count = Held(m)
    BY CountIsHeld DEF Inv, Ledgers
  <2>3. \A w \in Worker : waits[w] => handed[w] = NoCarrier /\ queue[w] = {}
    BY Zenon DEF Inv, Workers, WorkerOf
  <2>4. QED
    BY <2>1, <2>2, <2>3, Zenon DEF CountsExact
<1>2. QED
  BY <1>1, InvHolds, PTL

\* While a message is pushed its queue is registered: the readers-writer mutex
\* keeps the owner out, with any number of readers and writers waiting.
THEOREM QueueIsThere == Spec => []QueueStays
<1>1. Inv => QueueStays
  BY WriterIsAlone DEF Inv, QueueStays, Posters, PosterOf
<1>2. QED
  BY <1>1, InvHolds, PTL

\* A worker that ended left no message behind (MsgContext.cpp 157).
THEOREM NothingIsLeft == Spec => []NothingLeft
<1>1. Inv => NothingLeft
  <2> SUFFICES ASSUME Inv, NEW w \in Worker, pc[w] = "off"
               PROVE  queue[w] = {} /\ handed[w] = NoCarrier /\ w \notin g_map
    BY DEF NothingLeft
  <2>1. "off" \in Outside /\ "off" \notin Registered /\ "off" # "wait"
    BY DEF Outside, Registered
  <2>2. QED
    BY <2>1, Zenon DEF Inv, Workers, WorkerOf
<1>2. QED
  BY <1>1, InvHolds, PTL
=============================================================================
