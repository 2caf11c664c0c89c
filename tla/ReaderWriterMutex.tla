--------------------------- MODULE ReaderWriterMutex ---------------------------
(***************************************************************************)
(* ReaderWriterMutex: counters under a critical section, and a semaphore   *)
(* for the readers and one for the writers that wait.  Waiting writers go  *)
(* before new readers.  Done hands the mutex over in the counters and      *)
(* releases the semaphore afterwards, in a step of its own: until then,    *)
(* and until those who wait took their turn, others come and go.           *)
(***************************************************************************)
EXTENDS Integers

CONSTANT Thread

VARIABLES
    m_active,            \* -1: a writer, n > 0: readers
    m_waiting_readers, m_waiting_writers,
    m_sema_readers, m_sema_writers,
    lock,                \* what each thread does with the mutex
    owed                 \* what a thread in "signal ..." releases

mutex == <<m_active, m_waiting_readers, m_waiting_writers, m_sema_readers,
           m_sema_writers, lock, owed>>

InitMutex ==
    /\ m_active = 0 /\ m_waiting_readers = 0 /\ m_waiting_writers = 0
    /\ m_sema_readers = 0 /\ m_sema_writers = 0
    /\ lock = [t \in Thread |-> "free"]
    /\ owed = [t \in Thread |-> 0]

Moves(t, from, to) == lock[t] = from /\ lock' = [lock EXCEPT ![t] = to]

\* WaitToRead.  Faulty variant: a writer that has the mutex is not seen.
WaitToReadBlind(t) ==
    /\ LET is_pending == m_waiting_writers > 0 IN
       /\ Moves(t, "free", IF is_pending THEN "wait to read" ELSE "read")
       /\ m_waiting_readers' = IF is_pending THEN m_waiting_readers + 1 ELSE m_waiting_readers
       /\ m_active' = IF is_pending THEN m_active ELSE m_active + 1
    /\ UNCHANGED <<m_waiting_writers, m_sema_readers, m_sema_writers, owed>>

WaitToRead(t) ==
    /\ LET is_pending == m_waiting_writers > 0 \/ m_active < 0 IN
       /\ Moves(t, "free", IF is_pending THEN "wait to read" ELSE "read")
       /\ m_waiting_readers' = IF is_pending THEN m_waiting_readers + 1 ELSE m_waiting_readers
       /\ m_active' = IF is_pending THEN m_active ELSE m_active + 1
    /\ UNCHANGED <<m_waiting_writers, m_sema_readers, m_sema_writers, owed>>

WaitToWrite(t) ==
    /\ LET resource_owned == m_active # 0 IN
       /\ Moves(t, "free", IF resource_owned THEN "wait to write" ELSE "write")
       /\ m_waiting_writers' = IF resource_owned THEN m_waiting_writers + 1
                               ELSE m_waiting_writers
       /\ m_active' = IF resource_owned THEN m_active ELSE -1
    /\ UNCHANGED <<m_waiting_readers, m_sema_readers, m_sema_writers, owed>>

AcquireRead(t) ==
    /\ m_sema_readers > 0 /\ m_sema_readers' = m_sema_readers - 1
    /\ Moves(t, "wait to read", "read")
    /\ UNCHANGED <<m_active, m_waiting_readers, m_waiting_writers, m_sema_writers, owed>>

AcquireWrite(t) ==
    /\ m_sema_writers > 0 /\ m_sema_writers' = m_sema_writers - 1
    /\ Moves(t, "wait to write", "write")
    /\ UNCHANGED <<m_active, m_waiting_readers, m_waiting_writers, m_sema_readers, owed>>

\* Done, under the critical section, with the mutex in `left' afterwards.
Left == IF m_active > 0 THEN m_active - 1 ELSE m_active + 1

\* Somebody has it still, or nobody wants it.
DoneAlone(t) ==
    /\ lock[t] \in {"read", "write"}
    /\ Left # 0 \/ (m_waiting_writers = 0 /\ m_waiting_readers = 0)
    /\ m_active' = Left
    /\ lock' = [lock EXCEPT ![t] = "free"]
    /\ UNCHANGED <<m_waiting_readers, m_waiting_writers, m_sema_readers, m_sema_writers, owed>>

DoneToWriter(t) ==
    /\ lock[t] \in {"read", "write"}
    /\ Left = 0 /\ m_waiting_writers > 0
    /\ m_active' = -1 /\ m_waiting_writers' = m_waiting_writers - 1
    /\ lock' = [lock EXCEPT ![t] = "signal writer"]
    /\ owed' = [owed EXCEPT ![t] = 1]
    /\ UNCHANGED <<m_waiting_readers, m_sema_readers, m_sema_writers>>

\* Faulty variant: one of the waiting readers is let in.
DoneToOneReader(t) ==
    /\ lock[t] \in {"read", "write"}
    /\ Left = 0 /\ m_waiting_writers = 0 /\ m_waiting_readers > 0
    /\ m_active' = m_waiting_readers /\ m_waiting_readers' = 0
    /\ lock' = [lock EXCEPT ![t] = "signal readers"]
    /\ owed' = [owed EXCEPT ![t] = 1]
    /\ UNCHANGED <<m_waiting_writers, m_sema_readers, m_sema_writers>>

DoneToReaders(t) ==
    /\ lock[t] \in {"read", "write"}
    /\ Left = 0 /\ m_waiting_writers = 0 /\ m_waiting_readers > 0
    /\ m_active' = m_waiting_readers /\ m_waiting_readers' = 0
    /\ lock' = [lock EXCEPT ![t] = "signal readers"]
    /\ owed' = [owed EXCEPT ![t] = m_waiting_readers]
    /\ UNCHANGED <<m_waiting_writers, m_sema_readers, m_sema_writers>>

Done(t) == DoneAlone(t) \/ DoneToWriter(t) \/ DoneToReaders(t)

\* Done, psema->Release(n).
Signal(t) ==
    /\ lock[t] \in {"signal writer", "signal readers"}
    /\ IF lock[t] = "signal writer"
       THEN m_sema_writers' = m_sema_writers + owed[t] /\ UNCHANGED m_sema_readers
       ELSE m_sema_readers' = m_sema_readers + owed[t] /\ UNCHANGED m_sema_writers
    /\ owed' = [owed EXCEPT ![t] = 0]
    /\ lock' = [lock EXCEPT ![t] = "free"]
    /\ UNCHANGED <<m_active, m_waiting_readers, m_waiting_writers>>

\* What goes on inside the calls.
MutexStep(t) == AcquireRead(t) \/ AcquireWrite(t) \/ Signal(t)

MutexNext == \E t \in Thread : WaitToRead(t) \/ WaitToWrite(t) \/ Done(t) \/ MutexStep(t)

MutexSpec == InitMutex /\ [][MutexNext]_mutex

MutexOK ==
    /\ m_active \in Nat \cup {-1}
    /\ m_waiting_readers \in Nat /\ m_waiting_writers \in Nat
    /\ m_sema_readers \in Nat /\ m_sema_writers \in Nat
    /\ lock \in [Thread -> {"free", "wait to read", "read", "wait to write", "write",
                            "signal writer", "signal readers"}]
    /\ owed \in [Thread -> Nat]

\* A writer is alone.
Exclusive == \A t, u \in Thread : lock[t] = "write" /\ u # t => lock[u] \notin {"read", "write"}
=============================================================================
