------------------------------- MODULE Messages -------------------------------
(***************************************************************************)
(* The message queues of threads: the map from thread ids to queues under  *)
(* a reader-writer mutex, the queue of a worker thread, which its          *)
(* MsgContext registers, empties and removes, and the threads that post or *)
(* send to it.                                                             *)
(*                                                                         *)
(* A message travels in a carrier that counts its references and is        *)
(* deleted with the last.  Priorities are left out, and the queue has no   *)
(* order: a std::priority_queue promises none among equal messages.  Only  *)
(* its owner waits at a queue.                                             *)
(***************************************************************************)
EXTENDS ReaderWriterMutex, FiniteSets

CONSTANTS
    Worker,    \* the threads with a MsgContext
    Poster,    \* the threads that post to them
    Carrier,   \* what memory holds: a deleted carrier can be new again
    NoCarrier

ASSUME MessagesAssumption ==
    /\ Thread = Worker \cup Poster /\ Worker \cap Poster = {}
    /\ IsFiniteSet(Thread) /\ IsFiniteSet(Carrier) /\ NoCarrier \notin Carrier

VARIABLES
    g_map,     \* the workers whose queue is registered
    pc,        \* what each thread does
    queue,     \* m_queue of each worker's queue
    waits,     \* is its owner in m_wait_queue?
    handed,    \* WaitInfo: what Enqueue gave to the waiting owner
    current,   \* m_curr_msg
    op,        \* of each poster: its call, the carrier, the worker
    carrier    \* references, the call it was made for, is its event set?

queues == <<g_map, queue, waits, handed, current>>
vars == <<mutex, pc, queues, op, carrier>>

Deleted == [count |-> 0, event |-> FALSE, call |-> "post"]
NoCall == [call |-> "none", carrier |-> NoCarrier, to |-> NoCarrier]

\* PostMessageEx, SendMessageEx, SendMessageTimeoutEx.
Call == {"post", "send", "send timeout"}
Sends == {"send", "send timeout"}

Init ==
    /\ InitMutex
    /\ g_map = {}
    /\ pc = [t \in Thread |-> IF t \in Worker THEN "off" ELSE "idle"]
    /\ queue = [w \in Worker |-> {}]
    /\ waits = [w \in Worker |-> FALSE]
    /\ handed = [w \in Worker |-> NoCarrier]
    /\ current = [w \in Worker |-> NoCarrier]
    /\ op = [p \in Poster |-> NoCall]
    /\ carrier = [m \in Carrier |-> Deleted]

At(t, from, to) == pc[t] = from /\ lock[t] = "free" /\ pc' = [pc EXCEPT ![t] = to]

\* A step with the mutex held for reading or writing.
Holding(t, mode, from, to) == pc[t] = from /\ lock[t] = mode /\ pc' = [pc EXCEPT ![t] = to]

Released(m, n) == [carrier EXCEPT ![m].count = @ - n]

----------------------------------------------------------------------------
(* The posters: PostMessageEx, SendMessageEx, SendMessageTimeoutEx.         *)

\* A new carrier; a sender keeps a reference.  Then PushMsg.
Begin(p) ==
    /\ At(p, "idle", "find")
    /\ \E call \in Call, w \in Worker :
          LET free == {m \in Carrier : carrier[m].count = 0}
              m == CHOOSE c \in free : TRUE
          IN  /\ free # {}
              /\ op' = [op EXCEPT ![p] = [call |-> call, carrier |-> m, to |-> w]]
              /\ carrier' = [carrier EXCEPT ![m] =
                     [Deleted EXCEPT !.count = IF call \in Sends THEN 2 ELSE 1,
                                     !.call = call]]
    /\ WaitToRead(p)
    /\ UNCHANGED queues

\* PushMsg: the queue is looked up.
Find(p) ==
    /\ Holding(p, "read", "find", IF op[p].to \in g_map THEN "found" ELSE "refused")
    /\ UNCHANGED <<mutex, queues, op, carrier>>

\* TSDataPriorityQueue::Enqueue: an owner that waits gets it at once.
Enqueue(p) ==
    /\ Holding(p, "read", "found", "pushed")
    /\ LET w == op[p].to
           m == op[p].carrier
       IN  IF waits[w]
           THEN /\ handed' = [handed EXCEPT ![w] = m]
                /\ waits' = [waits EXCEPT ![w] = FALSE]
                /\ UNCHANGED queue
           ELSE /\ queue' = [queue EXCEPT ![w] = @ \cup {m}]
                /\ UNCHANGED <<handed, waits>>
    /\ UNCHANGED <<mutex, g_map, current, op, carrier>>

PushEnds(p) ==
    /\ pc[p] \in {"pushed", "refused"}
    /\ Done(p)
    /\ UNCHANGED <<pc, queues, op, carrier>>

Forget(p) == op' = [op EXCEPT ![p] = NoCall]

\* There is no queue: the carrier is deleted.  Faulty variant: one reference is
\* given up, whoever called.
RefusedOnce(p) ==
    /\ At(p, "refused", "idle")
    /\ carrier' = Released(op[p].carrier, 1)
    /\ Forget(p)
    /\ UNCHANGED <<mutex, queues>>

Refused(p) ==
    /\ At(p, "refused", "idle")
    /\ carrier' = Released(op[p].carrier, IF op[p].call \in Sends THEN 2 ELSE 1)
    /\ Forget(p)
    /\ UNCHANGED <<mutex, queues>>

Posted(p) ==
    /\ op[p].call \notin Sends
    /\ At(p, "pushed", "idle") /\ Forget(p)
    /\ UNCHANGED <<mutex, queues, carrier>>

\* The event is set and reset, and the result read; or the wait timed out.
Answered(p) ==
    /\ op[p].call \in Sends
    /\ carrier[op[p].carrier].event \/ op[p].call = "send timeout"
    /\ At(p, "pushed", "idle") /\ Forget(p)
    /\ carrier' = Released(op[p].carrier, 1)
    /\ UNCHANGED <<mutex, queues>>

PosterStep(p) == Find(p) \/ Enqueue(p) \/ PushEnds(p) \/ Refused(p) \/ Posted(p) \/ Answered(p)

----------------------------------------------------------------------------
(* The workers: MsgContextImpl.                                             *)

\* IsExisted, and nothing else, in the constructor and before RemoveMsgQueue.
Exists(w, from, to) ==
    /\ At(w, from, to) /\ WaitToRead(w)
    /\ UNCHANGED <<queues, op, carrier>>

Existed(w, from) ==
    /\ pc[w] = from /\ lock[w] = "read" /\ Done(w)
    /\ UNCHANGED <<pc, queues, op, carrier>>

ToWrite(w, from, to) ==
    /\ At(w, from, to) /\ WaitToWrite(w)
    /\ UNCHANGED <<queues, op, carrier>>

\* RegisterMsgQueue and RemoveMsgQueue, under the mutex.
Register(w) ==
    /\ Holding(w, "write", "register", "get")
    /\ g_map' = g_map \cup {w}
    /\ UNCHANGED <<mutex, queue, waits, handed, current, op, carrier>>

Remove(w) ==
    /\ Holding(w, "write", "remove", "drain")
    /\ g_map' = g_map \ {w}
    /\ UNCHANGED <<mutex, queue, waits, handed, current, op, carrier>>

WriteEnds(w) ==
    /\ pc[w] \in {"get", "drain"} /\ lock[w] = "write" /\ Done(w)
    /\ UNCHANGED <<pc, queues, op, carrier>>

\* ReplyMessageEx: the event is set, then the carrier released.
Synchronous(w) == current[w] # NoCarrier /\ carrier[current[w]].call \in Sends

SetEvent(w, from, to) ==
    /\ Synchronous(w) /\ At(w, from, to)
    /\ carrier' = [carrier EXCEPT ![current[w]].event = TRUE]
    /\ UNCHANGED <<mutex, queues, op>>

ReleaseCurrent(w, from, to) ==
    /\ current[w] # NoCarrier /\ At(w, from, to)
    /\ carrier' = Released(current[w], 1)
    /\ current' = [current EXCEPT ![w] = NoCarrier]
    /\ UNCHANGED <<mutex, g_map, queue, waits, handed, op>>

NothingToReply(w, from, to) ==
    /\ current[w] = NoCarrier /\ At(w, from, to)
    /\ UNCHANGED <<mutex, queues, op, carrier>>

Reply(w, from, set, to) ==
    \/ SetEvent(w, from, set)
    \/ ReleaseCurrent(w, set, to)
    \/ ~Synchronous(w) /\ ReleaseCurrent(w, from, to)
    \/ NothingToReply(w, from, to)

\* GetMessageEx, WaitDequeue: any message.
Dequeue(w, m, from, to) ==
    /\ At(w, from, to) /\ m \in queue[w]
    /\ queue' = [queue EXCEPT ![w] = @ \ {m}]
    /\ current' = [current EXCEPT ![w] = m]
    /\ UNCHANGED <<mutex, g_map, waits, handed, op, carrier>>

Wait(w) ==
    /\ queue[w] = {} /\ At(w, "dequeue", "wait")
    /\ waits' = [waits EXCEPT ![w] = TRUE]
    /\ UNCHANGED <<mutex, g_map, queue, handed, current, op, carrier>>

Woken(w) ==
    /\ handed[w] # NoCarrier /\ At(w, "wait", "handle")
    /\ current' = [current EXCEPT ![w] = handed[w]]
    /\ handed' = [handed EXCEPT ![w] = NoCarrier]
    /\ UNCHANGED <<mutex, g_map, queue, waits, op, carrier>>

\* The message is handled: the next one, or the end of the thread.
Handled(w, next) ==
    /\ At(w, "handle", next)
    /\ UNCHANGED <<mutex, queues, op, carrier>>

\* ~MsgContextImpl, after the queue was removed: what is in it is replied to.
\* Faulty variant: it is left there.
DrainNothing(w) ==
    /\ At(w, "drain", "off")
    /\ UNCHANGED <<mutex, queues, op, carrier>>

Drained(w) ==
    /\ queue[w] = {} /\ At(w, "drain", "off")
    /\ UNCHANGED <<mutex, queues, op, carrier>>

ContextBegins(w) == Exists(w, "off", "constructor")

Constructor(w) ==
    \/ Existed(w, "constructor") \/ ToWrite(w, "constructor", "register")
    \/ Register(w)

GetMessage(w) ==
    \/ Reply(w, "get", "get, set", "dequeue")
    \/ \E m \in Carrier : Dequeue(w, m, "dequeue", "handle")
    \/ Wait(w) \/ Woken(w)
    \/ Handled(w, "get") \/ Handled(w, "end")

ToRemove(w) == ToWrite(w, "leaving", "remove")

Destructor(w) ==
    \/ Reply(w, "end", "end, set", "existed")
    \/ Exists(w, "existed", "leaving") \/ Existed(w, "leaving")
    \/ ToRemove(w) \/ Remove(w)
    \/ \E m \in Carrier : Dequeue(w, m, "drain", "drain, reply")
    \/ Drained(w)
    \/ Reply(w, "drain, reply", "drain, set", "drain")

WorkerStep(w) == Constructor(w) \/ GetMessage(w) \/ Destructor(w) \/ WriteEnds(w)

----------------------------------------------------------------------------

\* Acquire of a semaphore, and its release.
InMutex(t) == MutexStep(t) /\ UNCHANGED <<pc, queues, op, carrier>>

Next ==
    \/ \E p \in Poster : Begin(p) \/ PosterStep(p)
    \/ \E w \in Worker : ContextBegins(w) \/ WorkerStep(w)
    \/ \E t \in Thread : InMutex(t)

Spec == Init /\ [][Next]_vars

\* Every thread goes on; a semaphore lets those who wait in in turn.  No message
\* is passed over for ever: a worker is faster than what is posted to it, so
\* that its queue runs empty.
FairSpec ==
    /\ Spec
    /\ \A p \in Poster : WF_vars(PosterStep(p))
    /\ \A w \in Worker :
          /\ WF_vars(WorkerStep(w))
          /\ \A m \in Carrier : SF_vars(Dequeue(w, m, "dequeue", "handle"))
    /\ \A t \in Thread : SF_vars(InMutex(t))
----------------------------------------------------------------------------

\* The references to a carrier: of the queue, of the worker, of its poster.
Held(m) ==
    Cardinality({w \in Worker : m \in queue[w]})
    + Cardinality({w \in Worker : handed[w] = m})
    + Cardinality({w \in Worker : current[w] = m})
    + Cardinality({p \in Poster : op[p].carrier = m /\ pc[p] \in {"find", "found", "refused"}})
    + Cardinality({p \in Poster : op[p].carrier = m /\ op[p].call \in Sends})

\* Types; a carrier counts exactly the references there are: none is deleted
\* while its queue, its worker or its sender uses it, and none is leaked,
\* though a sender may give up while its message is handled.
CountsExact ==
    /\ MutexOK
    /\ g_map \subseteq Worker
    /\ \A m \in Carrier : carrier[m].count = Held(m)
    /\ \A w \in Worker : waits[w] => handed[w] = NoCarrier /\ queue[w] = {}

\* While a message is pushed, the thread that owns the queue does not delete it
\* (the comment on PushMsg, GlobalMap.cpp 106): readers and writers of the map
\* exclude each other, with the mutex handed over before they are woken.
QueueStays ==
    /\ Exclusive
    /\ \A p \in Poster : pc[p] = "found" => op[p].to \in g_map

\* A thread that ended leaves no message behind (the assertion in
\* ~MsgContextImpl, MsgContext.cpp 157), though others posted until the end.
NothingLeft ==
    \A w \in Worker : pc[w] = "off" =>
        queue[w] = {} /\ handed[w] = NoCarrier /\ w \notin g_map

\* Every post and send returns, also when the worker ends; the worker ends.
CallsReturn ==
    /\ \A p \in Poster : pc[p] # "idle" ~> pc[p] = "idle"
    /\ \A w \in Worker : pc[w] = "end" ~> pc[w] = "off"
=============================================================================
