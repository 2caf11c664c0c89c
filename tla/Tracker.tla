------------------------------ MODULE Tracker -------------------------------
(***************************************************************************)
(* The trackers of a task and their requests: TrackerManager and Tracker   *)
(* in the worker thread of the task, TrackerRequest in the threads of      *)
(* AsyncService, by HttpTracker or UDPTracker.  A tracker may be deleted   *)
(* while its request runs, the service stops when the tasks are closed.    *)
(* Every wait of a request has a timeout.                                  *)
(*                                                                         *)
(* Datagrams are lost, delayed and duplicated: wire[t] has all that were   *)
(* sent to or from the socket of t, and each may arrive at any later time, *)
(* more than once, or never.  A reply has the transaction id of what it    *)
(* answers; a socket sends one request of each kind, so the kind of a      *)
(* reply says what its ids, its action and its length say.                 *)
(***************************************************************************)
EXTENDS Integers, FiniteSets, SequencesExt

(***************************************************************************)
(* The pool of threads that runs blocking requests: ThreadPool, the queue  *)
(* TSDataQueue with its waiters, AsyncService over both.  A request counts *)
(* its references: the queue or a thread has one, who posted it has        *)
(* another.  A request without references is deleted.                      *)
(***************************************************************************)
CONSTANTS
    Thread,    \* the threads of the pool
    Request,   \* what memory holds: a deleted request can be new again
    NoRequest

ASSUME ServiceAssumption == IsFiniteSet(Thread) /\ Thread # {} /\ NoRequest \notin Request

VARIABLES
    is_started,   \* m_is_started
    joining,      \* is Stop waiting for the threads?
    jobs,         \* the queue of ThreadPool: callbacks, and tokens to shut down
    pc,           \* what each thread does
    queue,        \* the requests posted and not taken
    wait_queue,   \* the threads that wait for one, the first to be served first
    handed,       \* WaitInfo: what Enqueue gave to a waiting thread
    current,      \* the request a thread runs
    count         \* RefCountedObject::m_rc

service == <<is_started, joining, jobs, pc, queue, wait_queue, handed, current, count>>

InitService ==
    /\ is_started = FALSE /\ joining = FALSE /\ jobs = <<>>
    /\ pc = [t \in Thread |-> "none"]
    /\ queue = <<>> /\ wait_queue = <<>>
    /\ handed = [t \in Thread |-> NoRequest]
    /\ current = [t \in Thread |-> NoRequest]
    /\ count = [r \in Request |-> 0]

Copies(job) == [k \in 1..Cardinality(Thread) |-> job]

\* ThreadPool::Start, then one worker_thread of the service for each thread.
Start ==
    /\ ~is_started /\ ~joining
    /\ is_started' = TRUE
    /\ pc' = [t \in Thread |-> "pool"]
    /\ jobs' = Copies("work")
    /\ UNCHANGED <<joining, queue, wait_queue, handed, current, count>>

\* Stop, until it waits for the threads.
Stop ==
    /\ is_started
    /\ is_started' = FALSE /\ joining' = TRUE
    /\ jobs' = jobs \o Copies("shut down")
    /\ UNCHANGED <<pc, queue, wait_queue, handed, current, count>>

Queued(r) == Cardinality({k \in DOMAIN queue : queue[k] = r})

\* Stop, when all threads ended: it releases what nobody took.
Joined ==
    /\ joining /\ \A t \in Thread : pc[t] = "ended"
    /\ joining' = FALSE
    /\ count' = [r \in Request |-> count[r] - Queued(r)]
    /\ queue' = <<>>
    /\ UNCHANGED <<is_started, jobs, pc, wait_queue, handed, current>>

----------------------------------------------------------------------------
(* TSDataQueue.                                                             *)

\* Enqueue: a thread that waits gets it at once.
Enqueue(r) ==
    IF wait_queue = <<>>
    THEN queue' = Append(queue, r) /\ UNCHANGED <<wait_queue, handed>>
    ELSE /\ handed' = [handed EXCEPT ![Head(wait_queue)] = r]
         /\ wait_queue' = Tail(wait_queue)
         /\ UNCHANGED queue

\* PostRequest of a new request: its maker and the queue each have a reference.
PostRequest(r) ==
    /\ is_started /\ count[r] = 0
    /\ count' = [count EXCEPT ![r] = 2]
    /\ Enqueue(r)
    /\ UNCHANGED <<is_started, joining, jobs, pc, current>>

At(t, from, to) == pc[t] = from /\ pc' = [pc EXCEPT ![t] = to]

\* WaitDequeue returns a request: the thread runs it.
Takes(t, r) == current' = [current EXCEPT ![t] = r]

\* WaitDequeue with something in the queue.
Dequeue(t) ==
    /\ At(t, "dequeue", "run") /\ queue # <<>>
    /\ Takes(t, Head(queue)) /\ queue' = Tail(queue)
    /\ UNCHANGED <<is_started, joining, jobs, wait_queue, handed, count>>

Wait(t) ==
    /\ At(t, "dequeue", "wait") /\ queue = <<>>
    /\ wait_queue' = Append(wait_queue, t)
    /\ UNCHANGED <<is_started, joining, jobs, queue, handed, current, count>>

Woken(t) ==
    /\ At(t, "wait", "run") /\ handed[t] # NoRequest
    /\ Takes(t, handed[t]) /\ handed' = [handed EXCEPT ![t] = NoRequest]
    /\ UNCHANGED <<is_started, joining, jobs, queue, wait_queue, count>>

\* The event was not set in time.  It may still be before the lock is taken.
TimeOut(t) ==
    /\ At(t, "wait", "timed out") /\ handed[t] = NoRequest
    /\ UNCHANGED <<is_started, joining, jobs, queue, wait_queue, handed, current, count>>

GiveUp(t) ==
    /\ At(t, "timed out", "loop") /\ t \in Range(wait_queue)
    /\ wait_queue' = RemoveFirst(wait_queue, t)
    /\ UNCHANGED <<is_started, joining, jobs, queue, handed, current, count>>

\* Faulty variant: a wait that timed out never returns a request.
HandedLost(t) ==
    /\ At(t, "timed out", "loop") /\ t \notin Range(wait_queue)
    /\ handed' = [handed EXCEPT ![t] = NoRequest]
    /\ UNCHANGED <<is_started, joining, jobs, queue, wait_queue, current, count>>

HandedAfterAll(t) ==
    /\ At(t, "timed out", "run") /\ t \notin Range(wait_queue)
    /\ Takes(t, handed[t]) /\ handed' = [handed EXCEPT ![t] = NoRequest]
    /\ UNCHANGED <<is_started, joining, jobs, queue, wait_queue, count>>

----------------------------------------------------------------------------
(* The threads.                                                             *)

\* ThreadPool::worker_thread: run a callback, or shut down.
TakeJob(t) ==
    /\ jobs # <<>>
    /\ At(t, "pool", IF Head(jobs) = "work" THEN "loop" ELSE "ended")
    /\ jobs' = Tail(jobs)
    /\ UNCHANGED <<is_started, joining, queue, wait_queue, handed, current, count>>

\* AsyncService::worker_thread, while m_is_started.  Faulty variant: for ever.
LoopForEver(t) ==
    /\ At(t, "loop", "dequeue")
    /\ UNCHANGED <<is_started, joining, jobs, queue, wait_queue, handed, current, count>>

Loop(t) ==
    /\ At(t, "loop", IF is_started THEN "dequeue" ELSE "pool")
    /\ UNCHANGED <<is_started, joining, jobs, queue, wait_queue, handed, current, count>>

\* The request ran.
Release(t) ==
    /\ At(t, "release", "loop")
    /\ count' = [count EXCEPT ![current[t]] = @ - 1]
    /\ current' = [current EXCEPT ![t] = NoRequest]
    /\ UNCHANGED <<is_started, joining, jobs, queue, wait_queue, handed>>

ThreadStep(t) ==
    \/ TakeJob(t) \/ Loop(t) \/ Dequeue(t) \/ Wait(t)
    \/ Woken(t) \/ TimeOut(t) \/ GiveUp(t) \/ HandedAfterAll(t) \/ Release(t)

----------------------------------------------------------------------------

Running == {"run", "http", "redirected", "udp", "connecting", "announcing",
            "answered", "release"}

\* The references of the service to a request.
Held(r) ==
    Queued(r) + Cardinality({t \in Thread : handed[t] = r})
              + Cardinality({t \in Thread : current[t] = r})

ServiceOK ==
    /\ is_started \in BOOLEAN /\ joining \in BOOLEAN
    /\ pc \in [Thread -> Running \cup
                  {"none", "pool", "loop", "dequeue", "wait", "timed out", "ended"}]
    /\ queue \in Seq(Request) /\ wait_queue \in Seq(Thread)
    /\ \A t \in Thread : current[t] # NoRequest <=> pc[t] \in Running

(***************************************************************************)
(* What a request does when it runs: pc "run" to "release".                *)
(***************************************************************************)

VARIABLES
    response, \* m_response_info of each request: "none", "error", or what it is read from
    is_done,  \* m_is_done of each request
    wire      \* the datagrams of the UDP socket of each thread

exchange == <<response, is_done, wire>>

InitExchange ==
    /\ response = [r \in Request |-> "none"]
    /\ is_done = [r \in Request |-> FALSE]
    /\ wire = [t \in Thread |-> {}]

\* Requests without references are deleted: a new one in their memory has no
\* response and is not done.
Deleted ==
    /\ response' = [r \in Request |-> IF count'[r] = 0 THEN "none" ELSE response[r]]
    /\ is_done' = [r \in Request |-> count'[r] # 0 /\ is_done[r]]
    /\ UNCHANGED wire

\* Nothing of the service changes but where a thread is.
InThread == UNCHANGED <<is_started, joining, jobs, queue, wait_queue, handed, current, count>>

\* The thread goes on.
Goes(t, from, to) == At(t, from, to) /\ InThread /\ UNCHANGED exchange

\* Run returns with a result; the socket is closed.
Returns(t, from, result) ==
    /\ At(t, from, "answered")
    /\ response' = [response EXCEPT ![current[t]] = result]
    /\ wire' = [wire EXCEPT ![t] = {}]
    /\ InThread /\ UNCHANGED is_done

\* By the scheme of the url.
Begins(t) == Goes(t, "run", "http") \/ Goes(t, "run", "udp")

----------------------------------------------------------------------------
(* HttpTracker::Run.                                                        *)

\* No address, no connection, a reply that cannot be parsed (one that did not
\* come in time is empty), another status, no peers; or a page with peers.
HttpEnds(t) == Returns(t, "http", "error") \/ Returns(t, "http", "page")

\* Status 301 or 302 with a location; then to RE_REQUEST with the new url.
Redirected(t) == Goes(t, "http", "redirected")
ResetNewUrl(t) == Goes(t, "redirected", "http") \/ Returns(t, "redirected", "error")

----------------------------------------------------------------------------
(* UDPTracker::Run.  What fails ends it: nothing is sent again.             *)

Sends(t, from, to, datagram) ==
    /\ At(t, from, to)
    /\ wire' = [wire EXCEPT ![t] = @ \cup {datagram}]
    /\ InThread /\ UNCHANGED <<response, is_done>>

\* get_host_entry, then the first half of connect_to_tracker.
AsksConnection(t) == Sends(t, "udp", "connecting", "connect") \/ Returns(t, "udp", "error")

\* Its reply, or nothing in time; then announcing_udp_tracker.
Announces(t) ==
    \/ "connected" \in wire[t] /\ Sends(t, "connecting", "announcing", "announce")
    \/ Returns(t, "connecting", "error")

\* Faulty variant: whatever comes is the response.
TakesAnyResponse(t) ==
    \/ \E d \in wire[t] \cap {"connected", "announced"} : Returns(t, "announcing", d)
    \/ Returns(t, "announcing", "error")

\* The response; or another datagram, such as a copy of the earlier reply, or
\* nothing in time.
GetTrackerResponse(t) ==
    \/ "announced" \in wire[t] /\ Returns(t, "announcing", "announced")
    \/ Returns(t, "announcing", "error")

\* The tracker answers what has arrived.
Host(t) ==
    /\ \/ "connect" \in wire[t] /\ wire' = [wire EXCEPT ![t] = @ \cup {"connected"}]
       \/ "announce" \in wire[t] /\ wire' = [wire EXCEPT ![t] = @ \cup {"announced"}]
    /\ UNCHANGED <<service, response, is_done>>

----------------------------------------------------------------------------

\* m_is_done is set after the response.
Done(t) ==
    /\ At(t, "answered", "release")
    /\ is_done' = [is_done EXCEPT ![current[t]] = TRUE]
    /\ InThread /\ UNCHANGED <<response, wire>>

Run(t) ==
    \/ Begins(t) \/ HttpEnds(t) \/ Redirected(t) \/ ResetNewUrl(t)
    \/ AsksConnection(t) \/ Announces(t) \/ GetTrackerResponse(t) \/ Done(t)

----------------------------------------------------------------------------

ExchangeOK ==
    /\ response \in [Request -> {"none", "error", "page", "announced", "connected"}]
    /\ is_done \in [Request -> BOOLEAN]
    /\ wire \in [Thread -> SUBSET {"connect", "connected", "announce", "announced"}]

-----------------------------------------------------------------------------
CONSTANT Url   \* the trackers of the torrent

VARIABLES
    trackers,   \* m_tracker_map: the keys
    m_request,  \* of each tracker; there is one iff its state is TS_REQUESTING
    due         \* did m_interval pass since the last answer?

task == <<trackers, m_request, due>>
tracker_vars == <<service, task, exchange>>

TrackerInit ==
    /\ InitService /\ InitExchange
    /\ trackers = {} /\ m_request = [u \in Url |-> NoRequest]
    /\ due = [u \in Url |-> TRUE]

----------------------------------------------------------------------------
(* The worker thread of the task.                                           *)

\* A task is started.  Tasks run only between Start and Stop (UnInit).
InsertTrackerUrl(u) ==
    /\ is_started /\ u \notin trackers
    /\ trackers' = trackers \cup {u}
    /\ m_request' = [m_request EXCEPT ![u] = NoRequest]
    /\ due' = [due EXCEPT ![u] = TRUE]
    /\ UNCHANGED <<service, exchange>>

Released(r) == count' = [count EXCEPT ![r] = @ - 1]

\* The task ends: Clear deletes each tracker.
Clear ==
    /\ trackers # {}
    /\ trackers' = {}
    /\ count' = [r \in Request |-> IF \E u \in trackers : m_request[u] = r
                                   THEN count[r] - 1 ELSE count[r]]
    /\ m_request' = [u \in Url |-> NoRequest]
    /\ Deleted
    /\ UNCHANGED <<is_started, joining, jobs, pc, queue, wait_queue, handed, current, due>>

\* SecondTick of a tracker that is free and due.
Ask(u, r) ==
    /\ u \in trackers /\ m_request[u] = NoRequest /\ due[u]
    /\ PostRequest(r)
    /\ m_request' = [m_request EXCEPT ![u] = r]
    /\ UNCHANGED <<trackers, due, exchange>>

\* SecondTick of a tracker whose request is done: handle_response.
Handle(u) ==
    LET r == m_request[u] IN
    /\ u \in trackers /\ r # NoRequest /\ is_done[r]
    /\ Released(r)
    /\ m_request' = [m_request EXCEPT ![u] = NoRequest]
    /\ due' = [due EXCEPT ![u] = FALSE]
    /\ Deleted
    /\ UNCHANGED <<is_started, joining, jobs, pc, queue, wait_queue, handed, current,
                   trackers>>

IntervalPasses(u) ==
    /\ u \in trackers /\ ~due[u]
    /\ due' = [due EXCEPT ![u] = TRUE]
    /\ UNCHANGED <<service, trackers, m_request, exchange>>

----------------------------------------------------------------------------

Manager == Start \/ (trackers = {} /\ Stop) \/ Joined

TrackerNext ==
    \/ Manager /\ Deleted /\ UNCHANGED task
    \/ Clear
    \/ \E u \in Url :
          \/ InsertTrackerUrl(u) \/ Handle(u) \/ IntervalPasses(u)
          \/ \E r \in Request : Ask(u, r)
    \/ \E t \in Thread :
          \/ ThreadStep(t) /\ Deleted /\ UNCHANGED task
          \/ (Run(t) \/ Host(t)) /\ UNCHANGED task

\* The threads go on, the worker of the task ticks; a host that is asked again
\* and again does not send each request to another host.
Fairness ==
    /\ WF_tracker_vars(Joined /\ Deleted /\ UNCHANGED task)
    /\ \A u \in Url : WF_tracker_vars(Handle(u))
    /\ \A t \in Thread :
          /\ WF_tracker_vars((ThreadStep(t) /\ Deleted /\ UNCHANGED task) \/ (Run(t) /\ UNCHANGED task))
          /\ SF_tracker_vars(HttpEnds(t) /\ UNCHANGED task)

TrackerSpec == TrackerInit /\ [][TrackerNext]_tracker_vars /\ Fairness

----------------------------------------------------------------------------
(* Properties.                                                              *)

\* Types.
TrackerTypeOK ==
    /\ ServiceOK /\ ExchangeOK
    /\ trackers \subseteq Url
    /\ m_request \in [Url -> Request \cup {NoRequest}]

\* m_rc is the number of pointers there are to a request, over all threads: it
\* is deleted neither while its tracker or a thread still uses it nor never.
CountsExact ==
    \A r \in Request :
        count[r] = Held(r) + Cardinality({u \in Url : m_request[u] = r})

\* A request is with one thread or in the queue until it ran, whatever wait
\* timed out when it was posted; then only its tracker has it.  The waiters in
\* the queue are those nobody gave a request.
DeliveredOnce ==
    /\ \A u \in Url : m_request[u] # NoRequest =>
          \/ Held(m_request[u]) = 1
          \/ Held(m_request[u]) = 0 /\ is_done[m_request[u]]
    /\ \A t \in Thread : t \in Range(wait_queue) <=>
          pc[t] \in {"wait", "timed out"} /\ handed[t] = NoRequest

\* What a tracker is told is the answer to its announce, or that there is none:
\* the response is there before m_is_done, and it is never taken from a late
\* copy of an earlier datagram.
DoneIsAnswered ==
    \A r \in Request : is_done[r] => response[r] \in {"error", "page", "announced"}

\* A request is shared by its tracker, the queue and the threads until it ran
\* and was answered, and deleted when the last of them lets go of it.
RequestsOwned == TrackerTypeOK /\ CountsExact /\ DeliveredOnce /\ DoneIsAnswered

\* A tracker that asked is told and can ask again.
TrackersAreTold ==
    \A u \in Url : m_request[u] # NoRequest ~> m_request[u] = NoRequest

\* Stop returns, and then no request is left.
StopReturns ==
    joining ~> ~joining /\ \A r \in Request : count[r] = 0
=============================================================================
