------------------------------- MODULE Selector -------------------------------
(***************************************************************************)
(* One selector of NetService: the thread that runs Selector::Run, and the *)
(* other threads, which open sockets, register, write to and remove their  *)
(* handlers.  Every access to m_map is a step under its mutex; the sets of *)
(* handles are used without it, so a handle in them may be removed, closed *)
(* and given to a new socket before it is dispatched.                      *)
(*                                                                         *)
(* Two kinds of handlers: a link (PeerIO), to which its task has a         *)
(* reference until it removes it, and a validator (InConnValidator), which *)
(* only the selector refers to once it is registered.  A handler without   *)
(* references is deleted and closes its socket.                            *)
(***************************************************************************)
EXTENDS Integers, FiniteSets

CONSTANTS
    Handler, Handle, NoHandle, NoHandler,
    Interval     \* SELECTOR_CHECK_TIME, in units of time

ASSUME SelectorAssumption ==
    /\ IsFiniteSet(Handler) /\ NoHandler \notin Handler
    /\ IsFiniteSet(Handle) /\ NoHandle \notin Handle
    /\ Interval \in Nat \ {0}

VARIABLES
    m_map,        \* handle -> handler, or NoHandler
    m_is_running,
    pc,           \* of the selector thread
    rd_set, wd_set,
    recycled,     \* history: the handles of rd_set closed since it was built
    time_left,
    elapsed,      \* of ts, up to Interval + 1
    failed,       \* history: did select fail since ts.Update?
    handler,      \* the handlers: socket, kind, mask, references, and
                  \*   owner: what the thread that made it did with it
                  \*   input: what its socket holds; output: m_send_buf
    service       \* NetService: "none", "started", "stopping"

loop == <<rd_set, wd_set, recycled, time_left, elapsed, failed>>
vars == <<m_map, m_is_running, pc, loop, handler, service>>

Kind == {"link", "validator"}
Mask == {"INPUT", "OUTPUT", "TIMER"}

Deleted == [handle |-> NoHandle, kind |-> "link", mask |-> {}, count |-> 0,
            owner |-> "none", input |-> "none", output |-> FALSE]

Open == {handler[h].handle : h \in Handler} \ {NoHandle}
Registered == {x \in Handle : m_map[x] # NoHandler}
HasMask(x, mask) == x \in Registered /\ mask \in handler[m_map[x]].mask

Init ==
    /\ m_map = [x \in Handle |-> NoHandler]
    /\ m_is_running = FALSE /\ pc = "none"
    /\ rd_set = {} /\ wd_set = {} /\ recycled = {}
    /\ time_left = Interval /\ elapsed = 0 /\ failed = FALSE
    /\ handler = [h \in Handler |-> Deleted]
    /\ service = "none"

----------------------------------------------------------------------------
(* The other threads.                                                       *)

\* NetService::Start; the thread begins.
Start ==
    /\ service = "none" /\ pc = "none"
    /\ service' = "started" /\ pc' = "begin"
    /\ UNCHANGED <<m_map, m_is_running, loop, handler>>

Free == {h \in Handler : handler[h].count = 0}

\* A new handler over a new socket; any handle that is not open.
NewHandler(x, kind) ==
    /\ service = "started" /\ Free # {} /\ x \notin Open
    /\ LET h == CHOOSE g \in Free : TRUE
       IN  handler' = [handler EXCEPT ![h] =
               [Deleted EXCEPT !.handle = x, !.kind = kind, !.mask = {"INPUT", "TIMER"},
                               !.count = 1, !.owner = "new"]]
    /\ UNCHANGED <<m_map, m_is_running, pc, loop, service>>

RegisterHandler(h) ==
    /\ service = "started" /\ handler[h].owner = "new"
    /\ handler[h].handle \notin Registered
    /\ m_map' = [m_map EXCEPT ![handler[h].handle] = h]
    /\ handler' = [handler EXCEPT ![h].count = @ + 1, ![h].owner = "registered"]
    /\ UNCHANGED <<m_is_running, pc, loop, service>>

\* Release of the handlers in S, each once.
Released(S, handlers) ==
    [h \in Handler |-> IF h \notin S THEN handlers[h]
                       ELSE IF handlers[h].count = 1 THEN Deleted
                       ELSE [handlers[h] EXCEPT !.count = @ - 1]]

\* The last conjunct of a step that may delete handlers.
Recycle ==
    recycled' = (recycled \cup (Open \ {handler'[h].handle : h \in Handler})) \cap rd_set'

\* RemoveHandler, by the task of a link; the handler may have removed itself.
\* Faulty variant: the entry stays in the map.
RemoveKept(h) ==
    /\ handler[h].kind = "link" /\ handler[h].owner = "registered"
    /\ LET mine == [handler EXCEPT ![h].owner = "removed"]
       IN  handler' = IF handler[h].handle \in Registered THEN Released({h}, mine) ELSE mine
    /\ UNCHANGED <<m_map, m_is_running, pc, loop, service>>

RemoveHandler(h) ==
    /\ handler[h].kind = "link" /\ handler[h].owner = "registered"
    /\ LET x == handler[h].handle
           mine == [handler EXCEPT ![h].owner = "removed"]
       IN  IF x \in Registered
           THEN /\ m_map' = [m_map EXCEPT ![x] = NoHandler]
                /\ handler' = Released({m_map[x]}, mine)
           ELSE handler' = mine /\ UNCHANGED m_map
    /\ UNCHANGED <<m_is_running, pc, loop, service>>

\* The maker releases its reference: of a link when it removed it, of a
\* validator when it registered it.
Release(h) ==
    /\ handler[h].owner = (IF handler[h].kind = "link" THEN "removed" ELSE "registered")
    /\ handler' = Released({h}, [handler EXCEPT ![h].owner = "none"])
    /\ UNCHANGED <<m_map, m_is_running, pc, rd_set, wd_set, time_left, elapsed, failed,
                   service>>
    /\ Recycle

\* PeerIO::WriteData, by the task.
WriteData(h) ==
    /\ handler[h].kind = "link" /\ handler[h].owner = "registered"
    /\ ~handler[h].output
    /\ handler' = [handler EXCEPT ![h].output = TRUE]
    /\ UNCHANGED <<m_map, m_is_running, pc, loop, service>>

\* The peer sends something or closes the connection.
PeerSends(h, what) ==
    /\ handler[h].count > 0 /\ handler[h].input # "end" /\ handler[h].input # what
    /\ handler' = [handler EXCEPT ![h].input = what]
    /\ UNCHANGED <<m_map, m_is_running, pc, loop, service>>

\* NetService::Stop, when every task has removed its links.  It may come before
\* the thread began: Init of the manager stops what it started when the port is
\* taken.
Stop ==
    /\ service = "started"
    /\ \A h \in Handler : handler[h].owner = "none"
    /\ service' = "stopping" /\ m_is_running' = FALSE
    /\ UNCHANGED <<m_map, pc, loop, handler>>

\* The thread was joined: RemoveAll.
Joined ==
    /\ service = "stopping" /\ pc = "ended"
    /\ service' = "none" /\ pc' = "none"
    /\ m_map' = [x \in Handle |-> NoHandler]
    /\ handler' = Released({m_map[x] : x \in Registered}, handler)
    /\ UNCHANGED <<m_is_running, loop>>

----------------------------------------------------------------------------
(* Selector::Run.                                                           *)

Begin ==
    /\ pc = "begin"
    /\ m_is_running' = TRUE
    /\ time_left' = Interval /\ elapsed' = 0 /\ failed' = FALSE
    /\ pc' = "loop"
    /\ UNCHANGED <<m_map, rd_set, wd_set, recycled, handler, service>>

\* Under the mutex.  Faulty variant: the loop goes on while there are handlers.
BuildSetsWhileMapped ==
    /\ pc = "loop"
    /\ IF m_is_running \/ Registered # {}
       THEN /\ rd_set' = {x \in Handle : HasMask(x, "INPUT")}
            /\ wd_set' = {x \in Handle : HasMask(x, "OUTPUT")}
            /\ pc' = "select"
       ELSE rd_set' = {} /\ wd_set' = {} /\ pc' = "ended"
    /\ recycled' = {}
    /\ UNCHANGED <<m_map, m_is_running, time_left, elapsed, failed, handler, service>>

BuildSets ==
    /\ pc = "loop"
    /\ IF m_is_running
       THEN /\ rd_set' = {x \in Handle : HasMask(x, "INPUT")}
            /\ wd_set' = {x \in Handle : HasMask(x, "OUTPUT")}
            /\ pc' = "select"
       ELSE rd_set' = {} /\ wd_set' = {} /\ pc' = "ended"
    /\ recycled' = {}
    /\ UNCHANGED <<m_map, m_is_running, time_left, elapsed, failed, handler, service>>

Ready ==
    {x \in rd_set : \E h \in Handler : handler[h].handle = x /\ handler[h].input # "none"}

After(time) ==
    elapsed' = IF elapsed + time > Interval THEN Interval + 1 ELSE elapsed + time

\* A handle in the sets was closed, and no new socket has it.  Faulty variant:
\* the sets are dispatched as they are.
SelectFailsUnseen(time) ==
    /\ pc = "select" /\ ~(rd_set \cup wd_set \subseteq Open)
    /\ After(time) /\ failed' = TRUE
    /\ pc' = "dispatch"
    /\ UNCHANGED <<m_map, m_is_running, rd_set, wd_set, recycled, time_left, handler, service>>

SelectFails(time) ==
    /\ pc = "select" /\ ~(rd_set \cup wd_set \subseteq Open)
    /\ After(time) /\ failed' = TRUE
    /\ rd_set' = {} /\ wd_set' = {} /\ recycled' = {}
    /\ pc' = "loop"
    /\ UNCHANGED <<m_map, m_is_running, time_left, handler, service>>

SelectTimesOut ==
    /\ pc = "select" /\ rd_set \cup wd_set \subseteq Open
    /\ Ready = {} /\ wd_set = {}
    /\ After(time_left)
    /\ time_left' = Interval
    /\ rd_set' = {} /\ wd_set' = {} /\ recycled' = {}
    /\ pc' = "timer"
    /\ UNCHANGED <<m_map, m_is_running, failed, handler, service>>

\* A socket of a handler with OUTPUT_MASK can be written to.  The time handlers
\* take is counted here as well.  Faulty variants: the time left starts anew
\* each time; so does the time elapsed.
Returns ==
    /\ pc = "select" /\ rd_set \cup wd_set \subseteq Open
    /\ Ready # {} \/ wd_set # {}
    /\ rd_set' = Ready /\ recycled' = recycled \cap Ready
    /\ UNCHANGED <<m_map, m_is_running, wd_set, failed, handler, service>>

SelectAnew(time) ==
    /\ Returns /\ After(time)
    /\ time_left' = Interval
    /\ pc' = IF elapsed' >= time_left THEN "timer" ELSE "dispatch"

SelectUpdates(time) ==
    /\ Returns
    /\ time_left' = Interval /\ elapsed' = 0 /\ pc' = "dispatch"

SelectReturns(time) ==
    /\ Returns /\ After(time)
    /\ IF elapsed' >= time_left
       THEN time_left' = Interval /\ pc' = "timer"
       ELSE time_left' = time_left - elapsed' /\ pc' = "dispatch"

\* The handlers of S remove themselves from the map.
RemoveThese(S, handlers) ==
    /\ m_map' = [x \in Handle |-> IF m_map[x] \in S THEN NoHandler ELSE m_map[x]]
    /\ handler' = Released(S, handlers)

\* on_timer, and ts.Update: PeerIO sees what was written, validators whose time
\* is over remove themselves.
Timer ==
    /\ pc = "timer"
    /\ LET called == {m_map[x] : x \in {y \in Handle : HasMask(y, "TIMER")}}
       IN  \E expired \in SUBSET {h \in called : handler[h].kind = "validator"} :
               RemoveThese(expired,
                   [h \in Handler |-> IF h \in called /\ handler[h].output
                                      THEN [handler[h] EXCEPT !.mask = @ \cup {"OUTPUT"}]
                                      ELSE handler[h]])
    /\ elapsed' = 0 /\ failed' = FALSE
    /\ pc' = "dispatch"
    /\ UNCHANGED <<m_is_running, rd_set, wd_set, time_left, service>>
    /\ Recycle

\* PeerIO::OnInput and InConnValidator::OnInput: what each makes of its input.
\* A link that finds nothing to read takes the connection for closed.
OnInput(h) ==
    LET read == [handler EXCEPT ![h].input = IF @ = "end" THEN "end" ELSE "none"]
        ignored == handler[h].input = "none" /\ handler[h].kind = "validator"
    IN  \/ ~ignored /\ RemoveThese({h}, handler)
        \/ ignored /\ UNCHANGED <<m_map, handler>>
        \/ /\ handler[h].input = "some"
           /\ UNCHANGED m_map
           /\ \/ handler' = read
              \/ /\ handler[h].kind = "validator"
                 /\ handler' = [read EXCEPT ![h].mask = {"OUTPUT", "TIMER"}]

DispatchRead(x) ==
    /\ pc = "dispatch" /\ x \in rd_set
    /\ rd_set' = rd_set \ {x}
    /\ IF HasMask(x, "INPUT") THEN OnInput(m_map[x])
       ELSE UNCHANGED <<m_map, handler>>
    /\ UNCHANGED <<m_is_running, pc, wd_set, time_left, elapsed, failed, service>>
    /\ Recycle

\* PeerIO::OnOutput sends it all, or fails; InConnValidator::OnOutput is over
\* when it has answered.
OnOutput(h) ==
    \/ RemoveThese({h}, handler)
    \/ /\ handler[h].kind = "link"
       /\ handler' = [handler EXCEPT ![h].output = FALSE, ![h].mask = @ \ {"OUTPUT"}]
       /\ UNCHANGED m_map

DispatchWrite(x) ==
    /\ pc = "dispatch" /\ rd_set = {} /\ x \in wd_set
    /\ wd_set' = wd_set \ {x}
    /\ IF HasMask(x, "OUTPUT") THEN OnOutput(m_map[x])
       ELSE UNCHANGED <<m_map, handler>>
    /\ UNCHANGED <<m_is_running, pc, rd_set, time_left, elapsed, failed, service>>
    /\ Recycle

Dispatched ==
    /\ pc = "dispatch" /\ rd_set = {} /\ wd_set = {}
    /\ pc' = "loop"
    /\ UNCHANGED <<m_map, m_is_running, loop, handler, service>>

----------------------------------------------------------------------------

Run ==
    \/ Begin \/ BuildSets \/ SelectTimesOut \/ Timer \/ Dispatched
    \/ \E time \in 0..time_left : SelectFails(time) \/ SelectReturns(time)
    \/ \E x \in Handle : DispatchRead(x) \/ DispatchWrite(x)

Next ==
    \/ Run \/ Start \/ Stop \/ Joined
    \/ \E x \in Handle, kind \in Kind : NewHandler(x, kind)
    \/ \E h \in Handler :
          \/ RegisterHandler(h) \/ RemoveHandler(h) \/ Release(h) \/ WriteData(h)
          \/ PeerSends(h, "some") \/ PeerSends(h, "end")

\* The thread runs and time passes in select; not every select finds a socket
\* that was closed meanwhile.  Stop is waited for by who called it.
Fairness ==
    /\ WF_vars(Run) /\ WF_vars(Joined)
    /\ SF_vars(SelectTimesOut \/ \E time \in 1..time_left : SelectReturns(time))

Spec == Init /\ [][Next]_vars /\ Fairness

----------------------------------------------------------------------------
(* Properties.                                                              *)

\* Types.
TypeOK ==
    /\ m_map \in [Handle -> Handler \cup {NoHandler}]
    /\ pc \in {"none", "begin", "loop", "select", "timer", "dispatch", "ended"}
    /\ rd_set \subseteq Handle /\ wd_set \subseteq Handle
    /\ time_left \in 1..Interval /\ elapsed \in 0..Interval + 1
    /\ \A h \in Handler :
          /\ handler[h].kind \in Kind /\ handler[h].mask \subseteq Mask
          /\ handler[h].count > 0 <=> handler[h].handle # NoHandle

\* What the map refers to is alive, under the handle of its open socket, and
\* was not removed: after RemoveHandler the selector never calls a member
\* (Selector.h 60), also when the handle was given to another socket.
CallsTheLiving ==
    \A x \in Registered :
        /\ handler[m_map[x]].handle = x
        /\ handler[m_map[x]].owner # "removed"

\* A handler is deleted when the last of selector and maker let go of it, and
\* no socket outlives the service.
CountsExact ==
    /\ \A h \in Handler :
          handler[h].count = Cardinality({x \in Handle : m_map[x] = h})
                             + (IF handler[h].owner = "none" THEN 0 ELSE 1)
    /\ service = "none" => Open = {}

\* Whoever calls a handler, in whatever order it is removed, closed and its
\* handle given again, the handler is registered and alive.
HandlersOwned == TypeOK /\ CallsTheLiving /\ CountsExact

\* Who is called for input has some, unless its handle was closed and given
\* away since the sets were built (Selector.h 26): only then is a link that is
\* well taken for closed.
InputIsReal ==
    pc = "dispatch" => \A x \in rd_set :
        HasMask(x, "INPUT") => handler[m_map[x]].input # "none" \/ x \in recycled

\* Timers are never later than the interval, however busy the sockets are,
\* unless a select failed meanwhile.
TimerInTime == elapsed <= Interval \/ failed

\* What a task writes to a link is sent, or the link is removed: the timer
\* finds it and asks for output.
DataIsSent ==
    \A h \in Handler :
        handler[h].output ~> ~handler[h].output \/ \A x \in Handle : m_map[x] # h

\* NetService::Stop returns, whatever is registered and however busy the sockets
\* are, if the thread had begun.  A Stop that comes before, as that of
\* DownloaderManager.cpp 125-129 may, is forgotten: Run sets m_is_running
\* (Selector.cpp 46) after Stop cleared it (256), and Join waits for ever.
StopReturns ==
    service = "stopping" /\ ~m_is_running /\ pc # "begin" ~> service = "none"
=============================================================================
