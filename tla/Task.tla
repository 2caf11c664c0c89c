-------------------------------- MODULE Task --------------------------------
(***************************************************************************)
(* The life of tasks: DownloaderManager with its resume file, called by    *)
(* the one thread of the window, and for each task a Downloader whose      *)
(* worker thread downloads or checks hashes.                               *)
(*                                                                         *)
(* The two threads meet in a Barrier when a worker starts and in Join when *)
(* it is stopped; in between the worker reads m_state, which the window    *)
(* thread writes, and writes it when an exception ends it.  The program    *)
(* may die at any time: the resume file, the torrent copies and the data   *)
(* of the pieces survive.  The timer service ticks each download worker,   *)
(* whose TimerFunc, on its stack, has the timer named by its task; the     *)
(* order of the list of timers is left out.                                *)
(***************************************************************************)
EXTENDS Integers, Functions

CONSTANTS
    Task,       \* the torrents the user may add, by info hash
    NumPieces   \* pieces of each

ASSUME TaskAssumption == NumPieces \in Nat

VARIABLES
    (* the window thread and DownloaderManager *)
    ui,          \* what the window thread does, for which task, and what next
    downloaders, \* m_downloader_list
    task_map,    \* ResumeInfo::m_task_map: the pieces of each recorded task
    (* the Downloader of each task *)
    m_state,
    work_thd,    \* is m_work_thd set?
    bitfield,    \* m_bitfield
    waiting,     \* m_waiting_n of m_barrier
    woken,       \* was the thread waiting there woken?
    (* its worker thread *)
    job, pc,
    pieces,      \* the bitfield of PieceManager
    timer,       \* is a TimerEvent in the queue?
    idx,         \* piece_idx of hash_thread
    records,     \* the keys of DownloaderRecorder
    (* TimerManager *)
    m_set,        \* the registered timers
    timer_thread, \* "none" when not started, else "sleep", or "scan" with the lock
    scan,         \* the timers the thread has not come to in this turn
    (* what survives *)
    resume_file, copies, disk,
    (* history: records that outlived their task *)
    outdated,    \* what the file said of a torrent when it was added once more
    believed    \* what of that was taken for owned at a start

timerManager == <<m_set, timer_thread, scan>>
downloaderVars == <<m_state, work_thd, bitfield, waiting, woken>>
workerVars == <<job, pc, pieces, timer, idx, records, timerManager>>
persistent == <<resume_file, copies, disk, outdated, believed>>
vars == <<ui, downloaders, task_map, downloaderVars, workerVars, persistent>>

Piece == 0..NumPieces - 1
Empty == [t \in {} |-> {}]
Off == [pc |-> "off"]
Idle == [pc |-> "idle"]

DS == {"stop", "running", "hash_checking", "down_abort", "hash_abort"}

InitTimers == m_set = {} /\ timer_thread = "none" /\ scan = {}

\* Every Downloader is as its constructor leaves it, and no worker runs.
All(value) == [t \in Task |-> value]

Init ==
    /\ ui = Off /\ downloaders = {} /\ task_map = Empty
    /\ m_state = All("stop") /\ work_thd = All(FALSE) /\ bitfield = All({})
    /\ waiting = All(0) /\ woken = All(FALSE)
    /\ job = All("download") /\ pc = All("none") /\ pieces = All({})
    /\ timer = All(FALSE) /\ idx = All(0) /\ records = {}
    /\ resume_file = Empty /\ copies = {} /\ disk = All({})
    /\ outdated = All({}) /\ believed = All({})
    /\ InitTimers

\* The process ends: by itself, by a fault of another component, or because
\* StopDownload calls Join of a thread object that is not there.
Dies ==
    /\ ui' = Off /\ downloaders' = {} /\ task_map' = Empty
    /\ m_state' = All("stop") /\ work_thd' = All(FALSE) /\ bitfield' = All({})
    /\ waiting' = All(0) /\ woken' = All(FALSE)
    /\ job' = All("download") /\ pc' = All("none") /\ pieces' = All({})
    /\ timer' = All(FALSE) /\ idx' = All(0) /\ records' = {}
    /\ m_set' = {} /\ timer_thread' = "none" /\ scan' = {}

Crash == ui # Off /\ Dies /\ UNCHANGED persistent

----------------------------------------------------------------------------
(* TimerManager, the timer service: one thread that wakes up every 20       *)
(* milliseconds, takes the spin lock, calls the timers that are due and     *)
(* lets the lock go.  Timers live on the stacks of the workers, which       *)
(* register and remove them under the same lock.                            *)

Locked == timer_thread = "scan"

StartTimers ==
    /\ timer_thread = "none"
    /\ timer_thread' = "sleep"
    /\ UNCHANGED <<m_set, scan>>

RegisterTimer(t) ==
    /\ ~Locked /\ t \notin m_set
    /\ m_set' = m_set \cup {t}
    /\ UNCHANGED <<timer_thread, scan>>

\* Faulty variant: the lock is not taken.
RemoveTimerUnlocked(t) ==
    /\ m_set' = m_set \ {t}
    /\ UNCHANGED <<timer_thread, scan>>

RemoveTimer(t) ==
    /\ ~Locked
    /\ m_set' = m_set \ {t}
    /\ UNCHANGED <<timer_thread, scan>>

\* worker_thread: it wakes up, comes to one timer after the other, sleeps.
WakesUp ==
    /\ timer_thread = "sleep"
    /\ timer_thread' = "scan"
    /\ scan' = m_set
    /\ UNCHANGED m_set

ComesTo(t) ==
    /\ t \in scan
    /\ scan' = scan \ {t}
    /\ UNCHANGED <<m_set, timer_thread>>

Sleeps ==
    /\ Locked /\ scan = {}
    /\ timer_thread' = "sleep"
    /\ UNCHANGED <<m_set, scan>>

\* Types; the iterator of the thread is never on a timer that was removed.
TimersOK ==
    /\ m_set \subseteq Task
    /\ timer_thread \in {"none", "sleep", "scan"}
    /\ scan \subseteq m_set
    /\ scan # {} => Locked

----------------------------------------------------------------------------
(* DownloaderManager.                                                       *)

\* Init.  A recorded task whose torrent copy cannot be read is forgotten.
\* Faulty variant: it stays in the map.
StartUpKeepsBadData ==
    /\ ui = Off
    /\ ui' = Idle
    /\ downloaders' = DOMAIN resume_file \cap copies
    /\ task_map' = resume_file
    /\ bitfield' = [t \in Task |-> IF t \in downloaders' THEN resume_file[t] ELSE {}]
    /\ StartTimers
    /\ believed' = [t \in Task |-> IF t \in downloaders' THEN believed[t] \cup outdated[t]
                                   ELSE believed[t]]
    /\ UNCHANGED <<m_state, work_thd, waiting, woken, job, pc, pieces, timer, idx,
                   records, resume_file, copies, disk, outdated>>

StartUp ==
    /\ ui = Off
    /\ ui' = Idle
    /\ downloaders' = DOMAIN resume_file \cap copies
    /\ task_map' = Restrict(resume_file, downloaders')
    /\ bitfield' = [t \in Task |-> IF t \in downloaders' THEN resume_file[t] ELSE {}]
    /\ StartTimers
    /\ believed' = [t \in Task |-> IF t \in downloaders' THEN believed[t] \cup outdated[t]
                                   ELSE believed[t]]
    /\ UNCHANGED <<m_state, work_thd, waiting, woken, job, pc, pieces, timer, idx,
                   records, resume_file, copies, disk, outdated>>

\* AddTask.  Nothing is saved; a torrent whose copy is there is refused.  The
\* file may still have a record of it: of a removal that ended between the
\* deletion of the copy and the save, or of a copy that cannot be read.
AddTask(t) ==
    /\ ui = Idle
    /\ t \notin DOMAIN task_map /\ t \notin copies
    /\ copies' = copies \cup {t}
    /\ task_map' = [u \in DOMAIN task_map \cup {t} |-> IF u = t THEN {} ELSE task_map[u]]
    /\ downloaders' = downloaders \cup {t}
    /\ bitfield' = [bitfield EXCEPT ![t] = {}]
    /\ outdated' = [outdated EXCEPT ![t] = IF t \in DOMAIN resume_file THEN resume_file[t] ELSE {}]
    /\ believed' = [believed EXCEPT ![t] = {}]
    /\ UNCHANGED <<ui, m_state, work_thd, waiting, woken, workerVars, resume_file, disk>>

\* ResumeDataUpdate and the beginning of ResumeInfo::Save, every ten minutes
\* and when the program ends.
Save(next) ==
    /\ ui = Idle
    /\ task_map' = [t \in DOMAIN task_map |->
                       IF t \in downloaders THEN bitfield[t] ELSE task_map[t]]
    /\ ui' = [pc |-> "truncate", next |-> next]
    /\ UNCHANGED <<downloaders, downloaderVars, workerVars, persistent>>

SaveResumeInfo == Save("idle")
UnInit == Save("exit")

\* ResumeInfo::Save: SetLength(0), then Write, whose result nobody looks at.
Truncate ==
    /\ ui.pc = "truncate"
    /\ resume_file' = Empty /\ outdated' = All({})
    /\ ui' = [ui EXCEPT !.pc = "write"]
    /\ UNCHANGED <<downloaders, task_map, downloaderVars, workerVars, copies, disk, believed>>

Write ==
    /\ ui.pc = "write"
    /\ resume_file' \in {task_map, Empty}
    /\ ui' = [pc |-> ui.next]
    /\ UNCHANGED <<downloaders, task_map, downloaderVars, workerVars, copies, disk,
                   outdated, believed>>

\* StopDownload and StopHashChecking: m_state is set, then the thread joined.
\* After a worker died while it was joined, m_state says abort and there is no
\* thread: the assertion fails and Join is called through a null pointer.
StopFor(t, next) ==
    \/ /\ m_state[t] # "stop" /\ work_thd[t]
       /\ m_state' = [m_state EXCEPT ![t] = "stop"]
       /\ ui' = [pc |-> "join", task |-> t, next |-> next]
       /\ UNCHANGED <<downloaders, task_map, work_thd, bitfield, waiting, woken,
                      workerVars, persistent>>
    \/ /\ m_state[t] # "stop" /\ ~work_thd[t]
       /\ Dies
       /\ UNCHANGED persistent

\* The deletion of a Downloader stops it again if m_state is not DS_STOP.
StoppedFor(t, next) ==
    \/ StopFor(t, next)
    \/ /\ m_state[t] = "stop"
       /\ ui' = [pc |-> next, task |-> t]
       /\ UNCHANGED <<downloaders, task_map, downloaderVars, workerVars, persistent>>

Stop(t) == ui = Idle /\ t \in downloaders /\ StopFor(t, "idle")

Joined ==
    /\ ui.pc = "join" /\ pc[ui.task] = "ended"
    /\ work_thd' = [work_thd EXCEPT ![ui.task] = FALSE]
    /\ pc' = [pc EXCEPT ![ui.task] = "none"]
    /\ ui' = IF ui.next = "idle" THEN Idle ELSE [pc |-> ui.next, task |-> ui.task]
    /\ UNCHANGED <<downloaders, task_map, m_state, bitfield, waiting, woken,
                   job, pieces, timer, idx, records, timerManager, persistent>>

RemoveTask(t) == ui = Idle /\ t \in downloaders /\ StoppedFor(t, "remove")

\* The rest of RemoveTask: the record, the torrent copy, the Downloader; then
\* the file is saved.
Removed ==
    /\ ui.pc = "remove"
    /\ copies' = copies \ {ui.task}
    /\ UNCHANGED <<resume_file, disk, outdated, believed>>
    /\ \/ /\ m_state[ui.task] = "stop"
          /\ downloaders' = downloaders \ {ui.task}
          /\ task_map' = Restrict(task_map, DOMAIN task_map \ {ui.task})
          /\ bitfield' = [bitfield EXCEPT ![ui.task] = {}]
          /\ ui' = [pc |-> "truncate", next |-> "idle"]
          /\ UNCHANGED <<m_state, work_thd, waiting, woken, workerVars>>
       \/ m_state[ui.task] # "stop" /\ Dies

\* UnInit, after the file was saved: one task after the other.
ExitTask(t) == ui.pc = "exit" /\ t \in downloaders /\ StoppedFor(t, "close")

Closed ==
    /\ ui.pc = "close"
    /\ UNCHANGED persistent
    /\ \/ /\ m_state[ui.task] = "stop"
          /\ downloaders' = downloaders \ {ui.task}
          /\ ui' = [pc |-> "exit"]
          /\ UNCHANGED <<task_map, downloaderVars, workerVars>>
       \/ m_state[ui.task] # "stop" /\ Dies

\* All tasks are closed: ServiceManager::Stop joins the timer thread, which ends
\* in its sleep, and the process is over.
Exit == ui.pc = "exit" /\ downloaders = {} /\ ~Locked /\ Dies /\ UNCHANGED persistent

----------------------------------------------------------------------------
(* Starting a worker.                                                       *)

StartWorker(t, what, state) ==
    /\ ui = Idle /\ t \in downloaders /\ m_state[t] = "stop"
    /\ m_state' = [m_state EXCEPT ![t] = state]
    /\ work_thd' = [work_thd EXCEPT ![t] = TRUE]
    /\ job' = [job EXCEPT ![t] = what]
    /\ pc' = [pc EXCEPT ![t] = "open"]
    /\ ui' = [pc |-> "start", task |-> t]
    /\ UNCHANGED <<downloaders, task_map, bitfield, waiting, woken,
                   pieces, timer, idx, records, timerManager, persistent>>

StartDownload(t) == StartWorker(t, "download", "running")
StartHashChecking(t) == StartWorker(t, "hash", "hash_checking")

\* Barrier::Acquire of one of the two threads: the second to come wakes the
\* first, which waits until then.
Pass(t) == waiting[t] = 1 /\ woken' = [woken EXCEPT ![t] = TRUE] /\ UNCHANGED waiting
Wait(t) == waiting[t] = 0 /\ waiting' = [waiting EXCEPT ![t] = 1] /\ UNCHANGED woken
Leave(t) ==
    /\ woken[t]
    /\ woken' = [woken EXCEPT ![t] = FALSE]
    /\ waiting' = [waiting EXCEPT ![t] = @ - 1]

UIAcquires ==
    /\ \/ ui.pc = "start" /\ (\/ Pass(ui.task) /\ ui' = Idle
                              \/ Wait(ui.task) /\ ui' = [ui EXCEPT !.pc = "start_wait"])
       \/ ui.pc = "start_wait" /\ Leave(ui.task) /\ ui' = Idle
    /\ UNCHANGED <<downloaders, task_map, m_state, work_thd, bitfield, workerVars, persistent>>

----------------------------------------------------------------------------
(* The worker.                                                              *)

\* The thread is at a point and goes to another.
At(t, here, there) == pc[t] = here /\ pc' = [pc EXCEPT ![t] = there]

UIUnchanged == UNCHANGED <<ui, downloaders, task_map, timerManager>>

\* Where a worker goes after the barrier, by whether it was initialised.
After(t, ready) ==
    IF job[t] = "download" THEN (IF ready THEN "context" ELSE "leave")
    ELSE IF ready THEN "hash" ELSE "ended"

WorkerAcquires(t) ==
    /\ \E ready \in BOOLEAN :
          LET here == IF ready THEN "ready" ELSE "abort"
              wait == IF ready THEN "ready_wait" ELSE "abort_wait"
          IN  \/ Pass(t) /\ At(t, here, After(t, ready))
              \/ Wait(t) /\ At(t, here, wait)
              \/ Leave(t) /\ At(t, wait, After(t, ready))
    /\ UIUnchanged
    /\ UNCHANGED <<m_state, work_thd, bitfield, job, pieces, timer, idx, records, persistent>>

\* download_thread up to RegisterRecord.  It is refused when the info hash is
\* there, which is one of the ways to Throw.
Register(t) ==
    /\ job[t] = "download" /\ t \notin records
    /\ At(t, "open", "registered")
    /\ pieces' = [pieces EXCEPT ![t] = bitfield[t]]
    /\ records' = records \cup {t}
    /\ UIUnchanged
    /\ UNCHANGED <<downloaderVars, job, timer, idx, persistent>>

\* The storage is open; a download worker makes its TimerFunc, whose
\* constructor registers the timer.
Initialised(t) ==
    /\ \/ job[t] = "download" /\ At(t, "registered", "ready") /\ RegisterTimer(t)
       \/ job[t] = "hash" /\ At(t, "open", "ready") /\ UNCHANGED timerManager
    /\ idx' = [idx EXCEPT ![t] = 0]
    /\ UNCHANGED <<ui, downloaders, task_map>>
    /\ UNCHANGED <<downloaderVars, job, pieces, timer, records, persistent>>

\* The MsgContext of the worker.
Context(t) ==
    /\ At(t, "context", "test")
    /\ UIUnchanged
    /\ UNCHANGED <<downloaderVars, job, pieces, timer, idx, records, persistent>>

\* The condition of the message loop; when it fails the queue is removed.
TestState(t) ==
    /\ IF m_state[t] = "running" THEN At(t, "test", "message") ELSE At(t, "test", "unwind")
    /\ timer' = [timer EXCEPT ![t] = @ /\ m_state[t] = "running"]
    /\ UIUnchanged
    /\ UNCHANGED <<downloaderVars, job, pieces, idx, records, persistent>>

\* ~TimerFunc, after the loop or an exception.
Unwound(t) ==
    /\ At(t, "unwind", "leave") \/ At(t, "throw_unwind", "throw")
    /\ RemoveTimer(t)
    /\ UNCHANGED <<ui, downloaders, task_map>>
    /\ UNCHANGED <<downloaderVars, job, pieces, timer, idx, records, persistent>>

\* The timer thread comes to the timer of a task.  When a second is over it
\* runs TimerFunc::OnTimer; without a queue the event is dropped.  Bound:
\* several TimerEvents in a queue are one.
OnTimer(t) ==
    /\ ComesTo(t)
    /\ timer' = [timer EXCEPT ![t] = @ \/ pc[t] \in {"test", "message", "flush"}]
    /\ UNCHANGED <<ui, downloaders, task_map>>
    /\ UNCHANGED <<downloaderVars, job, pc, pieces, idx, records, persistent>>

NotYet(t) ==
    /\ ComesTo(t)
    /\ UNCHANGED <<ui, downloaders, task_map>>
    /\ UNCHANGED <<downloaderVars, job, pc, pieces, timer, idx, records, persistent>>

TimerThread ==
    /\ WakesUp \/ Sleeps
    /\ UNCHANGED <<ui, downloaders, task_map>>
    /\ UNCHANGED <<downloaderVars, job, pc, pieces, timer, idx, records, persistent>>

\* A TimerEvent: m_bitfield is brought up to date.
Tick(t) ==
    /\ timer[t] /\ At(t, "message", "test")
    /\ timer' = [timer EXCEPT ![t] = FALSE]
    /\ bitfield' = [bitfield EXCEPT ![t] = pieces[t]]
    /\ UIUnchanged
    /\ UNCHANGED <<m_state, work_thd, waiting, woken, job, pieces, idx, records, persistent>>

\* A net event that completes a piece: PieceManager has it, then it is flushed.
PieceCompleted(t, p) ==
    /\ p \notin pieces[t] /\ At(t, "message", "flush")
    /\ pieces' = [pieces EXCEPT ![t] = @ \cup {p}]
    /\ UIUnchanged
    /\ UNCHANGED <<downloaderVars, job, timer, idx, records, persistent>>

\* FlushPiece.  Faulty variant: the piece stays in the write cache.
FlushPieceLater(t) ==
    /\ At(t, "flush", "test")
    /\ UIUnchanged
    /\ UNCHANGED <<downloaderVars, job, pieces, timer, idx, records, persistent>>

FlushPiece(t) ==
    /\ At(t, "flush", "test")
    /\ disk' = [disk EXCEPT ![t] = @ \cup pieces[t]]
    /\ UIUnchanged
    /\ UNCHANGED <<downloaderVars, job, pieces, timer, idx, records, resume_file, copies,
                   outdated, believed>>

\* A net event for which the write cache evicts a piece that is not complete, or
\* failed its hash check: what the disk had of it is overwritten.
Evict(t, p) ==
    /\ p \notin pieces[t] /\ At(t, "message", "test")
    /\ disk' = [disk EXCEPT ![t] = @ \ {p}]
    /\ UIUnchanged
    /\ UNCHANGED <<downloaderVars, job, pieces, timer, idx, records, resume_file, copies,
                   outdated, believed>>

\* An exception: files that cannot be opened, read or written, a timer that is
\* refused.  The stack is unwound: the queue is removed, then the timer.
Throw(t) ==
    /\ \/ \E here \in {"open", "registered"} : At(t, here, "throw_new")
       \/ \E here \in {"message", "flush"} : At(t, here, "throw_unwind")
       \/ At(t, "hash", "throw")
    /\ timer' = [timer EXCEPT ![t] = FALSE]
    /\ UIUnchanged
    /\ UNCHANGED <<downloaderVars, job, pieces, idx, records, persistent>>

\* The handler.  Faulty variant: it does not come to the barrier although the
\* window thread waits there.
CatchAt(t, here, there) ==
    /\ At(t, here, there)
    /\ m_state' = [m_state EXCEPT ![t] = IF job[t] = "download" THEN "down_abort"
                                         ELSE "hash_abort"]
    /\ UIUnchanged
    /\ UNCHANGED <<work_thd, bitfield, waiting, woken, job, pieces, timer, idx, records,
                   persistent>>

CatchAlone(t) == \E here \in {"throw_new", "throw"} : CatchAt(t, here, After(t, FALSE))
Catch(t) == CatchAt(t, "throw_new", "abort") \/ CatchAt(t, "throw", After(t, FALSE))

RemoveRecord(t) ==
    /\ At(t, "leave", "ended")
    /\ records' = records \ {t}
    /\ pieces' = [pieces EXCEPT ![t] = {}]
    /\ UIUnchanged
    /\ UNCHANGED <<downloaderVars, job, timer, idx, persistent>>

\* hash_thread: CheckPiece of one piece after the other, until it is stopped.
HashPiece(t) ==
    /\ m_state[t] = "hash_checking" /\ idx[t] < NumPieces /\ At(t, "hash", "hash")
    /\ bitfield' = [bitfield EXCEPT ![t] =
                       IF idx[t] \in disk[t] THEN @ \cup {idx[t]} ELSE @ \ {idx[t]}]
    /\ idx' = [idx EXCEPT ![t] = @ + 1]
    /\ UIUnchanged
    /\ UNCHANGED <<m_state, work_thd, waiting, woken, job, pieces, timer, records, persistent>>

HashDone(t) ==
    /\ m_state[t] # "hash_checking" \/ idx[t] = NumPieces
    /\ At(t, "hash", "ended")
    /\ UIUnchanged
    /\ UNCHANGED <<downloaderVars, job, pieces, timer, idx, records, persistent>>

\* What the worker does by itself, and what comes from outside.
Progress(t) ==
    \/ Register(t) \/ Initialised(t) \/ WorkerAcquires(t)
    \/ Context(t) \/ TestState(t) \/ Unwound(t) \/ Tick(t) \/ FlushPiece(t)
    \/ Catch(t) \/ RemoveRecord(t)
    \/ HashPiece(t) \/ HashDone(t)

Outside(t) ==
    \/ Throw(t)
    \/ \E p \in Piece : PieceCompleted(t, p) \/ Evict(t, p)

User(t) ==
    \/ AddTask(t) \/ RemoveTask(t)
    \/ StartDownload(t) \/ StartHashChecking(t) \/ Stop(t)

Manager ==
    \/ StartUp \/ SaveResumeInfo \/ UnInit
    \/ Truncate \/ Write \/ Removed \/ Closed \/ Exit
    \/ \E t \in Task : ExitTask(t)

Next ==
    \/ Crash \/ Manager \/ Joined \/ UIAcquires
    \/ TimerThread
    \/ \E t \in Task : User(t) \/ Progress(t) \/ Outside(t) \/ OnTimer(t) \/ NotYet(t)

Spec == Init /\ [][Next]_vars

\* The threads run, the second of a timer is over at some time, and the sleep
\* of the timer thread is long enough for others to get the spin lock.
FairSpec ==
    /\ Spec
    /\ WF_vars(Joined) /\ WF_vars(UIAcquires)
    /\ WF_vars(TimerThread \/ \E t \in Task : OnTimer(t) \/ NotYet(t))
    /\ \A t \in Task :
          /\ WF_vars(Progress(t))
          /\ SF_vars(Initialised(t) \/ Unwound(t)) /\ SF_vars(OnTimer(t))

----------------------------------------------------------------------------
(* Properties.                                                              *)

\* Types.
TypeOK ==
    /\ ui.pc \in {"off", "idle", "truncate", "write", "exit", "start", "start_wait",
                  "join", "remove", "close"}
    /\ downloaders \subseteq Task
    /\ m_state \in [Task -> DS]
    /\ work_thd \in [Task -> BOOLEAN]
    /\ \A f \in {task_map, resume_file} :
           DOMAIN f \subseteq Task /\ \A t \in DOMAIN f : f[t] \subseteq Piece
    /\ \A f \in {bitfield, pieces, disk, outdated, believed} : f \in [Task -> SUBSET Piece]
    /\ waiting \in [Task -> 0..1] /\ woken \in [Task -> BOOLEAN]
    /\ job \in [Task -> {"download", "hash"}]
    /\ timer \in [Task -> BOOLEAN]
    /\ idx \in [Task -> 0..NumPieces]
    /\ records \subseteq Task /\ copies \subseteq Task

\* Whoever starts a task is told only when its worker is at work or has failed:
\* a task that counts as running, and is not being started, is registered and
\* owns a thread that came through the barrier; a stopped one that nobody joins
\* has no thread, no record, and no one waiting in its barrier.
RunningIsReady ==
    \A t \in downloaders :
        /\ m_state[t] = "running" /\ ui.pc \notin {"start", "start_wait"} =>
               /\ work_thd[t] /\ t \in records
               /\ pc[t] \in {"ready_wait", "context", "test", "message", "flush",
                             "throw_unwind", "throw"}
        /\ m_state[t] = "stop" /\ ui.pc # "join" =>
               ~work_thd[t] /\ pc[t] = "none" /\ t \notin records /\ waiting[t] = 0

\* The timer thread never comes to a timer whose TimerFunc is gone: a timer is
\* registered exactly as long as its worker is between the barrier and the end
\* of its stack, however that end comes.
TimerOfLiving ==
    /\ TimersOK
    /\ \A t \in Task : t \in m_set <=>
          job[t] = "download" /\
          pc[t] \in {"ready", "ready_wait", "context", "test", "message", "flush",
                     "unwind", "throw_unwind"}

\* The three threads of a task agree on what runs and what is gone.
ThreadsAgree == TypeOK /\ RunningIsReady /\ TimerOfLiving

\* A piece the program believes it has is on the disk, through every save,
\* crash, stop and failure: FlushPiece is there to make sure of it.  The one
\* exception is the code's: a torrent is added while the file has an old record
\* of it (AddTask looks at the map, DownloaderManager.cpp 334, and RemoveTask
\* deletes the copy before it saves, 405-414), its worker overwrites what the
\* record claims, and the program ends before it saves.  The next start takes
\* the old record for that of the task.  Nothing else is ever believed wrongly,
\* and nothing that the old record did not claim.
OwnedIsOnDisk ==
    \A t \in Task :
        /\ bitfield[t] \subseteq disk[t] \cup believed[t]
        /\ t \in DOMAIN task_map => task_map[t] \subseteq disk[t] \cup believed[t]
        /\ t \in DOMAIN resume_file =>
               resume_file[t] \subseteq disk[t] \cup believed[t] \cup outdated[t]

\* What the user sees in the list is what the program will find when it starts
\* again: each task has a record and the copy of its torrent, and no record is
\* left that would keep a torrent from being added.
ListedIsRecorded ==
    ui = Idle => DOMAIN task_map = downloaders /\ downloaders \subseteq copies

\* StopDownload asserts that there is a thread to join (Downloader.cpp 99, 140).
StopFindsThread ==
    \A t \in downloaders : ui = Idle /\ m_state[t] # "stop" => work_thd[t]

\* The window is never frozen by a start: the barrier is left even when the
\* worker fails at once.
StartReturns == ui.pc \in {"start", "start_wait"} ~> ui.pc \notin {"start", "start_wait"}

\* Nor by a stop: nobody wakes the worker for it, the timer has to.
StopReturns == ui.pc = "join" ~> ui.pc # "join"

\* No call of the window waits for the worker for ever.
CallsReturn == StartReturns /\ StopReturns
=============================================================================
