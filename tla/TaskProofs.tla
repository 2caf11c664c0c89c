----------------------------- MODULE TaskProofs -----------------------------
(***************************************************************************)
(* The threads of every task agree about what runs, and what survives a    *)
(* stop, a failure or a crash is true, for any number of tasks and pieces: *)
(* the window thread, the workers and the timer thread, in any order.      *)
(***************************************************************************)
EXTENDS Task, TLAPS

(***************************************************************************)
(* The inductive invariant.                                                *)
(***************************************************************************)

UIState ==
    {Off, Idle, [pc |-> "exit"]}
    \cup [pc : {"truncate", "write"}, next : {"idle", "exit"}]
    \cup [pc : {"join"}, task : Task, next : {"idle", "remove", "close"}]
    \cup [pc : {"start", "start_wait", "remove", "close"}, task : Task]

\* Where a worker is with respect to the barrier: before it, in it, or after.
Before == {"open", "registered", "throw_new", "ready", "abort"}
Within == {"ready_wait", "abort_wait"}
Beyond == {"context", "test", "message", "flush", "unwind", "throw_unwind", "throw",
           "leave", "hash", "ended"}

\* The types, with one formula for what changes together.
UITyped ==
    /\ ui \in UIState
    /\ ui.pc = "off" => downloaders = {} /\ DOMAIN task_map = {} /\ timer_thread = "none"
MapsTyped ==
    /\ DOMAIN task_map \subseteq Task /\ \A t \in DOMAIN task_map : task_map[t] \subseteq Piece
    /\ DOMAIN resume_file \subseteq Task
    /\ \A t \in DOMAIN resume_file : resume_file[t] \subseteq Piece
StateTyped == m_state \in [Task -> DS] /\ work_thd \in [Task -> BOOLEAN]
BarrierTyped == waiting \in [Task -> 0..1] /\ woken \in [Task -> BOOLEAN]
PcTyped == pc \in [Task -> {"none"} \cup Before \cup Within \cup Beyond]
PiecesTyped ==
    /\ bitfield \in [Task -> SUBSET Piece] /\ pieces \in [Task -> SUBSET Piece]
    /\ disk \in [Task -> SUBSET Piece]
    /\ outdated \in [Task -> SUBSET Piece] /\ believed \in [Task -> SUBSET Piece]
WorkerTyped ==
    /\ job \in [Task -> {"download", "hash"}] /\ timer \in [Task -> BOOLEAN]
    /\ idx \in [Task -> 0..NumPieces]
SetsTyped == downloaders \subseteq Task /\ records \subseteq Task /\ copies \subseteq Task

Typed ==
    /\ UITyped /\ MapsTyped /\ StateTyped /\ BarrierTyped /\ PcTyped
    /\ PiecesTyped /\ WorkerTyped /\ SetsTyped /\ TimersOK

\* A Downloader has a thread as long as one may run, and only one that is not
\* stopped has one, unless it is being joined.
ThreadOf(t) ==
    /\ work_thd[t] <=> pc[t] # "none"
    /\ work_thd[t] => t \in downloaders
    /\ work_thd[t] /\ m_state[t] = "stop" => ui.pc = "join" /\ ui.task = t

\* What a worker does is the business of its kind, and its state says so.
JobOf(t) ==
    /\ pc[t] \in {"registered", "context", "test", "message", "flush", "unwind",
                  "throw_unwind", "leave"} => job[t] = "download"
    /\ pc[t] = "hash" => job[t] = "hash"
    /\ m_state[t] = "running" =>
          /\ job[t] = "download"
          /\ pc[t] \in {"open", "registered", "throw_new", "ready", "ready_wait", "context",
                        "test", "message", "flush", "throw_unwind", "throw"}

\* The info hash is registered from RegisterRecord to the end of the thread.
RecordOf(t) ==
    /\ job[t] = "download" /\ pc[t] \in {"registered", "ready", "ready_wait", "context", "test",
               "message", "flush", "unwind", "throw_unwind", "throw"} => t \in records
    /\ t \in records => job[t] = "download" /\ pc[t] \notin {"none", "open", "hash", "ended"}

\* The two threads meet: who comes first waits, and is woken by the other.
Starting(t) == ui.pc \in {"start", "start_wait"} /\ ui.task = t

BarrierOf(t) ==
    /\ Starting(t) /\ ui.pc = "start" =>
          /\ ~woken[t]
          /\ \/ pc[t] \in Before /\ waiting[t] = 0
             \/ pc[t] \in Within /\ waiting[t] = 1
    /\ Starting(t) /\ ui.pc = "start_wait" =>
          /\ waiting[t] = 1
          /\ \/ pc[t] \in Before /\ ~woken[t]
             \/ pc[t] \in Beyond /\ woken[t]
    /\ ~Starting(t) =>
          \/ pc[t] \in Within /\ waiting[t] = 1 /\ woken[t]
          \/ pc[t] \in {"none"} \cup Beyond /\ waiting[t] = 0 /\ ~woken[t]

TaskOf(t) == ThreadOf(t) /\ JobOf(t) /\ RecordOf(t) /\ BarrierOf(t)

Inv == Typed /\ TimerOfLiving /\ \A t \in Task : TaskOf(t)

----------------------------------------------------------------------------
(* The invariant says what the runs check, and it holds at first.          *)

LEMMA InvImplies == ASSUME Inv PROVE ThreadsAgree
<1>1. ui.pc \in {"off", "idle", "truncate", "write", "exit", "start", "start_wait",
                 "join", "remove", "close"}
  BY DEF Inv, Typed, UITyped, UIState, Off, Idle
<1>2. \A f \in {task_map, resume_file} :
         DOMAIN f \subseteq Task /\ \A t \in DOMAIN f : f[t] \subseteq Piece
  BY Zenon DEF Inv, Typed, MapsTyped
<1>3. \A f \in {bitfield, pieces, disk, outdated, believed} : f \in [Task -> SUBSET Piece]
  BY Zenon DEF Inv, Typed, PiecesTyped
<1>4. TypeOK
  BY <1>1, <1>2, <1>3, Zenon DEF Inv, Typed, TypeOK, StateTyped, BarrierTyped, WorkerTyped,
                                 SetsTyped
<1>5. ASSUME NEW t \in downloaders
      PROVE  /\ m_state[t] = "running" /\ ui.pc \notin {"start", "start_wait"} =>
                /\ work_thd[t] /\ t \in records
                /\ pc[t] \in {"ready_wait", "context", "test", "message", "flush",
                              "throw_unwind", "throw"}
             /\ m_state[t] = "stop" /\ ui.pc # "join" =>
                ~work_thd[t] /\ pc[t] = "none" /\ t \notin records /\ waiting[t] = 0
  <2>1. t \in Task /\ TaskOf(t)
    BY DEF Inv, Typed, SetsTyped
  <2>2. QED
    BY <2>1 DEF TaskOf, ThreadOf, JobOf, RecordOf, BarrierOf, Starting, Before, Within,
                Beyond
<1>6. QED
  BY <1>4, <1>5 DEF Inv, RunningIsReady, ThreadsAgree

LEMMA InitInv == Init => Inv
<1> SUFFICES ASSUME Init PROVE Inv
  OBVIOUS
<1>1. Typed
  BY TaskAssumption DEF Init, Typed, UITyped, MapsTyped, StateTyped, BarrierTyped, PcTyped,
                        PiecesTyped, WorkerTyped, SetsTyped, TimersOK, UIState, Off, DS,
                        Piece, All, Empty, InitTimers
<1>2. TimerOfLiving
  BY DEF Init, All, InitTimers, TimerOfLiving, TimersOK
<1>3. \A t \in Task : TaskOf(t)
  BY DEF Init, All, Off, TaskOf, ThreadOf, JobOf, RecordOf, BarrierOf, Starting
<1>4. QED
  BY <1>1, <1>2, <1>3 DEF Inv

----------------------------------------------------------------------------
(* Steps of the worker threads and of the timer thread.                    *)

LEMMA RegisterInv ==
    ASSUME Inv, NEW t \in Task, Register(t)
    PROVE  Inv'
<1>1. Typed'
  BY TaskAssumption DEF Inv, Typed, Register, At, UIUnchanged, downloaderVars, persistent,
                        timerManager, UITyped, MapsTyped, StateTyped, DS, PcTyped, Before,
                        Within, Beyond, PiecesTyped, SetsTyped, WorkerTyped, BarrierTyped,
                        TimersOK, Locked
<1>2. TimerOfLiving'
  BY <1>1, TaskAssumption DEF Register, At, UIUnchanged, downloaderVars, persistent,
                              timerManager, Inv, Typed, PcTyped, WorkerTyped, TimerOfLiving,
                              TimersOK, Locked
<1>3. \A u \in Task : TaskOf(u)'
  BY DEF Register, At, UIUnchanged, downloaderVars, persistent, timerManager, Inv, Typed,
         PcTyped, StateTyped, BarrierTyped, WorkerTyped, SetsTyped, TaskOf, ThreadOf, JobOf,
         RecordOf, BarrierOf, Starting, Before, Within, Beyond
<1>4. QED
  BY <1>1, <1>2, <1>3 DEF Inv

LEMMA ContextInv ==
    ASSUME Inv, NEW t \in Task, Context(t)
    PROVE  Inv'
<1>1. Typed'
  BY TaskAssumption DEF Inv, Typed, Context, At, UIUnchanged, downloaderVars, persistent,
                        timerManager, UITyped, MapsTyped, StateTyped, DS, PcTyped, Before,
                        Within, Beyond, PiecesTyped, SetsTyped, WorkerTyped, BarrierTyped,
                        TimersOK, Locked
<1>2. TimerOfLiving'
  BY <1>1, TaskAssumption DEF Context, At, UIUnchanged, downloaderVars, persistent,
                              timerManager, Inv, Typed, PcTyped, WorkerTyped, TimerOfLiving,
                              TimersOK, Locked
<1>3. \A u \in Task : TaskOf(u)'
  BY DEF Context, At, UIUnchanged, downloaderVars, persistent, timerManager, Inv, Typed,
         PcTyped, StateTyped, BarrierTyped, WorkerTyped, SetsTyped, TaskOf, ThreadOf, JobOf,
         RecordOf, BarrierOf, Starting, Before, Within, Beyond
<1>4. QED
  BY <1>1, <1>2, <1>3 DEF Inv

LEMMA TestStateInv ==
    ASSUME Inv, NEW t \in Task, TestState(t)
    PROVE  Inv'
<1>1. Typed'
  BY TaskAssumption DEF Inv, Typed, TestState, At, UIUnchanged, downloaderVars, persistent,
                        timerManager, UITyped, MapsTyped, StateTyped, DS, PcTyped, Before,
                        Within, Beyond, PiecesTyped, SetsTyped, WorkerTyped, BarrierTyped,
                        TimersOK, Locked
<1>2. TimerOfLiving'
  BY <1>1, TaskAssumption DEF TestState, At, UIUnchanged, downloaderVars, persistent,
                              timerManager, Inv, Typed, PcTyped, WorkerTyped, TimerOfLiving,
                              TimersOK, Locked
<1>3. \A u \in Task : TaskOf(u)'
  BY DEF TestState, At, UIUnchanged, downloaderVars, persistent, timerManager, Inv, Typed,
         PcTyped, StateTyped, BarrierTyped, WorkerTyped, SetsTyped, TaskOf, ThreadOf, JobOf,
         RecordOf, BarrierOf, Starting, Before, Within, Beyond
<1>4. QED
  BY <1>1, <1>2, <1>3 DEF Inv

LEMMA WorkerAcquiresInv ==
    ASSUME Inv, NEW t \in Task, WorkerAcquires(t)
    PROVE  Inv'
<1>1. Typed'
  <2>1. UITyped' /\ MapsTyped' /\ StateTyped'
    BY DEF Inv, Typed, WorkerAcquires, At, After, Pass, Wait, Leave, UIUnchanged,
           persistent, timerManager, UITyped, MapsTyped, StateTyped, DS
  <2>2. PcTyped'
    BY DEF Inv, Typed, WorkerAcquires, At, After, Pass, Wait, Leave, PcTyped, Before,
           Within, Beyond
  <2>3. PiecesTyped' /\ SetsTyped'
    BY DEF Inv, Typed, WorkerAcquires, At, After, Pass, Wait, Leave, UIUnchanged,
           persistent, timerManager, PiecesTyped, SetsTyped
  <2>4. WorkerTyped' /\ BarrierTyped'
    <3>1. TaskOf(t) /\ waiting[t] \in 0..1 /\ woken[t] \in BOOLEAN
      BY DEF Inv, Typed, BarrierTyped
    <3>2. woken[t] => waiting[t] = 1
      BY <3>1 DEF TaskOf, BarrierOf, Starting
    <3>3. \/ waiting' = waiting /\ woken' = [woken EXCEPT ![t] = TRUE]
          \/ waiting' = [waiting EXCEPT ![t] = 1] /\ woken' = woken
          \/ waiting' = [waiting EXCEPT ![t] = 0] /\ woken' = [woken EXCEPT ![t] = FALSE]
      BY <3>2 DEF WorkerAcquires, Pass, Wait, Leave
    <3>4. waiting \in [Task -> 0..1] /\ woken \in [Task -> BOOLEAN]
      BY DEF Inv, Typed, BarrierTyped
    <3>5. waiting' \in [Task -> 0..1]
      BY <3>3, <3>4
    <3>6. woken' \in [Task -> BOOLEAN]
      BY <3>3, <3>4
    <3>7. QED
      BY <3>5, <3>6 DEF BarrierTyped, Inv, Typed, WorkerAcquires, WorkerTyped
  <2>5. TimersOK'
    BY TaskAssumption DEF Inv, Typed, WorkerAcquires, At, After, Pass, Wait, Leave,
                          UIUnchanged, persistent, timerManager, TimersOK, Locked
  <2>6. QED
    BY <2>1, <2>2, <2>3, <2>4, <2>5 DEF Typed
<1>2. TimerOfLiving'
  BY <1>1, TaskAssumption DEF WorkerAcquires, At, After, Pass, Wait, Leave, UIUnchanged,
                              persistent, timerManager, Inv, Typed, PcTyped, WorkerTyped,
                              TimerOfLiving, TimersOK, Locked
<1>3. \A u \in Task : TaskOf(u)'
  BY DEF WorkerAcquires, At, After, Pass, Wait, Leave, UIUnchanged, persistent,
         timerManager, Inv, Typed, PcTyped, StateTyped, BarrierTyped, WorkerTyped,
         SetsTyped, TaskOf, ThreadOf, JobOf, RecordOf, BarrierOf, Starting, Before, Within,
         Beyond
<1>4. QED
  BY <1>1, <1>2, <1>3 DEF Inv

LEMMA InitialisedInv ==
    ASSUME Inv, NEW t \in Task, Initialised(t)
    PROVE  Inv'
<1>1. Typed'
  <2>1. UITyped' /\ MapsTyped' /\ StateTyped'
    BY DEF Inv, Typed, Initialised, At, RegisterTimer, downloaderVars, persistent,
           timerManager, UITyped, MapsTyped, StateTyped, DS
  <2>2. PcTyped'
    BY DEF Inv, Typed, Initialised, At, RegisterTimer, PcTyped, Before, Within, Beyond
  <2>3. PiecesTyped' /\ SetsTyped'
    BY DEF Inv, Typed, Initialised, At, RegisterTimer, downloaderVars, persistent,
           timerManager, PiecesTyped, SetsTyped
  <2>4. WorkerTyped' /\ BarrierTyped'
    BY TaskAssumption DEF Inv, Typed, Initialised, At, RegisterTimer, downloaderVars,
                          persistent, timerManager, WorkerTyped, BarrierTyped
  <2>5. TimersOK'
    BY TaskAssumption DEF Inv, Typed, Initialised, At, RegisterTimer, downloaderVars,
                          persistent, timerManager, TimersOK, Locked
  <2>6. QED
    BY <2>1, <2>2, <2>3, <2>4, <2>5 DEF Typed
<1>2. TimerOfLiving'
  BY <1>1, TaskAssumption DEF Initialised, At, RegisterTimer, downloaderVars, persistent,
                              timerManager, Inv, Typed, PcTyped, WorkerTyped, TimerOfLiving,
                              TimersOK, Locked
<1>3. \A u \in Task : TaskOf(u)'
  BY DEF Initialised, At, RegisterTimer, downloaderVars, persistent, timerManager, Inv,
         Typed, PcTyped, StateTyped, BarrierTyped, WorkerTyped, SetsTyped, TaskOf, ThreadOf,
         JobOf, RecordOf, BarrierOf, Starting, Before, Within, Beyond
<1>4. QED
  BY <1>1, <1>2, <1>3 DEF Inv

LEMMA UnwoundInv ==
    ASSUME Inv, NEW t \in Task, Unwound(t)
    PROVE  Inv'
<1>1. Typed'
  BY TaskAssumption DEF Inv, Typed, Unwound, At, RemoveTimer, downloaderVars, persistent,
                        UITyped, MapsTyped, StateTyped, DS, PcTyped, Before, Within, Beyond,
                        PiecesTyped, SetsTyped, WorkerTyped, BarrierTyped, TimersOK, Locked
<1>2. TimerOfLiving'
  BY <1>1, TaskAssumption DEF Unwound, At, RemoveTimer, downloaderVars, persistent, Inv,
                              Typed, PcTyped, WorkerTyped, TimerOfLiving, TimersOK, Locked
<1>3. \A u \in Task : TaskOf(u)'
  BY DEF Unwound, At, RemoveTimer, downloaderVars, persistent, Inv, Typed, PcTyped,
         StateTyped, BarrierTyped, WorkerTyped, SetsTyped, TaskOf, ThreadOf, JobOf,
         RecordOf, BarrierOf, Starting, Before, Within, Beyond
<1>4. QED
  BY <1>1, <1>2, <1>3 DEF Inv

LEMMA TickInv ==
    ASSUME Inv, NEW t \in Task, Tick(t)
    PROVE  Inv'
<1>1. Typed'
  BY TaskAssumption DEF Inv, Typed, Tick, At, UIUnchanged, persistent, timerManager,
                        UITyped, MapsTyped, StateTyped, DS, PcTyped, Before, Within, Beyond,
                        PiecesTyped, SetsTyped, WorkerTyped, BarrierTyped, TimersOK, Locked
<1>2. TimerOfLiving'
  BY <1>1, TaskAssumption DEF Tick, At, UIUnchanged, persistent, timerManager, Inv, Typed,
                              PcTyped, WorkerTyped, TimerOfLiving, TimersOK, Locked
<1>3. \A u \in Task : TaskOf(u)'
  BY DEF Tick, At, UIUnchanged, persistent, timerManager, Inv, Typed, PcTyped, StateTyped,
         BarrierTyped, WorkerTyped, SetsTyped, TaskOf, ThreadOf, JobOf, RecordOf, BarrierOf,
         Starting, Before, Within, Beyond
<1>4. QED
  BY <1>1, <1>2, <1>3 DEF Inv

LEMMA PieceCompletedInv ==
    ASSUME Inv, NEW t \in Task, NEW p \in Piece, PieceCompleted(t, p)
    PROVE  Inv'
<1>1. Typed'
  BY TaskAssumption DEF Inv, Typed, PieceCompleted, At, UIUnchanged, downloaderVars,
                        persistent, timerManager, UITyped, MapsTyped, StateTyped, DS,
                        PcTyped, Before, Within, Beyond, PiecesTyped, SetsTyped,
                        WorkerTyped, BarrierTyped, TimersOK, Locked
<1>2. TimerOfLiving'
  BY <1>1, TaskAssumption DEF PieceCompleted, At, UIUnchanged, downloaderVars, persistent,
                              timerManager, Inv, Typed, PcTyped, WorkerTyped, TimerOfLiving,
                              TimersOK, Locked
<1>3. \A u \in Task : TaskOf(u)'
  BY DEF PieceCompleted, At, UIUnchanged, downloaderVars, persistent, timerManager, Inv,
         Typed, PcTyped, StateTyped, BarrierTyped, WorkerTyped, SetsTyped, TaskOf, ThreadOf,
         JobOf, RecordOf, BarrierOf, Starting, Before, Within, Beyond
<1>4. QED
  BY <1>1, <1>2, <1>3 DEF Inv

LEMMA FlushPieceInv ==
    ASSUME Inv, NEW t \in Task, FlushPiece(t)
    PROVE  Inv'
<1>1. Typed'
  BY TaskAssumption DEF Inv, Typed, FlushPiece, At, UIUnchanged, downloaderVars,
                        timerManager, UITyped, MapsTyped, StateTyped, DS, PcTyped, Before,
                        Within, Beyond, PiecesTyped, SetsTyped, WorkerTyped, BarrierTyped,
                        TimersOK, Locked
<1>2. TimerOfLiving'
  BY <1>1, TaskAssumption DEF FlushPiece, At, UIUnchanged, downloaderVars, timerManager,
                              Inv, Typed, PcTyped, WorkerTyped, TimerOfLiving, TimersOK,
                              Locked
<1>3. \A u \in Task : TaskOf(u)'
  BY DEF FlushPiece, At, UIUnchanged, downloaderVars, timerManager, Inv, Typed, PcTyped,
         StateTyped, BarrierTyped, WorkerTyped, SetsTyped, TaskOf, ThreadOf, JobOf,
         RecordOf, BarrierOf, Starting, Before, Within, Beyond
<1>4. QED
  BY <1>1, <1>2, <1>3 DEF Inv

LEMMA EvictInv ==
    ASSUME Inv, NEW t \in Task, NEW p \in Piece, Evict(t, p)
    PROVE  Inv'
<1>1. Typed'
  BY TaskAssumption DEF Inv, Typed, Evict, At, UIUnchanged, downloaderVars, timerManager,
                        UITyped, MapsTyped, StateTyped, DS, PcTyped, Before, Within, Beyond,
                        PiecesTyped, SetsTyped, WorkerTyped, BarrierTyped, TimersOK, Locked
<1>2. TimerOfLiving'
  BY <1>1, TaskAssumption DEF Evict, At, UIUnchanged, downloaderVars, timerManager, Inv,
                              Typed, PcTyped, WorkerTyped, TimerOfLiving, TimersOK, Locked
<1>3. \A u \in Task : TaskOf(u)'
  BY DEF Evict, At, UIUnchanged, downloaderVars, timerManager, Inv, Typed, PcTyped,
         StateTyped, BarrierTyped, WorkerTyped, SetsTyped, TaskOf, ThreadOf, JobOf,
         RecordOf, BarrierOf, Starting, Before, Within, Beyond
<1>4. QED
  BY <1>1, <1>2, <1>3 DEF Inv

LEMMA ThrowInv ==
    ASSUME Inv, NEW t \in Task, Throw(t)
    PROVE  Inv'
<1>1. Typed'
  BY TaskAssumption DEF Inv, Typed, Throw, At, UIUnchanged, downloaderVars, persistent,
                        timerManager, UITyped, MapsTyped, StateTyped, DS, PcTyped, Before,
                        Within, Beyond, PiecesTyped, SetsTyped, WorkerTyped, BarrierTyped,
                        TimersOK, Locked
<1>2. TimerOfLiving'
  BY <1>1, TaskAssumption DEF Throw, At, UIUnchanged, downloaderVars, persistent,
                              timerManager, Inv, Typed, PcTyped, WorkerTyped, TimerOfLiving,
                              TimersOK, Locked
<1>3. \A u \in Task : TaskOf(u)'
  BY DEF Throw, At, UIUnchanged, downloaderVars, persistent, timerManager, Inv, Typed,
         PcTyped, StateTyped, BarrierTyped, WorkerTyped, SetsTyped, TaskOf, ThreadOf, JobOf,
         RecordOf, BarrierOf, Starting, Before, Within, Beyond
<1>4. QED
  BY <1>1, <1>2, <1>3 DEF Inv

LEMMA CatchInv ==
    ASSUME Inv, NEW t \in Task, Catch(t)
    PROVE  Inv'
<1>1. Typed'
  BY TaskAssumption DEF Inv, Typed, Catch, CatchAt, At, After, UIUnchanged, persistent,
                        timerManager, UITyped, MapsTyped, StateTyped, DS, PcTyped, Before,
                        Within, Beyond, PiecesTyped, SetsTyped, WorkerTyped, BarrierTyped,
                        TimersOK, Locked
<1>2. TimerOfLiving'
  BY <1>1, TaskAssumption DEF Catch, CatchAt, At, After, UIUnchanged, persistent,
                              timerManager, Inv, Typed, PcTyped, WorkerTyped, TimerOfLiving,
                              TimersOK, Locked
<1>3. \A u \in Task : TaskOf(u)'
  BY DEF Catch, CatchAt, At, After, UIUnchanged, persistent, timerManager, Inv, Typed,
         PcTyped, StateTyped, BarrierTyped, WorkerTyped, SetsTyped, TaskOf, ThreadOf, JobOf,
         RecordOf, BarrierOf, Starting, Before, Within, Beyond
<1>4. QED
  BY <1>1, <1>2, <1>3 DEF Inv

LEMMA RemoveRecordInv ==
    ASSUME Inv, NEW t \in Task, RemoveRecord(t)
    PROVE  Inv'
<1>1. Typed'
  BY TaskAssumption DEF Inv, Typed, RemoveRecord, At, UIUnchanged, downloaderVars,
                        persistent, timerManager, UITyped, MapsTyped, StateTyped, DS,
                        PcTyped, Before, Within, Beyond, PiecesTyped, SetsTyped,
                        WorkerTyped, BarrierTyped, TimersOK, Locked
<1>2. TimerOfLiving'
  BY <1>1, TaskAssumption DEF RemoveRecord, At, UIUnchanged, downloaderVars, persistent,
                              timerManager, Inv, Typed, PcTyped, WorkerTyped, TimerOfLiving,
                              TimersOK, Locked
<1>3. \A u \in Task : TaskOf(u)'
  BY DEF RemoveRecord, At, UIUnchanged, downloaderVars, persistent, timerManager, Inv,
         Typed, PcTyped, StateTyped, BarrierTyped, WorkerTyped, SetsTyped, TaskOf, ThreadOf,
         JobOf, RecordOf, BarrierOf, Starting, Before, Within, Beyond
<1>4. QED
  BY <1>1, <1>2, <1>3 DEF Inv

LEMMA HashPieceInv ==
    ASSUME Inv, NEW t \in Task, HashPiece(t)
    PROVE  Inv'
<1>1. Typed'
  BY TaskAssumption DEF Inv, Typed, HashPiece, At, Piece, UIUnchanged, persistent,
                        timerManager, UITyped, MapsTyped, StateTyped, DS, PcTyped, Before,
                        Within, Beyond, PiecesTyped, SetsTyped, WorkerTyped, BarrierTyped,
                        TimersOK, Locked
<1>2. TimerOfLiving'
  BY <1>1, TaskAssumption DEF HashPiece, At, Piece, UIUnchanged, persistent, timerManager,
                              Inv, Typed, PcTyped, WorkerTyped, TimerOfLiving, TimersOK,
                              Locked
<1>3. \A u \in Task : TaskOf(u)'
  BY DEF HashPiece, At, Piece, UIUnchanged, persistent, timerManager, Inv, Typed, PcTyped,
         StateTyped, BarrierTyped, WorkerTyped, SetsTyped, TaskOf, ThreadOf, JobOf,
         RecordOf, BarrierOf, Starting, Before, Within, Beyond
<1>4. QED
  BY <1>1, <1>2, <1>3 DEF Inv

LEMMA HashDoneInv ==
    ASSUME Inv, NEW t \in Task, HashDone(t)
    PROVE  Inv'
<1>1. Typed'
  BY TaskAssumption DEF Inv, Typed, HashDone, At, UIUnchanged, downloaderVars, persistent,
                        timerManager, UITyped, MapsTyped, StateTyped, DS, PcTyped, Before,
                        Within, Beyond, PiecesTyped, SetsTyped, WorkerTyped, BarrierTyped,
                        TimersOK, Locked
<1>2. TimerOfLiving'
  BY <1>1, TaskAssumption DEF HashDone, At, UIUnchanged, downloaderVars, persistent,
                              timerManager, Inv, Typed, PcTyped, WorkerTyped, TimerOfLiving,
                              TimersOK, Locked
<1>3. \A u \in Task : TaskOf(u)'
  BY DEF HashDone, At, UIUnchanged, downloaderVars, persistent, timerManager, Inv, Typed,
         PcTyped, StateTyped, BarrierTyped, WorkerTyped, SetsTyped, TaskOf, ThreadOf, JobOf,
         RecordOf, BarrierOf, Starting, Before, Within, Beyond
<1>4. QED
  BY <1>1, <1>2, <1>3 DEF Inv

LEMMA OnTimerInv ==
    ASSUME Inv, NEW t \in Task, OnTimer(t)
    PROVE  Inv'
<1>1. Typed'
  BY TaskAssumption DEF Inv, Typed, OnTimer, ComesTo, downloaderVars, persistent, UITyped,
                        MapsTyped, StateTyped, DS, PcTyped, Before, Within, Beyond,
                        PiecesTyped, SetsTyped, WorkerTyped, BarrierTyped, TimersOK, Locked
<1>2. TimerOfLiving'
  BY <1>1, TaskAssumption DEF OnTimer, ComesTo, downloaderVars, persistent, Inv, Typed,
                              PcTyped, WorkerTyped, TimerOfLiving, TimersOK, Locked
<1>3. \A u \in Task : TaskOf(u)'
  BY DEF OnTimer, ComesTo, downloaderVars, persistent, Inv, Typed, PcTyped, StateTyped,
         BarrierTyped, WorkerTyped, SetsTyped, TaskOf, ThreadOf, JobOf, RecordOf, BarrierOf,
         Starting, Before, Within, Beyond
<1>4. QED
  BY <1>1, <1>2, <1>3 DEF Inv

LEMMA NotYetInv ==
    ASSUME Inv, NEW t \in Task, NotYet(t)
    PROVE  Inv'
<1>1. Typed'
  BY TaskAssumption DEF Inv, Typed, NotYet, ComesTo, downloaderVars, persistent, UITyped,
                        MapsTyped, StateTyped, DS, PcTyped, Before, Within, Beyond,
                        PiecesTyped, SetsTyped, WorkerTyped, BarrierTyped, TimersOK, Locked
<1>2. TimerOfLiving'
  BY <1>1, TaskAssumption DEF NotYet, ComesTo, downloaderVars, persistent, Inv, Typed,
                              PcTyped, WorkerTyped, TimerOfLiving, TimersOK, Locked
<1>3. \A u \in Task : TaskOf(u)'
  BY DEF NotYet, ComesTo, downloaderVars, persistent, Inv, Typed, PcTyped, StateTyped,
         BarrierTyped, WorkerTyped, SetsTyped, TaskOf, ThreadOf, JobOf, RecordOf, BarrierOf,
         Starting, Before, Within, Beyond
<1>4. QED
  BY <1>1, <1>2, <1>3 DEF Inv

LEMMA TimerThreadInv ==
    ASSUME Inv, TimerThread
    PROVE  Inv'
<1>1. Typed'
  BY TaskAssumption DEF Inv, Typed, TimerThread, WakesUp, Sleeps, Locked, downloaderVars,
                        persistent, UITyped, MapsTyped, StateTyped, DS, PcTyped, Before,
                        Within, Beyond, PiecesTyped, SetsTyped, WorkerTyped, BarrierTyped,
                        TimersOK
<1>2. TimerOfLiving'
  BY <1>1, TaskAssumption DEF TimerThread, WakesUp, Sleeps, Locked, downloaderVars,
                              persistent, Inv, Typed, PcTyped, WorkerTyped, TimerOfLiving,
                              TimersOK
<1>3. \A u \in Task : TaskOf(u)'
  BY DEF TimerThread, WakesUp, Sleeps, Locked, downloaderVars, persistent, Inv, Typed,
         PcTyped, StateTyped, BarrierTyped, WorkerTyped, SetsTyped, TaskOf, ThreadOf, JobOf,
         RecordOf, BarrierOf, Starting, Before, Within, Beyond
<1>4. QED
  BY <1>1, <1>2, <1>3 DEF Inv

----------------------------------------------------------------------------
(* Steps of the window thread.                                             *)

LEMMA StartUpInv ==
    ASSUME Inv, StartUp
    PROVE  Inv'
<1>1. Typed'
  <2>1. UITyped' /\ MapsTyped' /\ StateTyped'
    BY DEF Inv, Typed, StartUp, StartTimers, Restrict, Off, Idle, UIState, persistent,
           UITyped, MapsTyped, StateTyped, DS
  <2>2. PcTyped'
    BY DEF Inv, Typed, StartUp, StartTimers, Restrict, Off, Idle, UIState, PcTyped, Before,
           Within, Beyond
  <2>3. PiecesTyped' /\ SetsTyped'
    BY DEF Inv, Typed, StartUp, persistent, PiecesTyped, SetsTyped, MapsTyped
  <2>4. WorkerTyped' /\ BarrierTyped'
    BY TaskAssumption DEF Inv, Typed, StartUp, StartTimers, Restrict, Off, Idle, UIState,
                          persistent, WorkerTyped, BarrierTyped
  <2>5. TimersOK'
    BY TaskAssumption DEF Inv, Typed, StartUp, StartTimers, Restrict, Off, Idle, UIState,
                          persistent, TimersOK, Locked
  <2>6. QED
    BY <2>1, <2>2, <2>3, <2>4, <2>5 DEF Typed
<1>2. TimerOfLiving'
  BY <1>1, TaskAssumption DEF StartUp, StartTimers, Restrict, Off, Idle, UIState,
                              persistent, Inv, Typed, PcTyped, WorkerTyped, TimerOfLiving,
                              TimersOK, Locked
<1>3. \A u \in Task : TaskOf(u)'
  BY DEF Inv, Typed, StartUp, UITyped, SetsTyped, Off, Idle, TaskOf, ThreadOf, JobOf,
         RecordOf, BarrierOf, Starting, Before, Within, Beyond
<1>4. QED
  BY <1>1, <1>2, <1>3 DEF Inv

LEMMA AddTaskInv ==
    ASSUME Inv, NEW t \in Task, AddTask(t)
    PROVE  Inv'
<1>1. Typed'
  BY TaskAssumption DEF Inv, Typed, AddTask, Idle, workerVars, timerManager, UITyped,
                        MapsTyped, StateTyped, DS, PcTyped, Before, Within, Beyond,
                        PiecesTyped, SetsTyped, WorkerTyped, BarrierTyped, TimersOK, Locked
<1>2. TimerOfLiving'
  BY <1>1, TaskAssumption DEF AddTask, Idle, workerVars, timerManager, Inv, Typed, PcTyped,
                              WorkerTyped, TimerOfLiving, TimersOK, Locked
<1>3. \A u \in Task : TaskOf(u)'
  BY DEF AddTask, Idle, workerVars, timerManager, Inv, Typed, PcTyped, StateTyped,
         BarrierTyped, WorkerTyped, SetsTyped, TaskOf, ThreadOf, JobOf, RecordOf, BarrierOf,
         Starting, Before, Within, Beyond
<1>4. QED
  BY <1>1, <1>2, <1>3 DEF Inv

LEMMA SaveInv ==
    ASSUME Inv, NEW next \in {"idle", "exit"}, Save(next)
    PROVE  Inv'
<1>1. Typed'
  <2>1. UITyped' /\ MapsTyped' /\ StateTyped'
    BY DEF Inv, Typed, Save, Idle, UIState, workerVars, timerManager, downloaderVars,
           persistent, UITyped, MapsTyped, StateTyped, PiecesTyped
  <2>2. PcTyped'
    BY DEF Inv, Typed, Save, Idle, UIState, workerVars, PcTyped, Before, Within, Beyond
  <2>3. PiecesTyped' /\ SetsTyped'
    BY DEF Inv, Typed, Save, Idle, UIState, workerVars, downloaderVars, persistent,
           timerManager, PiecesTyped, SetsTyped
  <2>4. WorkerTyped' /\ BarrierTyped'
    BY TaskAssumption DEF Inv, Typed, Save, Idle, UIState, workerVars, downloaderVars,
                          persistent, timerManager, WorkerTyped, BarrierTyped
  <2>5. TimersOK'
    BY TaskAssumption DEF Inv, Typed, Save, Idle, UIState, workerVars, downloaderVars,
                          persistent, timerManager, TimersOK, Locked
  <2>6. QED
    BY <2>1, <2>2, <2>3, <2>4, <2>5 DEF Typed
<1>2. TimerOfLiving'
  BY <1>1, TaskAssumption DEF Save, Idle, UIState, workerVars, downloaderVars, persistent,
                              timerManager, Inv, Typed, PcTyped, WorkerTyped, TimerOfLiving,
                              TimersOK, Locked
<1>3. \A u \in Task : TaskOf(u)'
  BY DEF Save, Idle, UIState, workerVars, downloaderVars, persistent, timerManager, Inv,
         Typed, PcTyped, StateTyped, BarrierTyped, WorkerTyped, SetsTyped, TaskOf, ThreadOf,
         JobOf, RecordOf, BarrierOf, Starting, Before, Within, Beyond
<1>4. QED
  BY <1>1, <1>2, <1>3 DEF Inv

LEMMA TruncateInv ==
    ASSUME Inv, Truncate
    PROVE  Inv'
<1>1. Typed'
  <2>1. UITyped' /\ MapsTyped' /\ StateTyped'
    BY DEF Inv, Typed, Truncate, Empty, UIState, Off, Idle, workerVars, downloaderVars,
           timerManager, UITyped, MapsTyped, StateTyped, DS
  <2>2. PcTyped'
    BY DEF Inv, Typed, Truncate, Empty, UIState, Off, Idle, workerVars, PcTyped, Before,
           Within, Beyond
  <2>3. PiecesTyped' /\ SetsTyped'
    BY DEF Inv, Typed, Truncate, All, workerVars, downloaderVars, PiecesTyped, SetsTyped
  <2>4. WorkerTyped' /\ BarrierTyped'
    BY TaskAssumption DEF Inv, Typed, Truncate, Empty, UIState, Off, Idle, workerVars,
                          downloaderVars, timerManager, WorkerTyped, BarrierTyped
  <2>5. TimersOK'
    BY TaskAssumption DEF Inv, Typed, Truncate, Empty, UIState, Off, Idle, workerVars,
                          downloaderVars, timerManager, TimersOK, Locked
  <2>6. QED
    BY <2>1, <2>2, <2>3, <2>4, <2>5 DEF Typed
<1>2. TimerOfLiving'
  BY <1>1, TaskAssumption DEF Truncate, Empty, UIState, Off, Idle, workerVars,
                              downloaderVars, timerManager, Inv, Typed, PcTyped,
                              WorkerTyped, TimerOfLiving, TimersOK, Locked
<1>3. \A u \in Task : TaskOf(u)'
  BY DEF Truncate, Empty, UIState, Off, Idle, workerVars, downloaderVars, timerManager, Inv,
         Typed, PcTyped, StateTyped, BarrierTyped, WorkerTyped, SetsTyped, TaskOf, ThreadOf,
         JobOf, RecordOf, BarrierOf, Starting, Before, Within, Beyond
<1>4. QED
  BY <1>1, <1>2, <1>3 DEF Inv

LEMMA WriteInv ==
    ASSUME Inv, Write
    PROVE  Inv'
<1>1. Typed'
  <2>1. UITyped' /\ MapsTyped' /\ StateTyped'
    BY DEF Inv, Typed, Write, Empty, UIState, Off, Idle, workerVars, downloaderVars,
           timerManager, UITyped, MapsTyped, StateTyped, DS
  <2>2. PcTyped'
    BY DEF Inv, Typed, Write, Empty, UIState, Off, Idle, workerVars, PcTyped, Before,
           Within, Beyond
  <2>3. PiecesTyped' /\ SetsTyped'
    BY DEF Inv, Typed, Write, Empty, UIState, Off, Idle, workerVars, downloaderVars,
           timerManager, PiecesTyped, SetsTyped
  <2>4. WorkerTyped' /\ BarrierTyped'
    BY TaskAssumption DEF Inv, Typed, Write, Empty, UIState, Off, Idle, workerVars,
                          downloaderVars, timerManager, WorkerTyped, BarrierTyped
  <2>5. TimersOK'
    BY TaskAssumption DEF Inv, Typed, Write, Empty, UIState, Off, Idle, workerVars,
                          downloaderVars, timerManager, TimersOK, Locked
  <2>6. QED
    BY <2>1, <2>2, <2>3, <2>4, <2>5 DEF Typed
<1>2. TimerOfLiving'
  BY <1>1, TaskAssumption DEF Write, Empty, UIState, Off, Idle, workerVars, downloaderVars,
                              timerManager, Inv, Typed, PcTyped, WorkerTyped, TimerOfLiving,
                              TimersOK, Locked
<1>3. \A u \in Task : TaskOf(u)'
  <2>1. ui'.pc \in {"idle", "exit"} /\ ui.pc = "write"
    BY DEF Inv, Typed, UITyped, UIState, Write, Off, Idle
  <2>2. QED
    BY <2>1 DEF Inv, Write, workerVars, downloaderVars, TaskOf, ThreadOf, JobOf, RecordOf,
                BarrierOf, Starting, Before, Within, Beyond
<1>4. QED
  BY <1>1, <1>2, <1>3 DEF Inv

LEMMA JoinedInv ==
    ASSUME Inv, Joined
    PROVE  Inv'
<1>1. Typed'
  <2>1. UITyped' /\ MapsTyped' /\ StateTyped'
    BY DEF Inv, Typed, Joined, UIState, Off, Idle, persistent, timerManager, UITyped,
           MapsTyped, StateTyped, DS
  <2>2. PcTyped'
    BY DEF Inv, Typed, Joined, UIState, Off, Idle, PcTyped, Before, Within, Beyond
  <2>3. PiecesTyped' /\ SetsTyped'
    BY DEF Inv, Typed, Joined, UIState, Off, Idle, persistent, timerManager, PiecesTyped,
           SetsTyped
  <2>4. WorkerTyped' /\ BarrierTyped'
    BY TaskAssumption DEF Inv, Typed, Joined, UIState, Off, Idle, persistent, timerManager,
                          WorkerTyped, BarrierTyped
  <2>5. TimersOK'
    BY TaskAssumption DEF Inv, Typed, Joined, UIState, Off, Idle, persistent, timerManager,
                          TimersOK, Locked
  <2>6. QED
    BY <2>1, <2>2, <2>3, <2>4, <2>5 DEF Typed
<1>2. TimerOfLiving'
  BY <1>1, TaskAssumption DEF Joined, UIState, Off, Idle, persistent, timerManager, Inv,
                              Typed, PcTyped, WorkerTyped, TimerOfLiving, TimersOK, Locked
<1>3. \A u \in Task : TaskOf(u)'
  <2>1. /\ ui.pc = "join" /\ ui.task \in Task
        /\ ui'.pc \in {"idle", "remove", "close"}
    BY DEF Inv, Typed, UITyped, UIState, Joined, Off, Idle
  <2>2. QED
    BY <2>1 DEF Inv, Typed, Joined, PcTyped, StateTyped, BarrierTyped, SetsTyped, TaskOf,
                ThreadOf, JobOf, RecordOf, BarrierOf, Starting, Before, Within, Beyond
<1>4. QED
  BY <1>1, <1>2, <1>3 DEF Inv

LEMMA UIAcquiresInv ==
    ASSUME Inv, UIAcquires
    PROVE  Inv'
<1>1. Typed'
  <2>1. UITyped' /\ MapsTyped' /\ StateTyped'
    BY DEF Inv, Typed, UIAcquires, Pass, Wait, Leave, UIState, Off, Idle, workerVars,
           persistent, timerManager, UITyped, MapsTyped, StateTyped, DS
  <2>2. PcTyped'
    BY DEF Inv, Typed, UIAcquires, Pass, Wait, Leave, UIState, Off, Idle, workerVars,
           PcTyped, Before, Within, Beyond
  <2>3. PiecesTyped' /\ SetsTyped'
    BY DEF Inv, Typed, UIAcquires, Pass, Wait, Leave, UIState, Off, Idle, workerVars,
           persistent, timerManager, PiecesTyped, SetsTyped
  <2>4. WorkerTyped' /\ BarrierTyped'
    <3>1. ui.pc \in {"start", "start_wait"} /\ ui.task \in Task
      BY DEF Inv, Typed, UITyped, UIState, UIAcquires, Off, Idle
    <3>2. woken[ui.task] => waiting[ui.task] = 1
      BY <3>1 DEF Inv, Typed, BarrierTyped, TaskOf, BarrierOf, Starting
    <3>3. \/ waiting' = waiting /\ woken' = [woken EXCEPT ![ui.task] = TRUE]
          \/ waiting' = [waiting EXCEPT ![ui.task] = 1] /\ woken' = woken
          \/ /\ waiting' = [waiting EXCEPT ![ui.task] = 0]
             /\ woken' = [woken EXCEPT ![ui.task] = FALSE]
      BY <3>2 DEF UIAcquires, Pass, Wait, Leave
    <3>4. waiting \in [Task -> 0..1] /\ woken \in [Task -> BOOLEAN]
      BY DEF Inv, Typed, BarrierTyped
    <3>5. waiting' \in [Task -> 0..1]
      BY <3>1, <3>3, <3>4
    <3>6. woken' \in [Task -> BOOLEAN]
      BY <3>1, <3>3, <3>4
    <3>7. QED
      BY <3>5, <3>6 DEF BarrierTyped, Inv, Typed, UIAcquires, workerVars, WorkerTyped
  <2>5. TimersOK'
    BY TaskAssumption DEF Inv, Typed, UIAcquires, Pass, Wait, Leave, UIState, Off, Idle,
                          workerVars, persistent, timerManager, TimersOK, Locked
  <2>6. QED
    BY <2>1, <2>2, <2>3, <2>4, <2>5 DEF Typed
<1>2. TimerOfLiving'
  BY <1>1, TaskAssumption DEF UIAcquires, Pass, Wait, Leave, UIState, Off, Idle, workerVars,
                              persistent, timerManager, Inv, Typed, PcTyped, WorkerTyped,
                              TimerOfLiving, TimersOK, Locked
<1>3. \A u \in Task : TaskOf(u)'
  <2>1. ui.pc \in {"start", "start_wait"} /\ ui.task \in Task
    BY DEF Inv, Typed, UITyped, UIState, UIAcquires, Off, Idle
  <2>2. \/ ui.pc = "start" /\ Pass(ui.task) /\ ui' = Idle
        \/ ui.pc = "start" /\ Wait(ui.task) /\ ui' = [pc |-> "start_wait", task |-> ui.task]
        \/ ui.pc = "start_wait" /\ Leave(ui.task) /\ ui' = Idle
    BY DEF Inv, Typed, UITyped, UIState, UIAcquires, Off, Idle
  <2>3. QED
    BY <2>1, <2>2 DEF Inv, Typed, UIAcquires, Pass, Wait, Leave, Idle, workerVars, PcTyped,
                      StateTyped, BarrierTyped, SetsTyped, TaskOf, ThreadOf, JobOf,
                      RecordOf, BarrierOf, Starting, Before, Within, Beyond
<1>4. QED
  BY <1>1, <1>2, <1>3 DEF Inv

LEMMA StartWorkerInv ==
    ASSUME Inv, NEW t \in Task, NEW what \in {"download", "hash"}, NEW state \in DS,
           state = IF what = "download" THEN "running" ELSE "hash_checking",
           StartWorker(t, what, state)
    PROVE  Inv'
<1>1. Typed'
  <2>1. UITyped' /\ MapsTyped' /\ StateTyped'
    BY DEF Inv, Typed, StartWorker, UIState, Idle, Off, persistent, timerManager, UITyped,
           MapsTyped, StateTyped, DS
  <2>2. PcTyped'
    BY DEF Inv, Typed, StartWorker, UIState, Idle, Off, PcTyped, Before, Within, Beyond
  <2>3. PiecesTyped' /\ SetsTyped'
    BY DEF Inv, Typed, StartWorker, UIState, Idle, Off, persistent, timerManager,
           PiecesTyped, SetsTyped
  <2>4. WorkerTyped' /\ BarrierTyped'
    BY TaskAssumption DEF Inv, Typed, StartWorker, UIState, Idle, Off, persistent,
                          timerManager, WorkerTyped, BarrierTyped
  <2>5. TimersOK'
    BY TaskAssumption DEF Inv, Typed, StartWorker, UIState, Idle, Off, persistent,
                          timerManager, TimersOK, Locked
  <2>6. QED
    BY <2>1, <2>2, <2>3, <2>4, <2>5 DEF Typed
<1>2. TimerOfLiving'
  BY <1>1, TaskAssumption DEF Inv, Typed, StartWorker, Idle, timerManager, PcTyped,
                              WorkerTyped, TimerOfLiving, TimersOK, Locked, TaskOf, ThreadOf
<1>3. \A u \in Task : TaskOf(u)'
  BY DEF StartWorker, UIState, Idle, Off, persistent, timerManager, Inv, Typed, PcTyped,
         StateTyped, BarrierTyped, WorkerTyped, SetsTyped, TaskOf, ThreadOf, JobOf,
         RecordOf, BarrierOf, Starting, Before, Within, Beyond
<1>4. QED
  BY <1>1, <1>2, <1>3 DEF Inv

LEMMA DiesInv ==
    ASSUME Inv, Dies, UNCHANGED <<resume_file, disk, outdated, believed>>, copies' \subseteq copies
    PROVE  Inv'
<1>1. Typed'
  <2>1. UITyped' /\ MapsTyped' /\ StateTyped' /\ BarrierTyped'
    BY DEF Inv, Typed, Dies, UITyped, UIState, MapsTyped, StateTyped, BarrierTyped, Off,
           Empty, All, DS
  <2>2. PcTyped' /\ PiecesTyped' /\ SetsTyped' /\ TimersOK'
    BY DEF Inv, Typed, Dies, PcTyped, PiecesTyped, SetsTyped, TimersOK, All
  <2>3. WorkerTyped'
    BY TaskAssumption DEF Dies, WorkerTyped, All
  <2>4. QED
    BY <2>1, <2>2, <2>3 DEF Typed
<1>2. TimerOfLiving'
  BY <1>1 DEF Typed, Dies, All, TimerOfLiving
<1>3. \A u \in Task : TaskOf(u)'
  BY DEF Dies, All, Off, TaskOf, ThreadOf, JobOf, RecordOf, BarrierOf, Starting
<1>4. QED
  BY <1>1, <1>2, <1>3 DEF Inv

LEMMA StopForInv ==
    ASSUME Inv, NEW t \in Task, t \in downloaders, ui.pc \in {"idle", "exit"},
           NEW next \in {"idle", "remove", "close"}, StopFor(t, next)
    PROVE  Inv'
<1>1. CASE Dies /\ UNCHANGED persistent
  BY <1>1, DiesInv DEF persistent
<1>2. CASE ~(Dies /\ UNCHANGED persistent)
  <2>1. /\ m_state[t] # "stop" /\ work_thd[t]
        /\ m_state' = [m_state EXCEPT ![t] = "stop"]
        /\ ui' = [pc |-> "join", task |-> t, next |-> next]
        /\ UNCHANGED <<downloaders, task_map, work_thd, bitfield, waiting, woken,
                       workerVars, persistent>>
    BY <1>2 DEF StopFor
  <2>2. Typed'
    <3>1. UITyped' /\ MapsTyped' /\ StateTyped' /\ BarrierTyped'
      BY <2>1 DEF Inv, Typed, UITyped, UIState, MapsTyped, StateTyped, BarrierTyped, DS,
                  workerVars, timerManager, persistent
    <3>2. PcTyped' /\ PiecesTyped' /\ WorkerTyped' /\ SetsTyped' /\ TimersOK'
      BY <2>1 DEF Inv, Typed, PcTyped, PiecesTyped, WorkerTyped, SetsTyped, TimersOK,
                  Locked, workerVars, timerManager, persistent
    <3>3. QED
      BY <3>1, <3>2 DEF Typed
  <2>3. TimerOfLiving'
    BY <2>1 DEF Inv, workerVars, timerManager, TimerOfLiving, TimersOK, Locked
  <2>4. \A u \in Task : TaskOf(u)'
    BY <2>1 DEF Inv, Typed, StateTyped, workerVars, TaskOf, ThreadOf, JobOf, RecordOf,
                BarrierOf, Starting
  <2>5. QED
    BY <2>2, <2>3, <2>4 DEF Inv
<1>3. QED
  BY <1>1, <1>2

LEMMA StoppedForInv ==
    ASSUME Inv, NEW t \in Task, t \in downloaders, ui.pc \in {"idle", "exit"},
           NEW next \in {"remove", "close"}, StoppedFor(t, next)
    PROVE  Inv'
<1>1. CASE StopFor(t, next)
  BY <1>1, StopForInv
<1>2. CASE /\ m_state[t] = "stop"
           /\ ui' = [pc |-> next, task |-> t]
           /\ UNCHANGED <<downloaders, task_map, downloaderVars, workerVars, persistent>>
  <2>1. Typed'
    <3>1. UITyped' /\ MapsTyped' /\ StateTyped' /\ BarrierTyped'
      BY <1>2 DEF Inv, Typed, UITyped, UIState, MapsTyped, StateTyped, BarrierTyped,
                  downloaderVars, workerVars, timerManager, persistent
    <3>2. PcTyped' /\ PiecesTyped' /\ WorkerTyped' /\ SetsTyped' /\ TimersOK'
      BY <1>2 DEF Inv, Typed, PcTyped, PiecesTyped, WorkerTyped, SetsTyped, TimersOK,
                  Locked, downloaderVars, workerVars, timerManager, persistent
    <3>3. QED
      BY <3>1, <3>2 DEF Typed
  <2>2. TimerOfLiving'
    BY <1>2 DEF Inv, workerVars, timerManager, TimerOfLiving, TimersOK, Locked
  <2>3. \A u \in Task : TaskOf(u)'
    BY <1>2 DEF Inv, downloaderVars, workerVars, TaskOf, ThreadOf, JobOf, RecordOf,
                BarrierOf, Starting
  <2>4. QED
    BY <2>1, <2>2, <2>3 DEF Inv
<1>3. QED
  BY <1>1, <1>2 DEF StoppedFor

LEMMA RemovedInv ==
    ASSUME Inv, Removed
    PROVE  Inv'
<1>0. /\ ui.pc = "remove" /\ ui.task \in Task
      /\ copies' \subseteq copies /\ UNCHANGED <<resume_file, disk, outdated, believed>>
  BY DEF Inv, Typed, UITyped, UIState, Off, Idle, Removed
<1>1. CASE Dies
  BY <1>0, <1>1, DiesInv
<1>2. CASE ~Dies
  <2>1. /\ m_state[ui.task] = "stop"
        /\ downloaders' = downloaders \ {ui.task}
        /\ task_map' = Restrict(task_map, DOMAIN task_map \ {ui.task})
        /\ bitfield' = [bitfield EXCEPT ![ui.task] = {}]
        /\ ui' = [pc |-> "truncate", next |-> "idle"]
        /\ UNCHANGED <<m_state, work_thd, waiting, woken, workerVars>>
    BY <1>2 DEF Removed
  <2>2. Typed'
    <3>1. UITyped' /\ MapsTyped' /\ StateTyped' /\ BarrierTyped'
      BY <1>0, <2>1 DEF Inv, Typed, UITyped, UIState, MapsTyped, StateTyped, BarrierTyped,
                        workerVars, Restrict
    <3>2. PcTyped' /\ PiecesTyped' /\ SetsTyped'
      BY <1>0, <2>1 DEF Inv, Typed, PcTyped, PiecesTyped, SetsTyped, workerVars
    <3>3. WorkerTyped' /\ TimersOK'
      BY <1>0, <2>1 DEF Inv, Typed, WorkerTyped, TimersOK, Locked, workerVars, timerManager
    <3>4. QED
      BY <3>1, <3>2, <3>3 DEF Typed
  <2>3. TimerOfLiving'
    BY <2>1 DEF Inv, workerVars, timerManager, TimerOfLiving, TimersOK, Locked
  <2>4. \A u \in Task : TaskOf(u)'
    BY <1>0, <2>1 DEF Inv, workerVars, TaskOf, ThreadOf, JobOf, RecordOf, BarrierOf,
                      Starting
  <2>5. QED
    BY <2>2, <2>3, <2>4 DEF Inv
<1>3. QED
  BY <1>1, <1>2

LEMMA ClosedInv ==
    ASSUME Inv, Closed
    PROVE  Inv'
<1>0. ui.pc = "close" /\ ui.task \in Task /\ UNCHANGED persistent
  BY DEF Inv, Typed, UITyped, UIState, Off, Idle, Closed
<1>1. CASE Dies
  BY <1>0, <1>1, DiesInv DEF persistent
<1>2. CASE ~Dies
  <2>1. /\ m_state[ui.task] = "stop"
        /\ downloaders' = downloaders \ {ui.task}
        /\ ui' = [pc |-> "exit"]
        /\ UNCHANGED <<task_map, downloaderVars, workerVars>>
    BY <1>2 DEF Closed
  <2>2. Typed'
    <3>1. UITyped' /\ MapsTyped' /\ StateTyped' /\ BarrierTyped'
      BY <1>0, <2>1 DEF Inv, Typed, UITyped, UIState, MapsTyped, StateTyped, BarrierTyped,
                        downloaderVars, workerVars, persistent
    <3>2. PcTyped' /\ PiecesTyped' /\ WorkerTyped' /\ SetsTyped' /\ TimersOK'
      BY <1>0, <2>1 DEF Inv, Typed, PcTyped, PiecesTyped, WorkerTyped, SetsTyped, TimersOK,
                        Locked, downloaderVars, workerVars, timerManager, persistent
    <3>3. QED
      BY <3>1, <3>2 DEF Typed
  <2>3. TimerOfLiving'
    BY <2>1 DEF Inv, workerVars, timerManager, TimerOfLiving, TimersOK, Locked
  <2>4. \A u \in Task : TaskOf(u)'
    BY <1>0, <2>1 DEF Inv, downloaderVars, workerVars, TaskOf, ThreadOf, JobOf, RecordOf,
                      BarrierOf, Starting
  <2>5. QED
    BY <2>2, <2>3, <2>4 DEF Inv
<1>3. QED
  BY <1>1, <1>2

----------------------------------------------------------------------------
(* All steps.                                                              *)

\* Every step keeps the invariant.
LEMMA NextInv == Inv /\ [Next]_vars => Inv'
<1> SUFFICES ASSUME Inv, [Next]_vars PROVE Inv'
  OBVIOUS
<1>1. CASE Crash
  BY <1>1, DiesInv DEF Crash, persistent
<1>2. CASE Manager
  <2>1. CASE StartUp
    BY <2>1, StartUpInv
  <2>2. CASE SaveResumeInfo \/ UnInit
    BY <2>2, SaveInv DEF SaveResumeInfo, UnInit
  <2>3. CASE Truncate \/ Write
    BY <2>3, TruncateInv, WriteInv
  <2>4. CASE Removed \/ Closed
    BY <2>4, RemovedInv, ClosedInv
  <2>5. CASE Exit
    BY <2>5, DiesInv DEF Exit, persistent
  <2>6. CASE \E t \in Task : ExitTask(t)
    BY <2>6, StoppedForInv DEF ExitTask
  <2>7. QED
    BY <1>2, <2>1, <2>2, <2>3, <2>4, <2>5, <2>6 DEF Manager
<1>3. CASE Joined \/ UIAcquires \/ TimerThread
  BY <1>3, JoinedInv, UIAcquiresInv, TimerThreadInv
<1>4. ASSUME NEW t \in Task, User(t) \/ Progress(t) \/ Outside(t) \/ OnTimer(t) \/ NotYet(t)
      PROVE  Inv'
  <2>1. CASE User(t)
    <3>1. CASE AddTask(t)
      BY <3>1, AddTaskInv
    <3>2. CASE RemoveTask(t) \/ Stop(t)
      BY <3>2, StoppedForInv, StopForInv DEF RemoveTask, Stop, Idle
    <3>3. CASE StartDownload(t) \/ StartHashChecking(t)
      BY <3>3, StartWorkerInv DEF StartDownload, StartHashChecking, DS
    <3>4. QED
      BY <2>1, <3>1, <3>2, <3>3 DEF User
  <2>2. CASE Progress(t)
    BY <2>2, RegisterInv, InitialisedInv, WorkerAcquiresInv, ContextInv, TestStateInv,
       UnwoundInv, TickInv, FlushPieceInv, CatchInv, RemoveRecordInv, HashPieceInv,
       HashDoneInv
       DEF Progress
  <2>3. CASE Outside(t)
    BY <2>3, ThrowInv, PieceCompletedInv, EvictInv DEF Outside
  <2>4. CASE OnTimer(t) \/ NotYet(t)
    BY <2>4, OnTimerInv, NotYetInv
  <2>5. QED
    BY <1>4, <2>1, <2>2, <2>3, <2>4
<1>5. CASE UNCHANGED vars
  <2>1. Typed'
    <3>1. UITyped' /\ MapsTyped' /\ StateTyped' /\ BarrierTyped'
      BY <1>5 DEF Inv, Typed, vars, UITyped, MapsTyped, StateTyped, BarrierTyped,
                  downloaderVars, workerVars, timerManager, persistent
    <3>2. PcTyped' /\ PiecesTyped' /\ WorkerTyped' /\ SetsTyped' /\ TimersOK'
      BY <1>5 DEF Inv, Typed, vars, PcTyped, PiecesTyped, WorkerTyped, SetsTyped, TimersOK,
                  Locked, downloaderVars, workerVars, timerManager, persistent
    <3>3. QED
      BY <3>1, <3>2 DEF Typed
  <2>2. TimerOfLiving'
    BY <1>5 DEF Inv, vars, workerVars, timerManager, TimerOfLiving, TimersOK, Locked
  <2>3. \A u \in Task : TaskOf(u)'
    BY <1>5 DEF Inv, vars, downloaderVars, workerVars, TaskOf, ThreadOf, JobOf, RecordOf,
                BarrierOf, Starting
  <2>4. QED
    BY <2>1, <2>2, <2>3 DEF Inv
<1>6. QED
  BY <1>1, <1>2, <1>3, <1>4, <1>5 DEF Next

\* The threads of a task agree: while a task counts as running its worker is
\* registered and through the barrier, a stopped one has no thread and no
\* record, and its timer is in the list exactly as long as its TimerFunc lives
\* (Downloader, Barrier, TimerManager).
THEOREM ThreadsAgreeHolds == Spec => []ThreadsAgree
<1>1. Spec => []Inv
  BY InitInv, NextInv, PTL DEF Spec
<1>2. QED
  BY <1>1, InvImplies, PTL

----------------------------------------------------------------------------
(***************************************************************************)
(* What the user sees is what the next start will find.                    *)
(***************************************************************************)

\* UnInit closes the tasks in the list one after the other, the map stays.
Closing == ui.pc \in {"exit", "close"} \/ (ui.pc = "join" /\ ui.next = "close")

Listed == ~Closing => DOMAIN task_map = downloaders /\ downloaders \subseteq copies

LEMMA InitListed == Init => Listed
  BY DEF Init, Empty, Listed

LEMMA ManagerListed ==
    ASSUME Inv, Listed, Manager \/ Joined \/ UIAcquires
    PROVE  Listed'
<1>0. ui \in UIState
  BY DEF Inv, Typed, UITyped
<1>1. CASE StartUp
  BY <1>1 DEF StartUp, Restrict, Idle, persistent, Listed, Closing
<1>2. CASE SaveResumeInfo \/ UnInit
  BY <1>2 DEF SaveResumeInfo, UnInit, Save, Idle, persistent, Listed, Closing
<1>3. CASE Truncate
  BY <1>0, <1>3 DEF Truncate, UIState, Off, Idle, Listed, Closing
<1>4. CASE Write
  BY <1>0, <1>4 DEF Write, UIState, Off, Idle, Listed, Closing
<1>5. CASE Dies /\ copies' \subseteq copies
  BY <1>5 DEF Dies, Off, Empty, Listed, Closing
<1>6. CASE Removed /\ ~Dies
  BY <1>6 DEF Removed, Restrict, Listed, Closing
<1>7. CASE Closed /\ ~Dies
  <2>1. ui' = [pc |-> "exit"]
    BY <1>7 DEF Closed
  <2>2. QED
    BY <2>1 DEF Listed, Closing
<1>8. ASSUME NEW t \in Task, ExitTask(t)
      PROVE  Listed'
  <2>1. CASE Dies /\ UNCHANGED persistent
    BY <1>5, <2>1 DEF persistent
  <2>2. CASE ui' = [pc |-> "join", task |-> t, next |-> "close"]
    BY <2>2 DEF Listed, Closing
  <2>3. CASE ui' = [pc |-> "close", task |-> t]
    BY <2>3 DEF Listed, Closing
  <2>4. QED
    BY <1>8, <2>1, <2>2, <2>3 DEF ExitTask, StoppedFor, StopFor
<1>9. CASE Joined
  <2>1. ui.pc = "join" /\ ui.next \in {"idle", "remove", "close"}
    BY <1>0, <1>9 DEF Joined, UIState, Off, Idle
  <2>2. CASE ui.next = "close"
    <3>1. ui' = [pc |-> "close", task |-> ui.task]
      BY <1>9, <2>2 DEF Joined
    <3>2. QED
      BY <3>1 DEF Listed, Closing
  <2>3. CASE ui.next # "close"
    BY <1>9, <2>1, <2>3 DEF Joined, persistent, Listed, Closing
  <2>4. QED
    BY <2>2, <2>3
<1>10. CASE UIAcquires
  BY <1>0, <1>10 DEF UIAcquires, UIState, Off, Idle, persistent, Listed, Closing
<1>11. QED
  BY <1>1, <1>2, <1>3, <1>4, <1>5, <1>6, <1>7, <1>8, <1>9, <1>10
     DEF Manager, Removed, Closed, Exit, persistent

LEMMA UserListed ==
    ASSUME Listed, NEW t \in Task, User(t)
    PROVE  Listed'
<1>1. CASE AddTask(t)
  BY <1>1 DEF AddTask, Idle, Listed, Closing
<1>2. CASE StartDownload(t) \/ StartHashChecking(t)
  BY <1>2 DEF StartDownload, StartHashChecking, StartWorker, Idle, persistent, Listed,
              Closing
<1>3. ASSUME NEW next \in {"idle", "remove"}, ui = Idle, StoppedFor(t, next) \/ StopFor(t, next)
      PROVE  Listed'
  <2>1. CASE Dies /\ UNCHANGED persistent
    BY <2>1 DEF Dies, Off, Empty, Listed, Closing
  <2>2. CASE ~(Dies /\ UNCHANGED persistent)
    BY <1>3, <2>2 DEF StoppedFor, StopFor, Idle, persistent, Listed, Closing
  <2>3. QED
    BY <2>1, <2>2
<1>4. QED
  BY <1>1, <1>2, <1>3 DEF User, RemoveTask, Stop

LEMMA NextListed == Inv /\ Listed /\ [Next]_vars => Listed'
<1> SUFFICES ASSUME Inv, Listed, [Next]_vars PROVE Listed'
  OBVIOUS
<1>1. CASE Crash
  BY <1>1 DEF Crash, Dies, Off, Empty, Listed, Closing
<1>2. CASE UNCHANGED <<ui, downloaders, task_map, copies>>
  BY <1>2 DEF Listed, Closing
<1>3. ASSUME NEW t \in Task, Progress(t) \/ Outside(t) \/ OnTimer(t) \/ NotYet(t)
      PROVE  UNCHANGED <<ui, downloaders, task_map, copies>>
  <2>1. CASE Progress(t)
    BY <2>1 DEF Progress, Register, Initialised, WorkerAcquires, Context, TestState,
                Unwound, Tick, FlushPiece, Catch, CatchAt, RemoveRecord, HashPiece,
                HashDone, UIUnchanged, persistent
  <2>2. CASE Outside(t)
    BY <2>2 DEF Outside, Throw, PieceCompleted, Evict, UIUnchanged, persistent
  <2>3. CASE OnTimer(t) \/ NotYet(t)
    BY <2>3 DEF OnTimer, NotYet, persistent
  <2>4. QED
    BY <1>3, <2>1, <2>2, <2>3
<1>4. CASE TimerThread \/ UNCHANGED vars
  BY <1>2, <1>4 DEF TimerThread, vars, persistent
<1>5. QED
  BY <1>1, <1>2, <1>3, <1>4, ManagerListed, UserListed DEF Next

\* Whenever the window is idle each task in the list has its record and the copy
\* of its torrent, and there is no other record (DownloaderManager).
THEOREM ListedIsRecordedHolds == Spec => []ListedIsRecorded
<1>1. Inv /\ Listed /\ [Next]_vars => (Inv /\ Listed)'
  BY NextInv, NextListed
<1>2. Listed => ListedIsRecorded
  BY DEF Idle, Listed, Closing, ListedIsRecorded
<1>3. QED
  BY <1>1, <1>2, InitInv, InitListed, PTL DEF Spec

----------------------------------------------------------------------------
(***************************************************************************)
(* What the program believes it has.                                       *)
(***************************************************************************)

\* A download worker believes what the Downloader believed, and more; all of
\* it is on the disk, or of an outdated record that a start believed, but for
\* the moment between a piece's hash and its flush.
Loading(t) ==
    job[t] = "download" /\ pc[t] \in {"registered", "ready", "ready_wait", "context",
                                      "test", "message"}

\* The record of a task in the list was true when its worker began, so no
\* worker overwrites on the disk what a record claims, unless the record is
\* older than the task.
DataOf(t) ==
    /\ bitfield[t] \subseteq disk[t] \cup believed[t]
    /\ t \in DOMAIN task_map => task_map[t] \subseteq bitfield[t] \cup believed[t]
    /\ t \in DOMAIN resume_file =>
           resume_file[t] \subseteq disk[t] \cup believed[t] \cup outdated[t]
    /\ t \in DOMAIN resume_file /\ t \in downloaders =>
           resume_file[t] \subseteq bitfield[t] \cup believed[t] \cup outdated[t]
    /\ Loading(t) => pieces[t] \subseteq disk[t] \cup believed[t]
    /\ Loading(t) \/ pc[t] = "flush" => bitfield[t] \subseteq pieces[t]

Data == \A t \in Task : DataOf(t)

LEMMA InitData == Init => Data
  BY DEF Init, All, Empty, Data, DataOf, Loading

LEMMA DiesData ==
    ASSUME Data, Dies, UNCHANGED <<resume_file, disk, outdated, believed>>
    PROVE  Data'
  BY DEF Data, Dies, All, Empty, DataOf, Loading

\* What DownloaderManager does: only a save writes the file, from a map that
\* was brought up to date.
LEMMA ManagerData ==
    ASSUME Inv, Listed, Data, Manager \/ (\E t \in Task : User(t))
    PROVE  Data'
<1>1. CASE StartUp
  <2>1. \A t \in Task : pc[t] = "none"
    BY <1>1 DEF Inv, Typed, UITyped, StartUp, Off, TaskOf, ThreadOf
  <2>2. QED
    BY <1>1, <2>1 DEF StartUp, Restrict, persistent, Inv, Typed, SetsTyped, Data, DataOf,
                      Loading
<1>2. CASE SaveResumeInfo \/ UnInit
  BY <1>2 DEF SaveResumeInfo, UnInit, Save, downloaderVars, workerVars, persistent, Data,
              DataOf, Loading
<1>3. CASE Truncate
  BY <1>3 DEF Truncate, Empty, downloaderVars, workerVars, Data, DataOf, Loading
<1>4. CASE Write
  BY <1>4 DEF Write, Empty, downloaderVars, workerVars, Data, DataOf, Loading
<1>5. ASSUME NEW t \in Task, NEW next, StoppedFor(t, next)
      PROVE  Data'
  <2>1. CASE Dies /\ UNCHANGED persistent
    BY <2>1, DiesData DEF persistent
  <2>2. CASE UNCHANGED <<downloaders, task_map, bitfield, workerVars, persistent>>
    BY <2>2 DEF workerVars, persistent, Data, DataOf, Loading
  <2>3. QED
    BY <1>5, <2>1, <2>2 DEF StoppedFor, StopFor, downloaderVars
<1>6. CASE Removed
  <2>1. CASE Dies
    BY <1>6, <2>1, DiesData DEF Removed
  <2>2. CASE ~Dies
    <3>1. /\ ui.pc = "remove" /\ ui.task \in Task /\ m_state[ui.task] = "stop"
          /\ downloaders' = downloaders \ {ui.task}
          /\ task_map' = Restrict(task_map, DOMAIN task_map \ {ui.task})
          /\ bitfield' = [bitfield EXCEPT ![ui.task] = {}]
          /\ UNCHANGED <<workerVars, resume_file, disk, outdated, believed>>
      BY <1>6, <2>2 DEF Removed, Inv, Typed, UITyped, UIState, Off, Idle
    <3>2. pc[ui.task] = "none"
      BY <3>1 DEF Inv, TaskOf, ThreadOf
    <3>3. QED
      BY <3>1, <3>2 DEF Inv, Typed, PiecesTyped, Restrict, workerVars, Data, DataOf, Loading
  <2>3. QED
    BY <2>1, <2>2
<1>7. CASE Closed
  <2>1. CASE Dies
    BY <1>7, <2>1, DiesData DEF Closed, persistent
  <2>2. CASE ~Dies
    BY <1>7, <2>2 DEF Closed, downloaderVars, workerVars, persistent, Data, DataOf, Loading
  <2>3. QED
    BY <2>1, <2>2
<1>8. CASE Exit
  BY <1>8, DiesData DEF Exit, persistent
<1>9. ASSUME NEW t \in Task, AddTask(t)
      PROVE  Data'
  <2>1. t \notin downloaders
    BY <1>9 DEF AddTask, Listed, Closing, Idle
  <2>2. pc[t] = "none"
    BY <2>1 DEF Inv, TaskOf, ThreadOf
  <2>3. QED
    BY <1>9, <2>1, <2>2 DEF AddTask, workerVars, Inv, Typed, PiecesTyped, Data, DataOf,
                            Loading
<1>10. ASSUME NEW t \in Task, StartDownload(t) \/ StartHashChecking(t)
       PROVE  Data'
  BY <1>10 DEF StartDownload, StartHashChecking, StartWorker, persistent, Inv, Typed,
               PcTyped, WorkerTyped, Data, DataOf, Loading
<1>11. QED
  BY <1>1, <1>2, <1>3, <1>4, <1>5, <1>6, <1>7, <1>8, <1>9, <1>10
     DEF Manager, User, ExitTask, RemoveTask, Stop, StoppedFor

\* What a worker does: it only overwrites pieces it does not have.
LEMMA WorkerData ==
    ASSUME Inv, Data, NEW t \in Task, Progress(t) \/ Outside(t)
    PROVE  Data'
<1>1. /\ pc \in [Task -> {"none"} \cup Before \cup Within \cup Beyond]
      /\ bitfield \in [Task -> SUBSET Piece] /\ pieces \in [Task -> SUBSET Piece]
      /\ disk \in [Task -> SUBSET Piece]
  BY DEF Inv, Typed, PcTyped, PiecesTyped
<1>2. /\ pc[t] \in {"context", "test", "message", "flush"} => job[t] = "download"
      /\ pc[t] = "hash" => job[t] = "hash"
      /\ pc[t] # "none" => t \in downloaders
  BY DEF Inv, TaskOf, ThreadOf, JobOf
<1>3. CASE Register(t)
  BY <1>1, <1>2, <1>3 DEF Register, At, UIUnchanged, downloaderVars, persistent, Data,
                          DataOf, Loading
<1>4. CASE Initialised(t)
  BY <1>1, <1>2, <1>4 DEF Initialised, At, downloaderVars, persistent, Data, DataOf, Loading
<1>5. CASE WorkerAcquires(t)
  BY <1>1, <1>2, <1>5 DEF WorkerAcquires, At, After, UIUnchanged, persistent, Data, DataOf,
                          Loading
<1>6. CASE Context(t) \/ TestState(t)
  BY <1>1, <1>2, <1>6 DEF Context, TestState, At, UIUnchanged, downloaderVars, persistent,
                          Data, DataOf, Loading
<1>7. CASE Unwound(t) \/ RemoveRecord(t)
  BY <1>1, <1>2, <1>7 DEF Unwound, RemoveRecord, At, UIUnchanged, downloaderVars,
                          persistent, Data, DataOf, Loading
<1>8. CASE Tick(t)
  BY <1>1, <1>2, <1>8 DEF Tick, At, UIUnchanged, persistent, Data, DataOf, Loading
<1>9. CASE FlushPiece(t)
  BY <1>1, <1>2, <1>9 DEF FlushPiece, At, UIUnchanged, downloaderVars, Data, DataOf, Loading
<1>10. CASE Catch(t)
  BY <1>1, <1>2, <1>10 DEF Catch, CatchAt, At, After, UIUnchanged, persistent, Data, DataOf,
                           Loading
<1>11. CASE HashPiece(t)
  BY <1>1, <1>2, <1>11 DEF HashPiece, At, UIUnchanged, persistent, Data, DataOf, Loading
<1>12. CASE HashDone(t) \/ Throw(t)
  BY <1>1, <1>2, <1>12 DEF HashDone, Throw, At, UIUnchanged, downloaderVars, persistent,
                           Data, DataOf, Loading
<1>13. ASSUME NEW p \in Piece, PieceCompleted(t, p)
       PROVE  Data'
  BY <1>1, <1>2, <1>13 DEF PieceCompleted, At, UIUnchanged, downloaderVars, persistent,
                           Data, DataOf, Loading
<1>14. ASSUME NEW p \in Piece, Evict(t, p)
       PROVE  Data'
  BY <1>1, <1>2, <1>14 DEF Evict, At, UIUnchanged, downloaderVars, Data, DataOf, Loading
<1>15. QED
  BY <1>3, <1>4, <1>5, <1>6, <1>7, <1>8, <1>9, <1>10, <1>11, <1>12, <1>13, <1>14
     DEF Progress, Outside

LEMMA NextData == Inv /\ Listed /\ Data /\ [Next]_vars => Data'
<1> SUFFICES ASSUME Inv, Listed, Data, [Next]_vars PROVE Data'
  OBVIOUS
<1>1. CASE Crash
  BY <1>1, DiesData DEF Crash, persistent
<1>2. CASE Joined
  <2>1. ui.task \in Task
    BY <1>2 DEF Joined, Inv, Typed, UITyped, UIState, Off, Idle
  <2>2. QED
    BY <1>2, <2>1 DEF Joined, persistent, Inv, Typed, PcTyped, Data, DataOf, Loading
<1>3. CASE UIAcquires
  BY <1>3 DEF UIAcquires, workerVars, persistent, Data, DataOf, Loading
<1>4. CASE TimerThread \/ \E t \in Task : OnTimer(t) \/ NotYet(t)
  BY <1>4 DEF TimerThread, OnTimer, NotYet, downloaderVars, persistent, Data, DataOf,
              Loading
<1>5. CASE UNCHANGED vars
  BY <1>5 DEF vars, downloaderVars, workerVars, persistent, Data, DataOf, Loading
<1>6. QED
  BY <1>1, <1>2, <1>3, <1>4, <1>5, ManagerData, WorkerData DEF Next

\* What the program believes it has of a task (Downloader::m_bitfield, the map
\* and the resume file) is on the disk, whatever is stopped, fails or crashes,
\* except pieces of a record that was there before the torrent was added once
\* more and that a later start took for its own (DownloaderManager.cpp 334,
\* 405-414).
THEOREM OwnedIsOnDiskHolds == Spec => []OwnedIsOnDisk
<1>1. Inv /\ Data => OwnedIsOnDisk
  BY DEF Data, DataOf, OwnedIsOnDisk
<1>2. Inv /\ Listed /\ Data /\ [Next]_vars => (Inv /\ Listed /\ Data)'
  BY NextInv, NextListed, NextData
<1>3. QED
  BY <1>1, <1>2, InitInv, InitListed, InitData, PTL DEF Spec
=============================================================================
