---------------------------- MODULE SelectorProofs ----------------------------
(***************************************************************************)
(* The selector calls only handlers that are registered and alive, deletes *)
(* each when its last reference goes, calls for input only who has some or *)
(* whose handle was closed and given away, and is in time: for any number  *)
(* of handlers and handles and any interval.                               *)
(***************************************************************************)
EXTENDS Selector, FiniteSetTheorems, TLAPS

(***************************************************************************)
(* The inductive invariant.                                                *)
(***************************************************************************)

HandlerRecord ==
    [handle : Handle \cup {NoHandle}, kind : Kind, mask : SUBSET Mask, count : Nat,
     owner : {"none", "new", "registered", "removed"},
     input : {"none", "some", "end"}, output : BOOLEAN]

\* The types of what the selector thread has, and of the handlers.
LoopTyped ==
    /\ pc \in {"none", "begin", "loop", "select", "timer", "dispatch", "ended"}
    /\ rd_set \subseteq Handle /\ wd_set \subseteq Handle
    /\ service \in {"none", "started", "stopping"}
HandlersTyped ==
    /\ m_map \in [Handle -> Handler \cup {NoHandler}]
    /\ handler \in [Handler -> HandlerRecord]

\* The map knows a handler under the handle of its socket, which no other has.
Mapped(h) == handler[h].handle \in Handle /\ m_map[handler[h].handle] = h

HandlesDiffer ==
    \A g, h \in Handler : handler[g].handle = handler[h].handle =>
        g = h \/ handler[g].handle = NoHandle
MapExact == \A x \in Registered : handler[m_map[x]].handle = x

\* The references to a handler: of the map, and of who made it.
CountOf(h) ==
    /\ handler[h].count = (IF Mapped(h) THEN 1 ELSE 0)
                          + (IF handler[h].owner = "none" THEN 0 ELSE 1)
    /\ handler[h].count > 0 <=> handler[h].handle # NoHandle
    /\ handler[h].owner = "removed" => ~Mapped(h)

Core == HandlersTyped /\ HandlesDiffer /\ MapExact /\ \A h \in Handler : CountOf(h)

\* Only a service that runs has handlers that someone uses.
Service ==
    /\ service # "started" => \A h \in Handler : handler[h].owner = "none"
    /\ service = "none" => Registered = {} /\ pc = "none"

\* A handle to be dispatched has input, or was closed since.
Input ==
    pc \in {"timer", "dispatch"} => \A x \in rd_set :
        x \in recycled \/ \E h \in Handler : handler[h].handle = x /\ handler[h].input # "none"

\* What is left is no more than what has not elapsed.
Time ==
    /\ time_left \in 1..Interval /\ elapsed \in 0..Interval + 1
    /\ failed \/ elapsed <= Interval
    /\ failed \/ pc = "timer" \/ elapsed + time_left <= Interval

Inv == LoopTyped /\ Core /\ Service /\ Input /\ Time

----------------------------------------------------------------------------
(* The invariant says what the runs check.                                  *)

LEMMA InvHandlersOwned == ASSUME Inv PROVE HandlersOwned
<1>1. TypeOK
  BY DEF Inv, LoopTyped, Core, HandlersTyped, HandlerRecord, CountOf, Time, TypeOK
<1>2. CallsTheLiving
  BY DEF Inv, Core, HandlersTyped, MapExact, CountOf, Mapped, Registered, CallsTheLiving
<1>3. ASSUME NEW h \in Handler
      PROVE  Cardinality({x \in Handle : m_map[x] = h}) = IF Mapped(h) THEN 1 ELSE 0
  <2>1. CASE Mapped(h)
    <3>1. {x \in Handle : m_map[x] = h} = {handler[h].handle}
      BY <2>1, SelectorAssumption DEF Inv, Core, MapExact, Registered, Mapped
    <3>2. QED
      BY <2>1, <3>1, FS_Singleton
  <2>2. CASE ~Mapped(h)
    <3>1. {x \in Handle : m_map[x] = h} = {}
      BY <2>2, SelectorAssumption DEF Inv, Core, MapExact, Registered, Mapped
    <3>2. QED
      BY <2>2, <3>1, FS_EmptySet
  <2>3. QED
    BY <2>1, <2>2
<1>4. service = "none" => Open = {}
  <2>1. ASSUME service = "none", NEW h \in Handler
        PROVE  handler[h].handle = NoHandle
    BY <2>1, SelectorAssumption DEF Inv, Core, HandlersTyped, HandlerRecord, Service,
                                    Registered, CountOf, Mapped
  <2>2. QED
    BY <2>1 DEF Open
<1>5. CountsExact
  BY <1>3, <1>4 DEF Inv, Core, CountOf, CountsExact
<1>6. QED
  BY <1>1, <1>2, <1>5 DEF HandlersOwned

LEMMA InvInputIsReal == ASSUME Inv PROVE InputIsReal
<1> SUFFICES ASSUME pc = "dispatch", NEW x \in rd_set, HasMask(x, "INPUT"), x \notin recycled
             PROVE  handler[m_map[x]].input # "none"
  BY DEF InputIsReal
<1>1. PICK h \in Handler : handler[h].handle = x /\ handler[h].input # "none"
  BY DEF Inv, Input
<1>2. x \in Handle /\ m_map[x] \in Handler /\ handler[m_map[x]].handle = x
  BY DEF Inv, LoopTyped, Core, HandlersTyped, MapExact, HasMask, Registered
<1>3. QED
  BY <1>1, <1>2, SelectorAssumption DEF Inv, Core, HandlesDiffer

LEMMA InitInv == Init => Inv
  BY SelectorAssumption DEF Init, Inv, LoopTyped, Core, HandlersTyped, HandlesDiffer,
                            MapExact, CountOf, Mapped, Service, Input, Time, Registered,
                            Deleted, HandlerRecord, Kind, Mask

----------------------------------------------------------------------------
(* Who lets go of a handler.                                                *)

\* handlers differ from those of the state only in masks, input and output.
Alike(handlers) ==
    /\ handlers \in [Handler -> HandlerRecord]
    /\ \A h \in Handler : /\ handlers[h].handle = handler[h].handle
                          /\ handlers[h].count = handler[h].count
                          /\ handlers[h].owner = handler[h].owner

LEMMA ReleasedIs ==
    ASSUME NEW S, NEW handlers \in [Handler -> HandlerRecord],
           \A h \in Handler : h \in S => handlers[h].count > 0
    PROVE  /\ Released(S, handlers) \in [Handler -> HandlerRecord]
           /\ \A h \in Handler :
                 /\ h \notin S => Released(S, handlers)[h] = handlers[h]
                 /\ h \in S /\ handlers[h].count = 1 => Released(S, handlers)[h] = Deleted
                 /\ h \in S /\ handlers[h].count # 1 =>
                       Released(S, handlers)[h] = [handlers[h] EXCEPT !.count = @ - 1]
<1>1. Deleted \in HandlerRecord
  BY DEF Deleted, HandlerRecord, Kind, Mask
<1>2. ASSUME NEW h \in Handler, h \in S
      PROVE  [handlers[h] EXCEPT !.count = @ - 1] \in HandlerRecord
  BY <1>2 DEF HandlerRecord
<1>3. QED
  BY <1>1, <1>2 DEF Released

LEMMA ReleasedOne ==
    ASSUME NEW h \in Handler, NEW handlers \in [Handler -> HandlerRecord], handlers[h].count > 0,
           NEW left, left = Released({h}, handlers)
    PROVE  /\ left \in [Handler -> HandlerRecord]
           /\ \A g \in Handler : g # h => left[g] = handlers[g]
           /\ handlers[h].count = 1 => left[h] = Deleted
           /\ handlers[h].count # 1 =>
                 /\ left[h].count = handlers[h].count - 1
                 /\ left[h].owner = handlers[h].owner
                 /\ left[h].handle = handlers[h].handle
                 /\ left[h].input = handlers[h].input
<1>1. Deleted \in HandlerRecord
  BY DEF Deleted, HandlerRecord, Kind, Mask
<1>2. handlers[h] \in HandlerRecord /\ [handlers[h] EXCEPT !.count = @ - 1] \in HandlerRecord
  BY DEF HandlerRecord
<1>3. /\ left \in [Handler -> HandlerRecord]
      /\ \A g \in Handler : g # h => left[g] = handlers[g]
      /\ handlers[h].count = 1 => left[h] = Deleted
      /\ handlers[h].count # 1 => left[h] = [handlers[h] EXCEPT !.count = @ - 1]
  BY <1>1, <1>2 DEF Released
<1>4. QED
  BY <1>2, <1>3 DEF HandlerRecord

\* A step that only touches masks, input and output.
LEMMA AlikeCore ==
    ASSUME Core, Alike(handler'), UNCHANGED m_map
    PROVE  Core'
  BY DEF Core, Alike, HandlersTyped, HandlesDiffer, MapExact, CountOf, Mapped, Registered

\* Handlers that the map refers to leave it.
LEMMA RemoveTheseCore ==
    ASSUME Core, NEW S, S \subseteq {m_map[x] : x \in Registered}, NEW handlers,
           Alike(handlers), RemoveThese(S, handlers)
    PROVE  Core'
<1>1. \A h \in S : h \in Handler /\ Mapped(h)
  BY SelectorAssumption DEF Core, HandlersTyped, MapExact, Mapped, Registered
<1>2. \A h \in Handler : h \in S => handlers[h].count > 0
  BY <1>1 DEF Core, HandlersTyped, HandlerRecord, Alike, CountOf
<1>3. /\ handler' \in [Handler -> HandlerRecord]
      /\ \A h \in Handler :
            /\ h \notin S => handler'[h] = handlers[h]
            /\ h \in S /\ handlers[h].count = 1 => handler'[h] = Deleted
            /\ h \in S /\ handlers[h].count # 1 =>
                  handler'[h] = [handlers[h] EXCEPT !.count = @ - 1]
  BY <1>2, ReleasedIs DEF RemoveThese, Alike
<1>4. /\ m_map' \in [Handle -> Handler \cup {NoHandler}]
      /\ \A x \in Handle : m_map'[x] = IF m_map[x] \in S THEN NoHandler ELSE m_map[x]
  BY DEF RemoveThese, Core, HandlersTyped
<1>5. \A h \in Handler : \/ handler'[h].handle = handler[h].handle
                         \/ handler'[h].handle = NoHandle /\ h \in S
  BY <1>3 DEF Alike, Deleted, HandlerRecord
<1>6. HandlersTyped' /\ HandlesDiffer'
  BY <1>3, <1>4, <1>5 DEF Core, HandlersTyped, HandlesDiffer
<1>7. MapExact'
  BY <1>4, <1>5, SelectorAssumption DEF Core, MapExact, HandlersTyped, Registered
<1>8. ASSUME NEW h \in Handler
      PROVE  CountOf(h)'
  <2>1. CASE h \in S
    <3>1. ~Mapped(h)'
      BY <1>1, <1>4, <1>5, <2>1, SelectorAssumption DEF Mapped
    <3>2. QED
      BY <1>1, <1>3, <2>1, <3>1 DEF Core, HandlersTyped, HandlerRecord, Alike, CountOf,
                                    Deleted
  <2>2. CASE h \notin S
    <3>1. handler'[h] = handlers[h] /\ (Mapped(h)' <=> Mapped(h))
      BY <1>3, <1>4, <2>2, SelectorAssumption DEF Alike, Mapped
    <3>2. QED
      BY <3>1 DEF Core, Alike, CountOf
  <2>3. QED
    BY <2>1, <2>2
<1>9. QED
  BY <1>6, <1>7, <1>8 DEF Core

\* What of the invariant a step keeps that handlers and map do not disturb.
LEMMA InputStays ==
    ASSUME Input, pc' = pc \/ pc' \notin {"timer", "dispatch"},
           UNCHANGED <<rd_set, recycled>>,
           \A h \in Handler : handler[h].handle \in rd_set /\ handler[h].input # "none" =>
               handler'[h].handle = handler[h].handle /\ handler'[h].input # "none"
    PROVE  Input'
<1> SUFFICES ASSUME pc' \in {"timer", "dispatch"}, NEW x \in rd_set, x \notin recycled
             PROVE  \E h \in Handler : handler'[h].handle = x /\ handler'[h].input # "none"
  BY DEF Input
<1>1. PICK h \in Handler : handler[h].handle = x /\ handler[h].input # "none"
  BY DEF Input
<1>2. QED
  BY <1>1

\* A handle of rd_set that is closed is in recycled afterwards.
LEMMA InputRecycled ==
    ASSUME LoopTyped, Core, Input, pc \in {"timer", "dispatch"} \/ pc' \notin {"timer", "dispatch"},
           rd_set' \subseteq rd_set, Recycle,
           \A h \in Handler :
               /\ handler'[h].handle \in {handler[h].handle, NoHandle}
               /\ handler[h].handle \in rd_set' /\ handler[h].input # "none" =>
                     handler'[h].handle = NoHandle \/ handler'[h].input # "none"
    PROVE  Input'
<1> SUFFICES ASSUME pc' \in {"timer", "dispatch"}, NEW x \in rd_set', x \notin recycled'
             PROVE  \E h \in Handler : handler'[h].handle = x /\ handler'[h].input # "none"
  BY DEF Input
<1>1. x \in Handle /\ x # NoHandle
  BY SelectorAssumption DEF LoopTyped
<1>2. x \notin recycled /\ x \notin Open \ {handler'[h].handle : h \in Handler}
  BY DEF Recycle
<1>3. PICK h \in Handler : handler[h].handle = x /\ handler[h].input # "none"
  BY <1>2 DEF Input
<1>4. x \in Open
  BY <1>1, <1>3 DEF Open
<1>5. PICK g \in Handler : handler'[g].handle = x
  BY <1>2, <1>4
<1>6. g = h
  BY <1>1, <1>3, <1>5 DEF Core, HandlesDiffer
<1>7. QED
  BY <1>1, <1>3, <1>5, <1>6

----------------------------------------------------------------------------
(* The steps of the other threads.                                          *)

LEMMA StartInv == ASSUME Inv, Start PROVE Inv'
<1>1. Core'
  BY DEF Inv, Start, Core, HandlersTyped, HandlesDiffer, MapExact, CountOf, Mapped,
         Registered
<1>2. QED
  BY <1>1 DEF Inv, Start, LoopTyped, Service, Input, Time, loop, Registered

LEMMA NewHandlerInv ==
    ASSUME Inv, NEW x \in Handle, NEW kind \in Kind, NewHandler(x, kind)
    PROVE  Inv'
<1> DEFINE new == [Deleted EXCEPT !.handle = x, !.kind = kind, !.mask = {"INPUT", "TIMER"},
                                  !.count = 1, !.owner = "new"]
<1>1. PICK h \in Handler : handler[h].count = 0 /\ handler' = [handler EXCEPT ![h] = new]
  <2>1. (CHOOSE g \in Free : TRUE) \in Free
    BY DEF NewHandler
  <2>2. handler' = [handler EXCEPT ![CHOOSE g \in Free : TRUE] = new]
    BY Zenon DEF NewHandler
  <2>3. QED
    BY <2>1, <2>2 DEF Free
<1>2. /\ new \in HandlerRecord
      /\ new.handle = x /\ new.count = 1 /\ new.owner = "new"
  BY DEF Deleted, HandlerRecord, Mask
<1> HIDE DEF new
<1>3. handler[h].handle = NoHandle /\ ~Mapped(h) /\ handler[h].owner = "none"
  BY <1>1, SelectorAssumption DEF Inv, Core, HandlersTyped, HandlerRecord, CountOf, Mapped
<1>4. \A g \in Handler : handler[g].handle # x
  BY SelectorAssumption DEF NewHandler, Open
<1>5. m_map[x] = NoHandler
  BY <1>4 DEF Inv, Core, HandlersTyped, MapExact, Registered
<1>6. HandlersTyped'
  BY <1>1, <1>2 DEF Inv, Core, HandlersTyped, NewHandler
<1>7. HandlesDiffer'
  BY <1>1, <1>2, <1>4 DEF Inv, Core, HandlersTyped, HandlesDiffer
<1>8. MapExact'
  <2>1. \A y \in Registered : y \in Handle /\ m_map[y] \in Handler /\ m_map[y] # h
    BY <1>3 DEF Inv, Core, HandlersTyped, MapExact, Registered, Mapped
  <2>2. QED
    BY <1>1, <2>1 DEF Inv, Core, HandlersTyped, MapExact, Registered, NewHandler
<1>9. ASSUME NEW g \in Handler
      PROVE  CountOf(g)'
  BY <1>1, <1>2, <1>3, <1>5, SelectorAssumption DEF Inv, Core, HandlersTyped, CountOf,
                                                    Mapped, NewHandler
<1>10. Service'
  BY DEF Inv, NewHandler, Service
<1>11. Input'
  <2>1. NoHandle \notin rd_set
    BY SelectorAssumption DEF Inv, LoopTyped
  <2>2. QED
    BY <1>1, <1>3, <2>1, InputStays DEF Inv, Core, HandlersTyped, NewHandler, loop
<1>12. QED
  BY <1>6, <1>7, <1>8, <1>9, <1>10, <1>11 DEF Inv, Core, LoopTyped, Time, NewHandler, loop

LEMMA RegisterHandlerInv == ASSUME Inv, NEW h \in Handler, RegisterHandler(h) PROVE Inv'
<1>1. /\ handler[h].handle \in Handle /\ m_map[handler[h].handle] = NoHandler
      /\ handler[h].count = 1 /\ handler[h].owner = "new"
  BY SelectorAssumption DEF Inv, Core, HandlersTyped, HandlerRecord, CountOf, Mapped,
                            Registered, RegisterHandler
<1>2. /\ m_map' = [m_map EXCEPT ![handler[h].handle] = h]
      /\ handler' = [handler EXCEPT ![h] =
                        [handler[h] EXCEPT !.count = 2, !.owner = "registered"]]
  <2>1. handler[h].count + 1 = 2
    BY <1>1
  <2>2. QED
    BY <2>1 DEF RegisterHandler, Inv, Core, HandlersTyped, HandlerRecord
<1>3. HandlersTyped'
  BY <1>1, <1>2 DEF Inv, Core, HandlersTyped, HandlerRecord
<1>4. HandlesDiffer' /\ MapExact'
  BY <1>1, <1>2 DEF Inv, Core, HandlersTyped, HandlerRecord, HandlesDiffer, MapExact,
                    Registered
<1>5. ASSUME NEW g \in Handler
      PROVE  CountOf(g)'
  BY <1>1, <1>2, SelectorAssumption DEF Inv, Core, HandlersTyped, HandlerRecord,
                                        HandlesDiffer, CountOf, Mapped
<1>6. Service'
  BY DEF Inv, RegisterHandler, Service
<1>7. Input'
  BY <1>2, InputStays DEF Inv, Core, HandlersTyped, HandlerRecord, RegisterHandler, loop
<1>8. QED
  BY <1>3, <1>4, <1>5, <1>6, <1>7 DEF Inv, Core, LoopTyped, Time, RegisterHandler, loop

LEMMA RemoveHandlerInv == ASSUME Inv, NEW h \in Handler, RemoveHandler(h) PROVE Inv'
<1> DEFINE x == handler[h].handle
           mine == [handler EXCEPT ![h].owner = "removed"]
<1> HIDE DEF mine
<1>1. handler[h].owner = "registered" /\ handler[h].count > 0 /\ x \in Handle
  BY DEF RemoveHandler, Inv, Core, HandlersTyped, HandlerRecord, CountOf, Mapped
<1>2. x \in Registered => Mapped(h)
  BY <1>1, SelectorAssumption DEF Inv, Core, HandlersTyped, MapExact, HandlesDiffer,
                                  Registered, Mapped
<1>3. mine \in [Handler -> HandlerRecord]
  BY DEF mine, Inv, Core, HandlersTyped, HandlerRecord
<1>4. /\ mine[h].count = handler[h].count /\ mine[h].owner = "removed"
      /\ mine[h].handle = x /\ mine[h].input = handler[h].input
      /\ \A g \in Handler : g # h => mine[g] = handler[g]
  BY DEF mine, Inv, Core, HandlersTyped, HandlerRecord
<1>5. /\ \/ Mapped(h) /\ m_map' = [m_map EXCEPT ![x] = NoHandler]
         \/ ~Mapped(h) /\ m_map' = m_map
      /\ handler' \in [Handler -> HandlerRecord]
      /\ handler'[h].count = 1 /\ handler'[h].owner = "removed"
      /\ handler'[h].handle = x /\ handler'[h].input = handler[h].input
      /\ \A g \in Handler : g # h => handler'[g] = handler[g]
  <2>1. CASE x \in Registered
    <3>1. m_map[x] = h /\ handler[h].count = 2
      BY <1>1, <1>2, <2>1 DEF Mapped, Inv, Core, CountOf
    <3>2. m_map' = [m_map EXCEPT ![x] = NoHandler]
      BY <2>1 DEF RemoveHandler
    <3>0. handler' = Released({h}, mine)
      BY <2>1, <3>1 DEF RemoveHandler, mine
    <3>3. mine[h].count = 2 /\ mine[h].count > 0 /\ mine[h].count # 1
      BY <1>4, <3>1
    <3>4. /\ handler' \in [Handler -> HandlerRecord]
          /\ \A g \in Handler : g # h => handler'[g] = mine[g]
          /\ handler'[h].count = mine[h].count - 1 /\ handler'[h].owner = mine[h].owner
          /\ handler'[h].handle = mine[h].handle /\ handler'[h].input = mine[h].input
      <4>1. mine[h].count > 0
        BY <3>3
      <4>2. mine[h].count # 1
        BY <3>3
      <4>3. PICK new : new = Released({h}, mine)
        OBVIOUS
      <4>4. /\ new \in [Handler -> HandlerRecord]
            /\ \A g \in Handler : g # h => new[g] = mine[g]
            /\ mine[h].count # 1 =>
                  /\ new[h].count = mine[h].count - 1 /\ new[h].owner = mine[h].owner
                  /\ new[h].handle = mine[h].handle /\ new[h].input = mine[h].input
        <5>1. h \in Handler /\ mine \in [Handler -> HandlerRecord] /\ mine[h].count > 0
          BY <1>3, <4>1
        <5>2. QED
          BY ONLY <4>3, <5>1, ReleasedOne, SMTT(30)
      <4>5. handler' = new
        BY <3>0, <4>3
      <4>6. QED
        BY <4>2, <4>4, <4>5
    <3>5. QED
      BY <1>2, <1>4, <2>1, <3>2, <3>3, <3>4
  <2>2. CASE x \notin Registered
    <3>1. ~Mapped(h) /\ handler[h].count = 1
      BY <1>1, <2>2, SelectorAssumption DEF Mapped, Registered, Inv, Core, CountOf
    <3>2. handler' = mine /\ m_map' = m_map
      BY <2>2 DEF RemoveHandler, mine
    <3>3. QED
      BY <1>3, <1>4, <3>1, <3>2
  <2>3. QED
    BY <2>1, <2>2
<1>6. HandlersTyped'
  BY <1>1, <1>5 DEF Inv, Core, HandlersTyped
<1>7. HandlesDiffer'
  BY <1>5 DEF Inv, Core, HandlesDiffer
<1>8. MapExact'
  BY <1>1, <1>5 DEF Inv, Core, HandlersTyped, MapExact, Registered
<1>9. ~Mapped(h)'
  BY <1>1, <1>5, SelectorAssumption DEF Inv, Core, HandlersTyped, Mapped
<1>10. ASSUME NEW g \in Handler
      PROVE  CountOf(g)'
  <2>1. CASE g = h
    BY <1>1, <1>5, <1>9, <2>1, SelectorAssumption DEF CountOf
  <2>2. CASE g # h
    <3>1. handler'[g] = handler[g] /\ (Mapped(g)' <=> Mapped(g))
      BY <1>1, <1>5, <2>2, SelectorAssumption DEF Inv, Core, HandlersTyped, HandlesDiffer,
                                                  Mapped
    <3>2. QED
      BY <3>1 DEF Inv, Core, CountOf
  <2>3. QED
    BY <2>1, <2>2
<1>11. Service'
  BY <1>1 DEF Inv, RemoveHandler, Service
<1>12. Input'
  BY <1>5, InputStays DEF Inv, Core, RemoveHandler, loop
<1>13. QED
  BY <1>6, <1>7, <1>8, <1>10, <1>11, <1>12 DEF Inv, Core, LoopTyped, Time, RemoveHandler,
                                               loop

LEMMA ReleaseInv == ASSUME Inv, NEW h \in Handler, Release(h) PROVE Inv'
<1> DEFINE mine == [handler EXCEPT ![h].owner = "none"]
<1>1. handler[h].owner # "none" /\ handler[h].count > 0
  BY DEF Release, Inv, Core, HandlersTyped, HandlerRecord, CountOf
<1>2. mine \in [Handler -> HandlerRecord]
  BY DEF Inv, Core, HandlersTyped, HandlerRecord
<1>3. /\ \A g \in Handler : g # h => handler'[g] = handler[g]
      /\ handler[h].count = 1 => handler'[h] = Deleted
      /\ handler[h].count # 1 =>
            /\ handler'[h].owner = "none" /\ handler'[h].count = handler[h].count - 1
            /\ handler'[h].handle = handler[h].handle /\ handler'[h].input = handler[h].input
      /\ handler' \in [Handler -> HandlerRecord]
  <2>1. mine[h].count = handler[h].count
    BY DEF Inv, Core, HandlersTyped, HandlerRecord
  <2>2. handler' = Released({h}, mine)
    BY DEF Release
  <2>3. /\ mine[h].owner = "none"
        /\ mine[h].handle = handler[h].handle /\ mine[h].input = handler[h].input
        /\ \A g \in Handler : g # h => mine[g] = handler[g]
    BY DEF Inv, Core, HandlersTyped, HandlerRecord
  <2> HIDE DEF mine
  <2>4. QED
    BY <1>1, <1>2, <2>1, <2>2, <2>3, ReleasedOne
<1>4. \A g \in Handler : \/ handler'[g].handle = handler[g].handle
                         \/ g = h /\ handler'[g].handle = NoHandle /\ handler[h].count = 1
  <2>1. Deleted.handle = NoHandle
    BY DEF Deleted
  <2>2. QED
    BY <1>3, <2>1
<1>5. handler[h].count = 1 => ~Mapped(h)
  BY <1>1 DEF Inv, Core, CountOf
<1>6. HandlersTyped' /\ HandlesDiffer'
  BY <1>3, <1>4 DEF Release, Inv, Core, HandlersTyped, HandlesDiffer
<1>7. MapExact'
  BY <1>4, <1>5, SelectorAssumption DEF Release, Inv, Core, HandlersTyped, MapExact,
                                        Registered, Mapped
<1>8. ASSUME NEW g \in Handler
      PROVE  CountOf(g)'
  <2>1. CASE g # h
    BY <1>3, <2>1 DEF Release, Inv, Core, CountOf, Mapped
  <2>2. CASE g = h /\ handler[h].count = 1
    BY <1>3, <2>2, SelectorAssumption DEF Deleted, CountOf, Mapped
  <2>3. CASE g = h /\ handler[h].count # 1
    <3>1. Mapped(h)' <=> Mapped(h)
      BY <1>3, <2>3 DEF Release, Mapped
    <3>2. CountOf(h) /\ handler[h].count \in Nat
      BY DEF Inv, Core, HandlersTyped, HandlerRecord
    <3>3. handler[h].count > 1 /\ handler'[h].count = handler[h].count - 1
          /\ handler'[h].owner = "none" /\ handler'[h].handle = handler[h].handle
      BY <1>1, <1>3, <2>3, <3>2
    <3>4. QED
      BY <1>1, <2>3, <3>1, <3>2, <3>3 DEF CountOf
  <2>4. QED
    BY <2>1, <2>2, <2>3
<1>9. Service'
  BY <1>1 DEF Inv, Release, Service
<1>10. Input'
  <2>1. \A g \in Handler :
           /\ handler'[g].handle \in {handler[g].handle, NoHandle}
           /\ handler'[g].handle = NoHandle \/ handler'[g].input = handler[g].input
    BY <1>3, <1>4 DEF Inv, Core, HandlersTyped, HandlerRecord, Deleted
  <2>2. QED
    BY <2>1, InputRecycled DEF Inv, Release, Input
<1>11. QED
  BY <1>6, <1>7, <1>8, <1>9, <1>10 DEF Inv, Core, LoopTyped, Time, Release

\* One handler goes on with the same handle and references.
Touched(h, r) ==
    /\ handler' = [handler EXCEPT ![h] = r]
    /\ r.handle = handler[h].handle /\ r.count = handler[h].count
    /\ r.owner = handler[h].owner /\ (handler[h].input # "none" => r.input # "none")

LEMMA WriteOrSendInv ==
    ASSUME Inv, NEW h \in Handler,
           WriteData(h) \/ PeerSends(h, "some") \/ PeerSends(h, "end")
    PROVE  Inv'
<1>1. PICK r \in HandlerRecord : Touched(h, r)
  <2>1. CASE WriteData(h)
    <3>1. [handler[h] EXCEPT !.output = TRUE] \in HandlerRecord
      BY DEF Inv, Core, HandlersTyped, HandlerRecord
    <3>2. Touched(h, [handler[h] EXCEPT !.output = TRUE])
      BY <2>1 DEF WriteData, Touched, Inv, Core, HandlersTyped, HandlerRecord
    <3>3. QED
      BY <3>1, <3>2
  <2>2. ASSUME NEW what \in {"some", "end"}, PeerSends(h, what)
        PROVE  \E r \in HandlerRecord : Touched(h, r)
    <3>1. [handler[h] EXCEPT !.input = what] \in HandlerRecord
      BY DEF Inv, Core, HandlersTyped, HandlerRecord
    <3>2. Touched(h, [handler[h] EXCEPT !.input = what])
      BY <2>2 DEF PeerSends, Touched, Inv, Core, HandlersTyped, HandlerRecord
    <3>3. QED
      BY <3>1, <3>2
  <2>3. QED
    BY <2>1, <2>2
<1>2. UNCHANGED <<m_map, m_is_running, pc, loop, service>>
  BY DEF WriteData, PeerSends
<1>3. Core'
  BY <1>1, <1>2, AlikeCore DEF Touched, Inv, Core, HandlersTyped, Alike
<1>4. Input'
  BY <1>1, <1>2, InputStays DEF Touched, Inv, Core, HandlersTyped, loop
<1>5. QED
  BY <1>1, <1>2, <1>3, <1>4 DEF Touched, Inv, LoopTyped, Core, HandlersTyped, Service, Time,
                                loop, Registered

LEMMA StopInv == ASSUME Inv, Stop PROVE Inv'
<1>1. Core'
  BY DEF Inv, Stop, Core, HandlersTyped, HandlesDiffer, MapExact, CountOf, Mapped,
         Registered
<1>2. QED
  BY <1>1 DEF Inv, Stop, LoopTyped, Service, Input, Time, loop, Registered

LEMMA JoinedInv == ASSUME Inv, Joined PROVE Inv'
<1>1. Alike(handler)
  BY DEF Inv, Core, HandlersTyped, Alike
<1>2. RemoveThese({m_map[x] : x \in Registered}, handler)
  BY DEF Joined, RemoveThese, Registered
<1>3. Core'
  BY <1>1, <1>2, RemoveTheseCore DEF Inv
<1>4. Registered' = {}
  BY DEF Joined, Registered
<1>5. \A h \in Handler : handler'[h].owner = "none"
  BY SelectorAssumption DEF Inv, Service, Joined, Released, Deleted, Core, HandlersTyped,
                            HandlerRecord
<1>6. QED
  BY <1>3, <1>4, <1>5 DEF Inv, Joined, LoopTyped, Service, Input, Time, loop

----------------------------------------------------------------------------
(* The steps of the selector thread.                                        *)

LEMMA BeginInv == ASSUME Inv, Begin PROVE Inv'
<1>1. Core'
  BY DEF Inv, Begin, Core, HandlersTyped, HandlesDiffer, MapExact, CountOf, Mapped,
         Registered
<1>2. Time'
  BY SelectorAssumption DEF Begin, Time
<1>3. QED
  BY <1>1, <1>2 DEF Inv, Begin, LoopTyped, Service, Input, Registered

LEMMA BuildSetsInv == ASSUME Inv, BuildSets PROVE Inv'
<1>1. Core'
  BY DEF Inv, BuildSets, Core, HandlersTyped, HandlesDiffer, MapExact, CountOf, Mapped,
         Registered
<1>2. Time'
  BY DEF Inv, BuildSets, Time
<1>3. QED
  BY <1>1, <1>2 DEF Inv, BuildSets, LoopTyped, Service, Input, Registered

\* The time of a select is at most what is left.
LEMMA AfterIs ==
    ASSUME Inv, NEW time \in 0..time_left, After(time)
    PROVE  /\ elapsed' \in 0..Interval + 1
           /\ ~failed /\ pc # "timer" =>
                 elapsed' = elapsed + time /\ elapsed' <= elapsed + time_left
  BY SelectorAssumption DEF Inv, Time, After

LEMMA SelectInv ==
    ASSUME Inv,
           SelectTimesOut \/ \E time \in 0..time_left : SelectFails(time) \/ SelectReturns(time)
    PROVE  Inv'
<1>1. pc = "select" /\ UNCHANGED <<m_map, m_is_running, handler, service>>
  BY DEF SelectTimesOut, SelectFails, SelectReturns, Returns
<1>2. Core'
  BY <1>1 DEF Inv, Core, HandlersTyped, HandlesDiffer, MapExact, CountOf, Mapped, Registered
<1>3. LoopTyped' /\ Service'
  BY <1>1 DEF Inv, LoopTyped, Service, Registered, SelectTimesOut, SelectFails,
              SelectReturns, Returns, Ready
<1>4. Input'
  BY <1>1 DEF Inv, LoopTyped, Input, SelectTimesOut, SelectFails, SelectReturns, Returns,
              Ready
<1>5. Time'
  <2>1. CASE SelectTimesOut
    <3>1. time_left \in 0..time_left /\ After(time_left)
      BY <2>1 DEF SelectTimesOut, Inv, Time
    <3>2. QED
      BY <1>1, <2>1, <3>1, AfterIs, SelectorAssumption DEF SelectTimesOut, Inv, Time
  <2>2. ASSUME NEW time \in 0..time_left, SelectFails(time)
        PROVE  Time'
    BY <2>2, AfterIs DEF SelectFails, Inv, Time
  <2>3. ASSUME NEW time \in 0..time_left, SelectReturns(time)
        PROVE  Time'
    <3>1. /\ elapsed' \in 0..Interval + 1
          /\ ~failed => elapsed' = elapsed + time /\ elapsed' <= elapsed + time_left
      BY <1>1, <2>3, AfterIs DEF SelectReturns
    <3>2. CASE elapsed' >= time_left
      BY <1>1, <2>3, <3>1, <3>2, SelectorAssumption DEF SelectReturns, Returns, Inv, Time
    <3>3. CASE ~(elapsed' >= time_left)
      <4>1. time_left' = time_left - elapsed'
        BY <2>3, <3>3 DEF SelectReturns, Returns
      <4>2. time_left \in 1..Interval
        BY <1>1 DEF Inv, Time
      <4>3. elapsed' \in Nat /\ elapsed' < time_left /\ time_left \in Nat /\ Interval \in Nat
        BY <3>1, <3>3, <4>2, SelectorAssumption
      <4>4. time_left' \in 1..Interval /\ elapsed' <= Interval /\ elapsed' + time_left' <= Interval
        <5> DEFINE n == elapsed'  m == time_left'
        <5>1. n \in Nat /\ m = time_left - n /\ n < time_left /\ time_left <= Interval
          BY <4>1, <4>2, <4>3
        <5> HIDE DEF n, m
        <5>2. m \in 1..Interval /\ n <= Interval /\ n + m <= Interval
          BY <4>3, <5>1
        <5>3. QED
          BY <5>2 DEF n, m
      <4>5. QED
        BY <3>1, <4>4 DEF Time
    <3>4. QED
      BY <3>2, <3>3
  <2>4. QED
    BY <2>1, <2>2, <2>3
<1>6. QED
  BY <1>2, <1>3, <1>4, <1>5 DEF Inv

\* Handlers that remove themselves keep their owner and lose their handle only
\* when they are deleted.
LEMMA RemoveTheseInput ==
    ASSUME Core, NEW S, S \subseteq {m_map[x] : x \in Registered}, NEW handlers,
           Alike(handlers), RemoveThese(S, handlers)
    PROVE  \A h \in Handler :
              /\ handler'[h].handle \in {handler[h].handle, NoHandle}
              /\ handler'[h].handle = NoHandle \/ handler'[h].input = handlers[h].input
              /\ handler'[h].owner \in {handler[h].owner, "none"}
<1>1. \A h \in Handler : h \in S => handlers[h].count > 0
  BY SelectorAssumption DEF Core, HandlersTyped, HandlerRecord, MapExact, Registered,
                            Mapped, CountOf, Alike
<1>2. \A h \in Handler :
         /\ h \notin S => handler'[h] = handlers[h]
         /\ h \in S /\ handlers[h].count = 1 => handler'[h] = Deleted
         /\ h \in S /\ handlers[h].count # 1 =>
               handler'[h] = [handlers[h] EXCEPT !.count = @ - 1]
  BY <1>1, ReleasedIs DEF RemoveThese, Alike
<1>3. \A h \in Handler : handlers[h] \in HandlerRecord
  BY DEF Alike
<1>4. ASSUME NEW h \in Handler
      PROVE  /\ handler'[h].handle \in {handlers[h].handle, NoHandle}
             /\ handler'[h].handle = NoHandle \/ handler'[h].input = handlers[h].input
             /\ handler'[h].owner \in {handlers[h].owner, "none"}
  <2>1. CASE h \notin S
    BY <1>2, <2>1
  <2>2. CASE h \in S /\ handlers[h].count = 1
    <3>1. handler'[h] = Deleted
      BY <1>2, <2>2
    <3>2. QED
      BY <3>1 DEF Deleted
  <2>3. CASE h \in S /\ handlers[h].count # 1
    <3>1. handler'[h] = [handlers[h] EXCEPT !.count = @ - 1]
      BY <1>2, <2>3
    <3>2. QED
      BY <1>3, <3>1 DEF HandlerRecord
  <2>4. QED
    BY <2>1, <2>2, <2>3
<1>5. QED
  BY <1>4 DEF Alike

\* Registered handlers of a service that stops stay without owner, so the
\* service is as it was.
LEMMA ServiceStays ==
    ASSUME Inv, pc' # "none" \/ UNCHANGED pc, pc # "none", UNCHANGED service,
           \A h \in Handler : handler'[h].owner \in {handler[h].owner, "none"}
    PROVE  Service'
  BY DEF Inv, Service

LEMMA TimerInv == ASSUME Inv, Timer PROVE Inv'
<1> DEFINE called == {m_map[x] : x \in {y \in Handle : HasMask(y, "TIMER")}}
           handlers == [h \in Handler |-> IF h \in called /\ handler[h].output
                                          THEN [handler[h] EXCEPT !.mask = @ \cup {"OUTPUT"}]
                                          ELSE handler[h]]
<1> HIDE DEF called, handlers
<1>1. PICK expired \in SUBSET {h \in called : handler[h].kind = "validator"} :
         RemoveThese(expired, handlers)
  BY DEF Timer, called, handlers
<1>2. expired \subseteq {m_map[x] : x \in Registered}
  BY DEF called, HasMask
<1>3. Alike(handlers) /\ \A h \in Handler : handlers[h].input = handler[h].input
  <2>1. \A h \in Handler : [handler[h] EXCEPT !.mask = @ \cup {"OUTPUT"}] \in HandlerRecord
    BY DEF Inv, Core, HandlersTyped, HandlerRecord, Mask
  <2>2. handlers \in [Handler -> HandlerRecord]
    BY <2>1 DEF handlers, Inv, Core, HandlersTyped
  <2>3. QED
    BY <2>2 DEF handlers, Alike, Inv, Core, HandlersTyped, HandlerRecord
<1>4. Core'
  BY <1>1, <1>2, <1>3, RemoveTheseCore DEF Inv
<1>5. \A h \in Handler :
         /\ handler'[h].handle \in {handler[h].handle, NoHandle}
         /\ handler'[h].handle = NoHandle \/ handler'[h].input = handler[h].input
         /\ handler'[h].owner \in {handler[h].owner, "none"}
  BY <1>1, <1>2, <1>3, RemoveTheseInput DEF Inv
<1>6. Input'
  BY <1>5, InputRecycled DEF Inv, Timer
<1>7. Service'
  BY <1>5, ServiceStays DEF Timer
<1>8. Time'
  BY SelectorAssumption DEF Inv, Timer, Time
<1>9. QED
  BY <1>4, <1>6, <1>7, <1>8 DEF Inv, Timer, LoopTyped

LEMMA DispatchReadInv == ASSUME Inv, NEW x \in Handle, DispatchRead(x) PROVE Inv'
<1>1. pc = "dispatch" /\ pc' = pc /\ rd_set' = rd_set \ {x} /\ Recycle /\ UNCHANGED service
      /\ UNCHANGED <<m_is_running, pc, wd_set, time_left, elapsed, failed>>
  BY DEF DispatchRead
<1>2. CASE UNCHANGED <<m_map, handler>>
  <2>1. Core'
    BY <1>2, AlikeCore DEF Inv, Core, HandlersTyped, Alike
  <2>2. Input' /\ Service'
    BY <1>1, <1>2, InputRecycled, ServiceStays DEF Inv
  <2>3. QED
    BY <1>1, <2>1, <2>2 DEF Inv, LoopTyped, Time
<1>3. ASSUME HasMask(x, "INPUT"), OnInput(m_map[x]), ~UNCHANGED <<m_map, handler>>
      PROVE  Inv'
  <2> DEFINE h == m_map[x]
  <2> HIDE DEF h
  <2>1. h \in Handler /\ handler[h].handle = x
    BY <1>3, SelectorAssumption DEF h, HasMask, Registered, Inv, Core, HandlersTyped,
                                    MapExact
  <2>2. CASE RemoveThese({h}, handler)
    <3>1. {h} \subseteq {m_map[y] : y \in Registered} /\ Alike(handler)
      BY <1>3 DEF h, HasMask, Inv, Core, HandlersTyped, Alike
    <3>2. Core'
      BY <2>2, <3>1, RemoveTheseCore DEF Inv
    <3>3. \A g \in Handler :
             /\ handler'[g].handle \in {handler[g].handle, NoHandle}
             /\ handler'[g].handle = NoHandle \/ handler'[g].input = handler[g].input
             /\ handler'[g].owner \in {handler[g].owner, "none"}
      BY <2>2, <3>1, RemoveTheseInput DEF Inv
    <3>4. Input'
      BY <1>1, <3>3, InputRecycled DEF Inv
    <3>5. Service'
      BY <1>1, <3>3, ServiceStays
    <3>6. QED
      BY <1>1, <3>2, <3>4, <3>5 DEF Inv, LoopTyped, Time
  <2>3. CASE /\ UNCHANGED m_map
             /\ \E input \in {"none", "end"}, mask \in SUBSET Mask :
                   handler' = [handler EXCEPT ![h] =
                                  [handler[h] EXCEPT !.input = input, !.mask = mask]]
    <3>1. PICK input \in {"none", "end"}, mask \in SUBSET Mask :
             handler' = [handler EXCEPT ![h] =
                            [handler[h] EXCEPT !.input = input, !.mask = mask]]
      BY <2>3
    <3>2. [handler[h] EXCEPT !.input = input, !.mask = mask] \in HandlerRecord
      BY <2>1 DEF Inv, Core, HandlersTyped, HandlerRecord
    <3>3. Alike(handler')
      BY <2>1, <3>1, <3>2 DEF Alike, Inv, Core, HandlersTyped, HandlerRecord
    <3>4. Core'
      BY <2>3, <3>3, AlikeCore DEF Inv
    <3>5. \A g \in Handler : g # h => handler'[g] = handler[g]
      BY <3>1 DEF Inv, Core, HandlersTyped
    <3>6. Input'
      BY <1>1, <2>1, <3>3, <3>5, InputRecycled DEF Alike, Inv
    <3>7. Service'
      BY <1>1, <3>3, ServiceStays DEF Alike
    <3>8. QED
      BY <1>1, <3>4, <3>6, <3>7 DEF Inv, LoopTyped, Time
  <2>4. QED
    <3>1. \/ RemoveThese({h}, handler)
          \/ /\ UNCHANGED m_map /\ handler[h].input = "some"
             /\ \/ handler' = [handler EXCEPT ![h].input = "none"]
                \/ handler' = [[handler EXCEPT ![h].input = "none"]
                                  EXCEPT ![h].mask = {"OUTPUT", "TIMER"}]
      BY <1>3, <2>1 DEF h, OnInput, Inv, Core, HandlersTyped
    <3>2. handler[h] \in HandlerRecord
      BY <2>1 DEF Inv, Core, HandlersTyped
    <3>3. CASE UNCHANGED m_map /\ handler' = [handler EXCEPT ![h].input = "none"]
      <4>1. handler' = [handler EXCEPT ![h] =
                           [handler[h] EXCEPT !.input = "none", !.mask = handler[h].mask]]
        BY <2>1, <3>2, <3>3 DEF HandlerRecord, Inv, Core, HandlersTyped
      <4>2. handler[h].mask \in SUBSET Mask
        BY <3>2 DEF HandlerRecord
      <4>3. QED
        BY <2>3, <3>3, <4>1, <4>2
    <3>4. CASE /\ UNCHANGED m_map
               /\ handler' = [[handler EXCEPT ![h].input = "none"]
                                 EXCEPT ![h].mask = {"OUTPUT", "TIMER"}]
      <4>1. handler' = [handler EXCEPT ![h] =
                           [handler[h] EXCEPT !.input = "none", !.mask = {"OUTPUT", "TIMER"}]]
        BY <2>1, <3>2, <3>4 DEF HandlerRecord, Inv, Core, HandlersTyped
      <4>2. {"OUTPUT", "TIMER"} \in SUBSET Mask
        BY DEF Mask
      <4>3. QED
        BY <2>3, <3>4, <4>1, <4>2
    <3>5. QED
      BY <2>2, <3>1, <3>3, <3>4
<1>4. QED
  BY <1>2, <1>3 DEF DispatchRead

LEMMA DispatchWriteInv == ASSUME Inv, NEW x \in Handle, DispatchWrite(x) PROVE Inv'
<1>1. pc = "dispatch" /\ pc' = pc /\ wd_set' = wd_set \ {x} /\ Recycle
      /\ UNCHANGED <<m_is_running, pc, rd_set, time_left, elapsed, failed, service>>
  BY DEF DispatchWrite
<1>2. Input' /\ LoopTyped' /\ Time'
  BY <1>1 DEF DispatchWrite, Inv, LoopTyped, Input, Time
<1>3. CASE UNCHANGED <<m_map, handler>>
  BY <1>1, <1>2, <1>3, AlikeCore, ServiceStays DEF Inv, Core, HandlersTyped, Alike
<1>4. ASSUME HasMask(x, "OUTPUT"), OnOutput(m_map[x])
      PROVE  Inv'
  <2> DEFINE h == m_map[x]
  <2> HIDE DEF h
  <2>1. h \in Handler /\ handler[h].handle = x
    BY <1>4, SelectorAssumption DEF h, HasMask, Registered, Inv, Core, HandlersTyped,
                                    MapExact
  <2>2. CASE RemoveThese({h}, handler)
    <3>1. {h} \subseteq {m_map[y] : y \in Registered} /\ Alike(handler)
      BY <1>4 DEF h, HasMask, Inv, Core, HandlersTyped, Alike
    <3>2. Core'
      BY <2>2, <3>1, RemoveTheseCore DEF Inv
    <3>3. \A g \in Handler : handler'[g].owner \in {handler[g].owner, "none"}
      BY <2>2, <3>1, RemoveTheseInput DEF Inv
    <3>4. QED
      BY <1>1, <1>2, <3>2, <3>3, ServiceStays DEF Inv
  <2>3. CASE /\ handler' = [handler EXCEPT ![h].output = FALSE, ![h].mask = @ \ {"OUTPUT"}]
             /\ UNCHANGED m_map
    <3>1. handler[h] \in HandlerRecord
      BY <2>1 DEF Inv, Core, HandlersTyped
    <3>2. handler' = [handler EXCEPT ![h] = [handler[h] EXCEPT !.output = FALSE,
                                                !.mask = handler[h].mask \ {"OUTPUT"}]]
      BY <2>1, <2>3, <3>1 DEF Inv, Core, HandlersTyped, HandlerRecord
    <3>3. [handler[h] EXCEPT !.output = FALSE, !.mask = handler[h].mask \ {"OUTPUT"}]
             \in HandlerRecord
      BY <3>1 DEF HandlerRecord
    <3>4. Alike(handler')
      BY <2>1, <3>1, <3>2, <3>3 DEF Alike, Inv, Core, HandlersTyped, HandlerRecord
    <3>5. QED
      BY <1>1, <1>2, <2>3, <3>4, AlikeCore, ServiceStays DEF Alike, Inv
  <2>4. QED
    BY <1>4, <2>2, <2>3 DEF h, OnOutput
<1>5. QED
  BY <1>3, <1>4 DEF DispatchWrite

LEMMA DispatchedInv == ASSUME Inv, Dispatched PROVE Inv'
<1>1. Core'
  BY DEF Inv, Dispatched, Core, HandlersTyped, HandlesDiffer, MapExact, CountOf, Mapped,
         Registered
<1>2. QED
  BY <1>1 DEF Inv, Dispatched, LoopTyped, Service, Input, Time, loop, Registered

LEMMA NextInv == Inv /\ [Next]_vars => Inv'
<1> SUFFICES ASSUME Inv, [Next]_vars PROVE Inv'
  OBVIOUS
<1>1. CASE Run
  BY <1>1, BeginInv, BuildSetsInv, SelectInv, TimerInv, DispatchReadInv, DispatchWriteInv,
     DispatchedInv
     DEF Run
<1>2. CASE UNCHANGED vars
  <2>1. Core'
    BY <1>2 DEF vars, Inv, Core, HandlersTyped, HandlesDiffer, MapExact, CountOf, Mapped,
                Registered
  <2>2. QED
    BY <1>2, <2>1 DEF vars, loop, Inv, LoopTyped, Service, Input, Time, Registered
<1>3. QED
  BY <1>1, <1>2, StartInv, StopInv, JoinedInv, NewHandlerInv, RegisterHandlerInv,
     RemoveHandlerInv, ReleaseInv, WriteOrSendInv
     DEF Next

LEMMA InvAlways == Spec => []Inv
  BY InitInv, NextInv, PTL DEF Spec

----------------------------------------------------------------------------

\* Whatever order handlers are made, registered, removed, closed and their
\* handles given again, what the selector's map refers to is alive and was not
\* removed, and a handler is deleted exactly when its last reference goes
\* (Selector::RegisterHandler, RemoveHandler, Run).
THEOREM HandlersOwnedHolds == Spec => []HandlersOwned
  BY InvAlways, InvHandlersOwned, PTL

\* The selector calls OnInput of a handler without input only if a handle of
\* rd_set was closed after select and given to it.
THEOREM InputIsRealHolds == Spec => []InputIsReal
  BY InvAlways, InvInputIsReal, PTL

\* The timers are never later than SELECTOR_CHECK_TIME, for any interval and
\* any times the selects take, unless a select failed.
THEOREM TimerInTimeHolds == Spec => []TimerInTime
<1>1. Inv => TimerInTime
  BY DEF Inv, Time, TimerInTime
<1>2. QED
  BY <1>1, InvAlways, PTL
=============================================================================
