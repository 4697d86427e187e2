---------------------------- MODULE DispatcherProofs ----------------------------
(* Theorems about Dispatcher, for any threads, events, delays and bounds.  *)
EXTENDS Dispatcher, Facts, TLAPS

(* The variables have their types at first.                                *)
LEMMA InitType == Init => TypeOK
<1> SUFFICES ASSUME Init PROVE TypeOK
  OBVIOUS
<1> USE EventAssumption, TimeAssumption DEF EventAssumption, TimeAssumption, Init
<1>1. left \in [SerialEvents \cup TimedEvents -> Int]
  OBVIOUS
<1>2. <<>> \in Seq(SerialEvents)
  OBVIOUS
<1>3. posted \in SUBSET Events
  BY DEF Events
<1>. QED
  BY <1>1, <1>2, <1>3 DEF TypeOK, EventOrNone

(* Every step keeps the types.                                             *)
LEMMA NextType == TypeOK /\ [Next]_vars => TypeOK'
<1> SUFFICES ASSUME TypeOK, [Next]_vars PROVE TypeOK'
  OBVIOUS
<1> USE ThreadAssumption, EventAssumption, TimeAssumption
<1> USE DEF ThreadAssumption, EventAssumption, TimeAssumption, TypeOK, EventOrNone, Events, inbox, main, ids, loop, history
<1>1. ASSUME NEW t \in Threads, NEW e \in Events, AddEvent(t, e) PROVE TypeOK'
  <2> USE <1>1 DEF AddEvent, MayPost
  <2>1. queue' \in [Threads -> Seq(SerialEvents)]
    OBVIOUS
  <2>2. sent' \in [Threads -> Seq(SerialEvents)]
    OBVIOUS
  <2>3. promised' \in SUBSET (AsyncEvents \X SerialEvents)
    <3>1. asyncQueue[Main] \X {e} \in SUBSET (AsyncEvents \X SerialEvents)
      OBVIOUS
    <3>. QED
      BY <3>1
  <2>4. left' \in [SerialEvents \cup TimedEvents -> Int]
    OBVIOUS
  <2>. QED
    BY <2>1, <2>2, <2>3, <2>4
<1>2. ASSUME NEW t \in Threads, NEW e \in Events, AsyncEvent(t, e) PROVE TypeOK'
  BY <1>2 DEF AsyncEvent, MayPost
<1>3. ASSUME NEW t \in Threads, NEW e \in Events, TakeId(t, e) PROVE TypeOK'
  BY <1>3 DEF TakeId, MayPost
<1>4. ASSUME NEW t \in Threads, ScheduleEvent(t) PROVE TypeOK'
  <2> USE <1>4 DEF ScheduleEvent
  <2>1. ref' \in SUBSET TimedEvents
    OBVIOUS
  <2>2. idOf' \in [TimedEvents -> Nat]
    OBVIOUS
  <2>3. timed' \in [Threads -> SUBSET TimedEvents]
    OBVIOUS
  <2>. QED
    BY <2>1, <2>2, <2>3
<1>5. ASSUME NEW t \in Threads, Notify(t) PROVE TypeOK'
  BY <1>5 DEF Notify, Awake
<1>6. ASSUME NEW e \in TimedEvents, StopEvent(e) PROVE TypeOK'
  BY <1>6 DEF StopEvent, Found
<1>7. ASSUME NEW d \in 0..MaxStep, UpdateTime(d) PROVE TypeOK'
  BY <1>7 DEF UpdateTime, LeastStep
<1>8. ASSUME BeginSerial PROVE TypeOK'
  <2> USE <1>8 DEF BeginSerial
  <2>1. Head(serial) \in SerialEvents /\ Tail(serial) \in Seq(SerialEvents)
    OBVIOUS
  <2>2. running' \in [Threads -> EventOrNone] /\ gone' \in SUBSET Events
    BY <2>1
  <2>. QED
    BY <2>1, <2>2
<1>9. ASSUME EndSerial PROVE TypeOK'
  BY <1>9 DEF EndSerial
<1>10. ASSUME NEW e \in sched, BeginTimed(e) PROVE TypeOK'
  <2> USE <1>10 DEF BeginTimed
  <2>1. ref' \in SUBSET TimedEvents
    BY DEF Found
  <2>2. e \in Events
    OBVIOUS
  <2>3. gone' \in SUBSET Events
    <3>1. gone' = gone \cup {e} \/ gone' = gone
      OBVIOUS
    <3>. QED
      BY <2>2, <3>1
  <2>4. running' \in [Threads -> EventOrNone]
    <3>1. running' = [running EXCEPT ![Main] = e] \/ running' = running
      OBVIOUS
    <3>. QED
      BY <2>2, <3>1
  <2>. QED
    BY <2>1, <2>3, <2>4
<1>11. ASSUME EndTimed PROVE TypeOK'
  BY <1>11 DEF EndTimed
<1>12. ASSUME NEW t \in Threads, EndBody(t) PROVE TypeOK'
  <2> USE <1>12 DEF EndBody
  <2>1. running[t] \in Events
    OBVIOUS
  <2>2. CASE running[t] \in CycleEvents
    <3>0. running[t] \in TimedEvents
      BY <2>2
    <3>1. timed' \in [Threads -> SUBSET TimedEvents]
      <4>1. timed' = [timed EXCEPT ![t] = @ \cup {running[t]}]
        BY <2>2
      <4>2. timed \in [Threads -> SUBSET TimedEvents]
        OBVIOUS
      <4>. QED
        BY <3>0, <4>1, <4>2, Zenon
    <3>2. left' \in [SerialEvents \cup TimedEvents -> Int]
      BY <2>2
    <3>. QED
      BY <2>2, <3>1, <3>2
  <2>3. CASE running[t] \notin CycleEvents
    <3>1. ref' \in SUBSET TimedEvents
      BY <2>3 DEF Found
    <3>. QED
      BY <2>1, <2>3, <3>1
  <2>. QED
    BY <2>2, <2>3
<1>13. ASSUME NEW t \in Threads, MergeAsync(t) PROVE TypeOK'
  BY <1>13 DEF MergeAsync
<1>14. ASSUME StartParallel PROVE TypeOK'
  BY <1>14 DEF StartParallel, LeavePhase
<1>15. ASSUME NEW e \in mine, BeginMine(e) PROVE TypeOK'
  BY <1>15 DEF BeginMine
<1>16. ASSUME NEW t \in Threads, NEW e \in batch, BeginTheirs(t, e) PROVE TypeOK'
  BY <1>16 DEF BeginTheirs
<1>17. ASSUME EndParallel PROVE TypeOK'
  BY <1>17 DEF EndParallel, LeavePhase
<1>18. ASSUME NEW t \in Threads, Merge(t) PROVE TypeOK'
  BY <1>18 DEF Merge
<1>19. ASSUME CheckPending PROVE TypeOK'
  BY <1>19 DEF CheckPending
<1>20. ASSUME TestPending PROVE TypeOK'
  BY <1>20 DEF TestPending
<1>21. ASSUME Sleep PROVE TypeOK'
  BY <1>21 DEF Sleep
<1>22. ASSUME Timeout PROVE TypeOK'
  BY <1>22 DEF Timeout
<1>23. ASSUME SpuriousWake PROVE TypeOK'
  BY <1>23 DEF SpuriousWake
<1>24. ASSUME NotifyAll PROVE TypeOK'
  BY <1>24 DEF NotifyAll, Awake
<1>25. ASSUME StopPool PROVE TypeOK'
  BY <1>25 DEF StopPool
<1>26. ASSUME Exit PROVE TypeOK'
  BY <1>26 DEF Exit
<1>27. CASE UNCHANGED vars
  BY <1>27 DEF vars
<1>. QED
  BY <1>1, <1>2, <1>3, <1>4, <1>5, <1>6, <1>7, <1>8, <1>9, <1>10, <1>11, <1>12, <1>13, <1>14, <1>15, <1>16, <1>17, <1>18, <1>19, <1>20, <1>21, <1>22, <1>23, <1>24, <1>25, <1>26, <1>27 DEF Next, LoopStep, Post, ThreadStep, PoolStep

(* Every variable keeps its type, whatever the threads post and when.      *)
THEOREM TypeCorrect == Spec => []TypeOK
BY InitType, NextType, PTL DEF Spec

---------------------------------------------------------------------------
(* What the loop knows at each of its places: outside the parallel phase   *)
(* no pool thread executes anything and the dispatcher's partition is      *)
(* empty, and in it the dispatcher executes an asynchronous event.         *)
PhaseInv ==
    /\ \A t \in Workers : running[t] \in AsyncEvents \cup {NoEvent}
    /\ pc # "parallel" => mine = {} /\ \A t \in Workers : running[t] = NoEvent
    /\ pc = "parallel" => running[Main] \in AsyncEvents \cup {NoEvent}
    /\ pc \notin {"serial", "timed", "parallel"} => running[Main] = NoEvent

(* Every step keeps what PhaseInv says of who executes what.               *)
LEMMA NextPhase == TypeOK /\ PhaseInv /\ [Next]_vars => PhaseInv'
<1> SUFFICES ASSUME TypeOK, PhaseInv, [Next]_vars PROVE PhaseInv'
  OBVIOUS
<1> USE ThreadAssumption, EventAssumption
<1> USE DEF ThreadAssumption, EventAssumption, TypeOK, PhaseInv, Workers, EventOrNone, Events,
            inbox, main, ids, loop, history
<1>1. ASSUME NEW t \in Threads, NEW e \in Events, AddEvent(t, e) PROVE PhaseInv'
  BY <1>1 DEF AddEvent
<1>2. ASSUME NEW t \in Threads, NEW e \in Events, AsyncEvent(t, e) PROVE PhaseInv'
  BY <1>2 DEF AsyncEvent
<1>3. ASSUME NEW t \in Threads, NEW e \in Events, TakeId(t, e) PROVE PhaseInv'
  BY <1>3 DEF TakeId
<1>4. ASSUME NEW t \in Threads, ScheduleEvent(t) PROVE PhaseInv'
  BY <1>4 DEF ScheduleEvent
<1>5. ASSUME NEW t \in Threads, Notify(t) PROVE PhaseInv'
  BY <1>5 DEF Notify, Awake
<1>6. ASSUME NEW e \in TimedEvents, StopEvent(e) PROVE PhaseInv'
  BY <1>6 DEF StopEvent
<1>7. ASSUME NEW d \in 0..MaxStep, UpdateTime(d) PROVE PhaseInv'
  BY <1>7 DEF UpdateTime
<1>8. ASSUME BeginSerial PROVE PhaseInv'
  BY <1>8 DEF BeginSerial
<1>9. ASSUME EndSerial PROVE PhaseInv'
  BY <1>9 DEF EndSerial
<1>10. ASSUME NEW e \in sched, BeginTimed(e) PROVE PhaseInv'
  BY <1>10 DEF BeginTimed
<1>11. ASSUME EndTimed PROVE PhaseInv'
  BY <1>11 DEF EndTimed
<1>12. ASSUME NEW t \in Threads, EndBody(t) PROVE PhaseInv'
  BY <1>12 DEF EndBody
<1>13. ASSUME NEW t \in Threads, MergeAsync(t) PROVE PhaseInv'
  BY <1>13 DEF MergeAsync
<1>14. ASSUME StartParallel PROVE PhaseInv'
  BY <1>14 DEF StartParallel, LeavePhase
<1>15. ASSUME NEW e \in mine, BeginMine(e) PROVE PhaseInv'
  BY <1>15 DEF BeginMine
<1>16. ASSUME NEW t \in Threads, NEW e \in batch, BeginTheirs(t, e) PROVE PhaseInv'
  BY <1>16 DEF BeginTheirs
<1>17. ASSUME EndParallel PROVE PhaseInv'
  BY <1>17 DEF EndParallel, LeavePhase, Running
<1>18. ASSUME NEW t \in Threads, Merge(t) PROVE PhaseInv'
  BY <1>18 DEF Merge
<1>19. ASSUME CheckPending PROVE PhaseInv'
  BY <1>19 DEF CheckPending
<1>20. ASSUME TestPending PROVE PhaseInv'
  BY <1>20 DEF TestPending
<1>21. ASSUME Sleep PROVE PhaseInv'
  BY <1>21 DEF Sleep
<1>22. ASSUME Timeout PROVE PhaseInv'
  BY <1>22 DEF Timeout
<1>23. ASSUME SpuriousWake PROVE PhaseInv'
  BY <1>23 DEF SpuriousWake
<1>24. ASSUME NotifyAll PROVE PhaseInv'
  BY <1>24 DEF NotifyAll, Awake
<1>25. ASSUME StopPool PROVE PhaseInv'
  BY <1>25 DEF StopPool
<1>26. ASSUME Exit PROVE PhaseInv'
  BY <1>26 DEF Exit
<1>27. CASE UNCHANGED vars
  BY <1>27 DEF vars
<1>. QED
  BY <1>1, <1>2, <1>3, <1>4, <1>5, <1>6, <1>7, <1>8, <1>9, <1>10, <1>11, <1>12, <1>13, <1>14, <1>15, <1>16, <1>17, <1>18, <1>19, <1>20, <1>21, <1>22, <1>23, <1>24, <1>25, <1>26, <1>27
  DEF Next, LoopStep, Post, ThreadStep, PoolStep

(* No pool thread executes an asynchronous event while the dispatcher      *)
(* executes a serial or a scheduled one.                                   *)
THEOREM PhasesExclude == Spec => []PhaseExclusion
<1>1. Init => PhaseInv
  BY ThreadAssumption, EventAssumption DEF ThreadAssumption, Init, PhaseInv, Workers
<1>2. PhaseInv => PhaseExclusion
  BY DEF PhaseInv, PhaseExclusion, Workers
<1>. QED
  BY <1>1, <1>2, NextPhase, TypeCorrect, PTL DEF Spec

---------------------------------------------------------------------------
(* An event has no id before it is posted, and the counter has moved by    *)
(* the time an event waits for its id.                                     *)
IdInv ==
    /\ \A e \in TimedEvents : e \notin posted => idOf[e] = 0
    /\ \A t \in Threads : holding[t] \in TimedEvents => holding[t] \in posted
    /\ (\E t \in Threads : Unregistered(t) # {}) => lastId # 0

(* Every step keeps what IdInv says of the ids.                            *)
LEMMA NextIds == TypeOK /\ IdInv /\ [Next]_vars => IdInv'
<1> SUFFICES ASSUME TypeOK, IdInv, [Next]_vars PROVE IdInv'
  OBVIOUS
<1> USE EventAssumption
<1> USE DEF EventAssumption, TypeOK, IdInv, Unregistered, EventOrNone, Events,
            inbox, main, ids, loop, history
<1>0. ASSUME UNCHANGED <<idOf, lastId, holding, posted>> PROVE IdInv'
  BY <1>0
<1>1. ASSUME NEW t \in Threads, NEW e \in Events, AddEvent(t, e) PROVE IdInv'
  <2> USE <1>1 DEF AddEvent, MayPost
  <2>1. \A u \in Threads : Unregistered(u)' \subseteq Unregistered(u)
    OBVIOUS
  <2>2. \A u \in Threads : holding'[u] \in TimedEvents => holding'[u] \in posted'
    OBVIOUS
  <2>3. \A f \in TimedEvents : f \notin posted' => idOf'[f] = 0
    OBVIOUS
  <2>4. (\E u \in Threads : Unregistered(u) # {}) => lastId # 0
    OBVIOUS
  <2>5. lastId' = lastId
    OBVIOUS
  <2>. QED
    <3> HIDE DEF Unregistered
    <3>. QED
      BY <2>1, <2>2, <2>3, <2>4, <2>5
<1>2. ASSUME NEW t \in Threads, NEW e \in Events, AsyncEvent(t, e) PROVE IdInv'
  <2> USE <1>2 DEF AsyncEvent, MayPost
  <2>1. \A u \in Threads : Unregistered(u)' \subseteq Unregistered(u)
    OBVIOUS
  <2>2. \A u \in Threads : holding'[u] \in TimedEvents => holding'[u] \in posted'
    OBVIOUS
  <2>3. \A f \in TimedEvents : f \notin posted' => idOf'[f] = 0
    OBVIOUS
  <2>4. (\E u \in Threads : Unregistered(u) # {}) => lastId # 0
    OBVIOUS
  <2>5. lastId' = lastId
    OBVIOUS
  <2>. QED
    <3> HIDE DEF Unregistered
    <3>. QED
      BY <2>1, <2>2, <2>3, <2>4, <2>5
<1>3. ASSUME NEW t \in Threads, NEW e \in Events, TakeId(t, e) PROVE IdInv'
  BY <1>3 DEF TakeId, MayPost
<1>4. ASSUME NEW t \in Threads, ScheduleEvent(t) PROVE IdInv'
  <2> USE <1>4 DEF ScheduleEvent
  <2>1. \A u \in Threads : Unregistered(u)' \subseteq Unregistered(u)
    OBVIOUS
  <2>2. \A u \in Threads : holding'[u] \in TimedEvents => holding'[u] \in posted'
    OBVIOUS
  <2>3. \A f \in TimedEvents : f \notin posted' => idOf'[f] = 0
    OBVIOUS
  <2>4. (\E u \in Threads : Unregistered(u) # {}) => lastId # 0
    OBVIOUS
  <2>5. lastId' = lastId
    OBVIOUS
  <2>. QED
    <3> HIDE DEF Unregistered
    <3>. QED
      BY <2>1, <2>2, <2>3, <2>4, <2>5
<1>5. ASSUME NEW t \in Threads, Notify(t) PROVE IdInv'
  <2> USE <1>5 DEF Notify
  <2>1. \A u \in Threads : Unregistered(u)' \subseteq Unregistered(u)
    OBVIOUS
  <2>2. \A u \in Threads : holding'[u] \in TimedEvents => holding'[u] \in posted
    OBVIOUS
  <2>3. \A f \in TimedEvents : f \notin posted' => idOf'[f] = 0
    OBVIOUS
  <2>4. (\E u \in Threads : Unregistered(u) # {}) => lastId # 0
    OBVIOUS
  <2>5. lastId' = lastId
    OBVIOUS
  <2>. QED
    <3> HIDE DEF Unregistered
    <3>. QED
      BY <2>1, <2>2, <2>3, <2>4, <2>5
<1>6. ASSUME NEW e \in TimedEvents, StopEvent(e) PROVE IdInv'
  BY <1>6 DEF StopEvent
<1>7. ASSUME NEW d \in 0..MaxStep, UpdateTime(d) PROVE IdInv'
  <2>1. UNCHANGED <<idOf, lastId, holding, posted>>
    BY <1>7 DEF UpdateTime
  <2>. QED
    BY <1>0, <2>1
<1>8. ASSUME BeginSerial PROVE IdInv'
  <2>1. UNCHANGED <<idOf, lastId, holding, posted>>
    BY <1>8 DEF BeginSerial
  <2>. QED
    BY <1>0, <2>1
<1>9. ASSUME EndSerial PROVE IdInv'
  <2>1. UNCHANGED <<idOf, lastId, holding, posted>>
    BY <1>9 DEF EndSerial
  <2>. QED
    BY <1>0, <2>1
<1>10. ASSUME NEW e \in sched, BeginTimed(e) PROVE IdInv'
  <2>1. UNCHANGED <<idOf, lastId, holding, posted>>
    BY <1>10 DEF BeginTimed
  <2>. QED
    BY <1>0, <2>1
<1>11. ASSUME EndTimed PROVE IdInv'
  <2>1. UNCHANGED <<idOf, lastId, holding, posted>>
    BY <1>11 DEF EndTimed
  <2>. QED
    BY <1>0, <2>1
<1>12. ASSUME NEW t \in Threads, EndBody(t) PROVE IdInv'
  <2> USE <1>12 DEF EndBody
  <2>1. \A u \in Threads : Unregistered(u)' = Unregistered(u)
    OBVIOUS
  <2>. QED
    BY <2>1
<1>13. ASSUME NEW t \in Threads, MergeAsync(t) PROVE IdInv'
  <2>1. UNCHANGED <<idOf, lastId, holding, posted>>
    BY <1>13 DEF MergeAsync
  <2>. QED
    BY <1>0, <2>1
<1>14. ASSUME StartParallel PROVE IdInv'
  <2>1. UNCHANGED <<idOf, lastId, holding, posted>>
    BY <1>14 DEF StartParallel
  <2>. QED
    BY <1>0, <2>1
<1>15. ASSUME NEW e \in mine, BeginMine(e) PROVE IdInv'
  <2>1. UNCHANGED <<idOf, lastId, holding, posted>>
    BY <1>15 DEF BeginMine
  <2>. QED
    BY <1>0, <2>1
<1>16. ASSUME NEW t \in Threads, NEW e \in batch, BeginTheirs(t, e) PROVE IdInv'
  <2> USE <1>16 DEF BeginTheirs
  <2>1. \A u \in Threads : Unregistered(u)' = Unregistered(u)
    OBVIOUS
  <2>. QED
    BY <2>1
<1>17. ASSUME EndParallel PROVE IdInv'
  <2>1. UNCHANGED <<idOf, lastId, holding, posted>>
    BY <1>17 DEF EndParallel
  <2>. QED
    BY <1>0, <2>1
<1>18. ASSUME NEW t \in Threads, Merge(t) PROVE IdInv'
  <2>1. UNCHANGED <<idOf, lastId, holding, posted>>
    BY <1>18 DEF Merge
  <2>. QED
    BY <1>0, <2>1
<1>19. ASSUME CheckPending PROVE IdInv'
  <2>1. UNCHANGED <<idOf, lastId, holding, posted>>
    BY <1>19 DEF CheckPending
  <2>. QED
    BY <1>0, <2>1
<1>20. ASSUME TestPending PROVE IdInv'
  <2>1. UNCHANGED <<idOf, lastId, holding, posted>>
    BY <1>20 DEF TestPending
  <2>. QED
    BY <1>0, <2>1
<1>21. ASSUME Sleep PROVE IdInv'
  <2>1. UNCHANGED <<idOf, lastId, holding, posted>>
    BY <1>21 DEF Sleep
  <2>. QED
    BY <1>0, <2>1
<1>22. ASSUME Timeout PROVE IdInv'
  <2>1. UNCHANGED <<idOf, lastId, holding, posted>>
    BY <1>22 DEF Timeout
  <2>. QED
    BY <1>0, <2>1
<1>23. ASSUME SpuriousWake PROVE IdInv'
  <2>1. UNCHANGED <<idOf, lastId, holding, posted>>
    BY <1>23 DEF SpuriousWake
  <2>. QED
    BY <1>0, <2>1
<1>24. ASSUME NotifyAll PROVE IdInv'
  <2>1. UNCHANGED <<idOf, lastId, holding, posted>>
    BY <1>24 DEF NotifyAll
  <2>. QED
    BY <1>0, <2>1
<1>25. ASSUME StopPool PROVE IdInv'
  <2>1. UNCHANGED <<idOf, lastId, holding, posted>>
    BY <1>25 DEF StopPool
  <2>. QED
    BY <1>0, <2>1
<1>26. ASSUME Exit PROVE IdInv'
  <2>1. UNCHANGED <<idOf, lastId, holding, posted>>
    BY <1>26 DEF Exit
  <2>. QED
    BY <1>0, <2>1
<1>27. CASE UNCHANGED vars
  BY <1>27 DEF vars
<1>. QED
  BY <1>1, <1>2, <1>3, <1>4, <1>5, <1>6, <1>7, <1>8, <1>9, <1>10, <1>11, <1>12, <1>13, <1>14, <1>15, <1>16, <1>17, <1>18, <1>19, <1>20, <1>21, <1>22, <1>23, <1>24, <1>25, <1>26, <1>27
  DEF Next, LoopStep, Post, ThreadStep, PoolStep

(* The step that moves an event takes it out of one place and puts it into *)
(* one other: each action says which places change, and by what.           *)
LEMMA NextOwnership ==
    TypeOK /\ PhaseInv /\ IdInv /\ NoneLost /\ HeldOnce /\ [Next]_vars
        => NoneLost' /\ HeldOnce'
<1> SUFFICES ASSUME TypeOK, PhaseInv, IdInv, NoneLost, HeldOnce, [Next]_vars
             PROVE  NoneLost' /\ HeldOnce'
  OBVIOUS
<1> USE ThreadAssumption, EventAssumption
<1> USE DEF ThreadAssumption, EventAssumption, TypeOK, EventOrNone, Events,
            inbox, main, ids, loop, history
<1>1. ASSUME NEW t \in Threads, NEW e \in Events, AddEvent(t, e) PROVE NoneLost' /\ HeldOnce'
  <2> USE <1>1 DEF AddEvent, MayPost
  <2>1. \A u \in Threads : Inbox(u)' = IF u = t THEN Inbox(u) \cup {e} ELSE Inbox(u)
    BY RangeAppend DEF Inbox, Unregistered
  <2>2. Merged' = Merged /\ Running' = Running
        /\ running' = running /\ gone' = gone
    BY DEF Merged, Running
  <2>3. e \notin posted /\ posted' = posted \cup {e}
        /\ serial' = serial /\ batch' = batch /\ mine' = mine
    OBVIOUS
  <2>4. \A u \in Threads : IsInjective(queue'[u])
    BY <2>3, RangeAppend DEF HeldOnce, NoneLost, Inbox
  <2> HIDE <1>1 DEF AddEvent, MayPost, TypeOK, ThreadAssumption, EventAssumption, EventOrNone, Events
  <2>8. NoneLost'
    BY <2>1, <2>2, <2>3, <2>4 DEF NoneLost
  <2>9. HeldOnce'
    BY <2>1, <2>2, <2>3, <2>4 DEF NoneLost, HeldOnce
  <2>. QED
    BY <2>8, <2>9
<1>2. ASSUME NEW t \in Threads, NEW e \in Events, AsyncEvent(t, e) PROVE NoneLost' /\ HeldOnce'
  <2> USE <1>2 DEF AsyncEvent, MayPost
  <2>1. \A u \in Threads : Inbox(u)' = IF u = t THEN Inbox(u) \cup {e} ELSE Inbox(u)
    BY DEF Inbox, Unregistered
  <2>2. Merged' = Merged /\ Running' = Running
        /\ running' = running /\ gone' = gone
    BY DEF Merged, Running
  <2>3. e \notin posted /\ posted' = posted \cup {e}
        /\ serial' = serial /\ batch' = batch /\ mine' = mine /\ queue' = queue
    OBVIOUS
  <2> HIDE <1>2 DEF AsyncEvent, MayPost, TypeOK, ThreadAssumption, EventAssumption, EventOrNone, Events
  <2>8. NoneLost'
    BY <2>1, <2>2, <2>3 DEF NoneLost
  <2>9. HeldOnce'
    BY <2>1, <2>2, <2>3 DEF NoneLost, HeldOnce
  <2>. QED
    BY <2>8, <2>9
<1>3. ASSUME NEW t \in Threads, NEW e \in Events, TakeId(t, e) PROVE NoneLost' /\ HeldOnce'
  <2> USE <1>3 DEF TakeId, MayPost
  <2>1. \A u \in Threads : Inbox(u)' = IF u = t THEN Inbox(u) \cup {e} ELSE Inbox(u)
    BY DEF Inbox, Unregistered, IdInv
  <2>2. Merged' = Merged /\ Running' = Running
        /\ running' = running /\ gone' = gone
    BY DEF Merged, Running
  <2>3. e \notin posted /\ posted' = posted \cup {e}
        /\ serial' = serial /\ batch' = batch /\ mine' = mine /\ queue' = queue
    OBVIOUS
  <2> HIDE <1>3 DEF TakeId, MayPost, TypeOK, ThreadAssumption, EventAssumption, EventOrNone, Events
  <2>8. NoneLost'
    BY <2>1, <2>2, <2>3 DEF NoneLost
  <2>9. HeldOnce'
    BY <2>1, <2>2, <2>3 DEF NoneLost, HeldOnce
  <2>. QED
    BY <2>8, <2>9
<1>4. ASSUME NEW t \in Threads, ScheduleEvent(t) PROVE NoneLost' /\ HeldOnce'
  <2> USE <1>4 DEF ScheduleEvent
  <2>1. lastId # 0 /\ holding[t] \in Unregistered(t)
    BY DEF IdInv, Unregistered
  <2>2. \A u \in Threads \ {t} : holding[t] \notin Unregistered(u)
    BY <2>1 DEF HeldOnce, Inbox
  <2>3. \A u \in Threads : Inbox(u)' = Inbox(u)
    BY <2>1, <2>2 DEF Inbox, Unregistered
  <2>4. Merged' = Merged /\ Running' = Running
    BY DEF Merged, Running
  <2>. QED
    BY <2>3, <2>4 DEF NoneLost, HeldOnce
<1>5. ASSUME NEW t \in Threads, Notify(t) PROVE NoneLost' /\ HeldOnce'
  <2> USE <1>5 DEF Notify
  <2>1. \A u \in Threads : Inbox(u)' = Inbox(u)
    BY DEF Inbox, Unregistered
  <2>2. Merged' = Merged /\ Running' = Running
    BY DEF Merged, Running
  <2>. QED
    BY <2>1, <2>2 DEF NoneLost, HeldOnce
<1>6. ASSUME NEW e \in TimedEvents, StopEvent(e) PROVE NoneLost' /\ HeldOnce'
  <2> USE <1>6 DEF StopEvent
  <2>1. \A u \in Threads : Inbox(u)' = Inbox(u)
    BY DEF Inbox, Unregistered
  <2>2. Merged' = Merged /\ Running' = Running
    BY DEF Merged, Running
  <2>. QED
    BY <2>1, <2>2 DEF NoneLost, HeldOnce
<1>7. ASSUME NEW d \in 0..MaxStep, UpdateTime(d) PROVE NoneLost' /\ HeldOnce'
  <2> USE <1>7 DEF UpdateTime
  <2>1. \A u \in Threads : Inbox(u)' = Inbox(u)
    BY DEF Inbox, Unregistered
  <2>2. Merged' = Merged /\ Running' = Running
    BY DEF Merged, Running
  <2>. QED
    BY <2>1, <2>2 DEF NoneLost, HeldOnce
<1>8. ASSUME BeginSerial PROVE NoneLost' /\ HeldOnce'
  <2> USE <1>8 DEF BeginSerial
  <2> DEFINE e == Head(serial)
  <2>1. e \in SerialEvents /\ Range(serial) = {e} \cup Range(serial')
        /\ e \notin Range(serial') /\ IsInjective(serial')
    BY RangeTail DEF HeldOnce
  <2>2. \A u \in Threads : Inbox(u)' = Inbox(u)
    BY DEF Inbox, Unregistered
  <2>3. Merged' = Merged \ {e} /\ e \in Merged
    BY <2>1 DEF Merged
  <2>4. CASE Expired(e)
    <3>1. gone' = gone \cup {e} /\ running' = running
      BY <2>4
    <3>. QED
      BY <2>1, <2>2, <2>3, <3>1 DEF NoneLost, HeldOnce, Running
  <2>5. CASE ~Expired(e)
    <3>1. gone' = gone /\ running' = [running EXCEPT ![Main] = e]
      BY <2>5
    <3>2. Running' = Running \cup {e}
      BY <2>1, <3>1 DEF Running
    <3>. QED
      BY <2>1, <2>2, <2>3, <3>1, <3>2 DEF NoneLost, HeldOnce, Running
  <2>. QED
    BY <2>4, <2>5
<1>9. ASSUME EndSerial PROVE NoneLost' /\ HeldOnce'
  <2> USE <1>9 DEF EndSerial
  <2>1. \A u \in Threads : Inbox(u)' = Inbox(u)
    BY DEF Inbox, Unregistered
  <2>2. Merged' = Merged /\ Running' = Running
    BY DEF Merged, Running
  <2>. QED
    BY <2>1, <2>2 DEF NoneLost, HeldOnce
<1>10. ASSUME NEW e \in sched, BeginTimed(e) PROVE NoneLost' /\ HeldOnce'
  <2> USE <1>10 DEF BeginTimed
  <2>1. \A u \in Threads : Inbox(u)' = Inbox(u)
    BY DEF Inbox, Unregistered
  <2>2. Merged' = Merged \ {e} /\ e \in Merged
    BY DEF Merged, Range
  <2>3. CASE e \in cancelled
    <3>1. gone' = gone \cup {e} /\ running' = running
      BY <2>3
    <3>. QED
      BY <2>1, <2>2, <3>1 DEF NoneLost, HeldOnce, Running
  <2>4. CASE e \notin cancelled
    <3>1. gone' = gone /\ running' = [running EXCEPT ![Main] = e]
      BY <2>4
    <3>2. Running' = Running \cup {e}
      BY <3>1 DEF Running
    <3>. QED
      BY <2>1, <2>2, <3>1, <3>2 DEF NoneLost, HeldOnce, Running
  <2>. QED
    BY <2>3, <2>4
<1>11. ASSUME EndTimed PROVE NoneLost' /\ HeldOnce'
  <2> USE <1>11 DEF EndTimed
  <2>1. \A u \in Threads : Inbox(u)' = Inbox(u)
    BY DEF Inbox, Unregistered
  <2>2. Merged' = Merged /\ Running' = Running
    BY DEF Merged, Running
  <2>. QED
    BY <2>1, <2>2 DEF NoneLost, HeldOnce
<1>12. ASSUME NEW t \in Threads, EndBody(t) PROVE NoneLost' /\ HeldOnce'
  <2> USE <1>12 DEF EndBody
  <2> DEFINE e == running[t]
  <2>1. e \in Running /\ Running' = Running \ {e}
    BY DEF Running, HeldOnce
  <2>2. Merged' = Merged /\ queue' = queue /\ posted' = posted
    BY DEF Merged
  <2>3. CASE e \in CycleEvents
    <3>1. \A u \in Threads : Inbox(u)' = IF u = t THEN Inbox(u) \cup {e} ELSE Inbox(u)
      BY <2>3 DEF Inbox, Unregistered
    <3>2. /\ gone' = gone /\ serial' = serial /\ batch' = batch /\ mine' = mine
          /\ running' = [running EXCEPT ![t] = NoEvent]
      BY <2>3
    <3>3. \A u, w \in Threads :
             running'[u] = running'[w] => u = w \/ running'[u] = NoEvent
      BY <3>2 DEF HeldOnce
    <3> HIDE <1>12 DEF EndBody, e, TypeOK, EventAssumption, ThreadAssumption
    <3>4. NoneLost'
      BY <2>1, <2>2, <3>1, <3>2 DEF NoneLost
    <3>. QED
      BY <2>1, <2>2, <3>1, <3>2, <3>3, <3>4 DEF HeldOnce
  <2>4. CASE e \notin CycleEvents
    <3>1. \A u \in Threads : Inbox(u)' = Inbox(u)
      BY <2>4 DEF Inbox, Unregistered
    <3>2. gone' = gone \cup {e}
      BY <2>4
    <3>. QED
      BY <2>1, <2>2, <3>1, <3>2 DEF NoneLost, HeldOnce
  <2>. QED
    BY <2>3, <2>4
<1>13. ASSUME NEW t \in Threads, MergeAsync(t) PROVE NoneLost' /\ HeldOnce'
  <2> USE <1>13 DEF MergeAsync
  <2>1. \A u \in Threads : Inbox(u)' = IF u = t THEN Inbox(u) \ asyncQueue[t] ELSE Inbox(u)
    BY DEF Inbox, Unregistered, Range
  <2>2. Merged' = Merged \cup asyncQueue[t] /\ Running' = Running
        /\ running' = running /\ gone' = gone /\ posted' = posted
    BY DEF Merged, Running
  <2>3. asyncQueue[t] \subseteq Inbox(t)
    BY DEF Inbox
  <2>4. batch' \cap mine' = {} /\ queue' = queue /\ serial' = serial
    BY DEF PhaseInv
  <2> HIDE <1>13 DEF MergeAsync, TypeOK, ThreadAssumption, EventAssumption, EventOrNone, Events
  <2>8. NoneLost'
    BY <2>1, <2>2, <2>3, <2>4 DEF NoneLost
  <2>9. HeldOnce'
    BY <2>1, <2>2, <2>3, <2>4 DEF NoneLost, HeldOnce
  <2>. QED
    BY <2>8, <2>9
<1>14. ASSUME StartParallel PROVE NoneLost' /\ HeldOnce'
  <2> USE <1>14 DEF StartParallel, LeavePhase
  <2>1. \A u \in Threads : Inbox(u)' = Inbox(u)
    BY DEF Inbox, Unregistered
  <2>2. Merged' = Merged /\ Running' = Running /\ batch' \cap mine' = {}
    BY DEF Merged, Running, PhaseInv
  <2>. QED
    BY <2>1, <2>2 DEF NoneLost, HeldOnce
<1>15. ASSUME NEW e \in mine, BeginMine(e) PROVE NoneLost' /\ HeldOnce'
  <2> USE <1>15 DEF BeginMine
  <2>1. \A u \in Threads : Inbox(u)' = Inbox(u)
    BY DEF Inbox, Unregistered
  <2>2. Merged' = Merged \ {e} /\ e \in Merged
    BY DEF Merged, Range, HeldOnce
  <2>3. Running' = Running \cup {e}
    BY DEF Running
  <2>. QED
    BY <2>1, <2>2, <2>3 DEF NoneLost, HeldOnce, Running
<1>16. ASSUME NEW t \in Threads, NEW e \in batch, BeginTheirs(t, e) PROVE NoneLost' /\ HeldOnce'
  <2> USE <1>16 DEF BeginTheirs
  <2>1. \A u \in Threads : Inbox(u)' = Inbox(u)
    BY DEF Inbox, Unregistered
  <2>2. Merged' = Merged \ {e} /\ e \in Merged
    BY DEF Merged, Range, HeldOnce
  <2>3. Running' = Running \cup {e}
    BY DEF Running
  <2>. QED
    BY <2>1, <2>2, <2>3 DEF NoneLost, HeldOnce, Running
<1>17. ASSUME EndParallel PROVE NoneLost' /\ HeldOnce'
  <2> USE <1>17 DEF EndParallel, LeavePhase
  <2>1. \A u \in Threads : Inbox(u)' = Inbox(u)
    BY DEF Inbox, Unregistered
  <2>2. Merged' = Merged /\ Running' = Running
    BY DEF Merged, Running
  <2>. QED
    BY <2>1, <2>2 DEF NoneLost, HeldOnce
<1>18. ASSUME NEW t \in Threads, Merge(t) PROVE NoneLost' /\ HeldOnce'
  <2> USE <1>18 DEF Merge
  <2> DEFINE m == Range(queue[t]) \cup timed[t]
  <2>1. /\ Range(serial') = Range(serial) \cup Range(queue[t])
        /\ IsInjective(serial') /\ batch' = batch /\ mine' = mine
    BY RangeConcat DEF HeldOnce, Inbox, Merged
  <2>2. \A u \in Threads : IsInjective(queue'[u])
    BY RangeEmpty DEF HeldOnce
  <2>3. m \subseteq Inbox(t) /\ Unregistered(t) \cap m = {}
    BY DEF Inbox, Unregistered, Range
  <2>4. \A u \in Threads : Inbox(u)' = IF u = t THEN Inbox(u) \ m ELSE Inbox(u)
    BY <2>3, RangeEmpty DEF Inbox, Unregistered, Range
  <2>5. Merged' = Merged \cup m /\ Running' = Running
        /\ running' = running /\ gone' = gone /\ posted' = posted
    BY <2>1 DEF Merged, Running
  <2> HIDE <1>18 DEF Merge, TypeOK, ThreadAssumption, EventAssumption, EventOrNone, Events
  <2>8. NoneLost'
    BY <2>1, <2>2, <2>3, <2>4, <2>5 DEF NoneLost
  <2>9. HeldOnce'
    BY <2>1, <2>2, <2>3, <2>4, <2>5 DEF NoneLost, HeldOnce
  <2>. QED
    BY <2>8, <2>9
<1>19. ASSUME CheckPending PROVE NoneLost' /\ HeldOnce'
  <2> USE <1>19 DEF CheckPending
  <2>1. \A u \in Threads : Inbox(u)' = Inbox(u)
    BY DEF Inbox, Unregistered
  <2>2. Merged' = Merged /\ Running' = Running
    BY DEF Merged, Running
  <2>. QED
    BY <2>1, <2>2 DEF NoneLost, HeldOnce
<1>20. ASSUME TestPending PROVE NoneLost' /\ HeldOnce'
  <2> USE <1>20 DEF TestPending
  <2>1. \A u \in Threads : Inbox(u)' = Inbox(u)
    BY DEF Inbox, Unregistered
  <2>2. Merged' = Merged /\ Running' = Running
    BY DEF Merged, Running
  <2>. QED
    BY <2>1, <2>2 DEF NoneLost, HeldOnce
<1>21. ASSUME Sleep PROVE NoneLost' /\ HeldOnce'
  <2> USE <1>21 DEF Sleep
  <2>1. \A u \in Threads : Inbox(u)' = Inbox(u)
    BY DEF Inbox, Unregistered
  <2>2. Merged' = Merged /\ Running' = Running
    BY DEF Merged, Running
  <2>. QED
    BY <2>1, <2>2 DEF NoneLost, HeldOnce
<1>22. ASSUME Timeout PROVE NoneLost' /\ HeldOnce'
  <2> USE <1>22 DEF Timeout
  <2>1. \A u \in Threads : Inbox(u)' = Inbox(u)
    BY DEF Inbox, Unregistered
  <2>2. Merged' = Merged /\ Running' = Running
    BY DEF Merged, Running
  <2>. QED
    BY <2>1, <2>2 DEF NoneLost, HeldOnce
<1>23. ASSUME SpuriousWake PROVE NoneLost' /\ HeldOnce'
  <2> USE <1>23 DEF SpuriousWake
  <2>1. \A u \in Threads : Inbox(u)' = Inbox(u)
    BY DEF Inbox, Unregistered
  <2>2. Merged' = Merged /\ Running' = Running
    BY DEF Merged, Running
  <2>. QED
    BY <2>1, <2>2 DEF NoneLost, HeldOnce
<1>24. ASSUME NotifyAll PROVE NoneLost' /\ HeldOnce'
  <2> USE <1>24 DEF NotifyAll
  <2>1. \A u \in Threads : Inbox(u)' = Inbox(u)
    BY DEF Inbox, Unregistered
  <2>2. Merged' = Merged /\ Running' = Running
    BY DEF Merged, Running
  <2>. QED
    BY <2>1, <2>2 DEF NoneLost, HeldOnce
<1>25. ASSUME StopPool PROVE NoneLost' /\ HeldOnce'
  <2> USE <1>25 DEF StopPool
  <2>1. \A u \in Threads : Inbox(u)' = Inbox(u)
    BY DEF Inbox, Unregistered
  <2>2. Merged' = Merged /\ Running' = Running
    BY DEF Merged, Running
  <2>. QED
    BY <2>1, <2>2 DEF NoneLost, HeldOnce
<1>26. ASSUME Exit PROVE NoneLost' /\ HeldOnce'
  <2> USE <1>26 DEF Exit
  <2>1. \A u \in Threads : Inbox(u)' = Inbox(u)
    BY DEF Inbox, Unregistered
  <2>2. Merged' = Merged /\ Running' = Running
    BY DEF Merged, Running
  <2>. QED
    BY <2>1, <2>2 DEF NoneLost, HeldOnce
<1>27. CASE UNCHANGED vars
  BY <1>27 DEF vars, NoneLost, HeldOnce, Inbox, Unregistered, Merged, Running
<1>. QED
  BY <1>1, <1>2, <1>3, <1>4, <1>5, <1>6, <1>7, <1>8, <1>9, <1>10, <1>11, <1>12, <1>13, <1>14, <1>15, <1>16, <1>17, <1>18, <1>19, <1>20, <1>21, <1>22, <1>23, <1>24, <1>25, <1>26, <1>27
  DEF Next, LoopStep, Post, ThreadStep, PoolStep

(* No posted event is lost, and none is in two places: none executes       *)
(* twice.  The invariant behind it adds what the loop and the posters know *)
(* at each place (PhaseInv, IdInv).                                        *)
THEOREM Ownership == Spec => [](NoneLost /\ HeldOnce)
<1> DEFINE IInv == TypeOK /\ PhaseInv /\ IdInv /\ NoneLost /\ HeldOnce
<1>1. Init => IInv
  <2> SUFFICES ASSUME Init PROVE IInv
    OBVIOUS
  <2> USE ThreadAssumption, EventAssumption DEF ThreadAssumption, EventAssumption, Init
  <2>1. PhaseInv /\ IdInv
    BY DEF PhaseInv, Workers, IdInv, Unregistered
  <2>2. \A t \in Threads : Inbox(t) = {}
    BY RangeEmpty DEF Inbox, Unregistered
  <2>3. Merged = CycleEvents /\ Running = {}
    BY RangeEmpty DEF Merged, Running
  <2>4. NoneLost
    BY <2>2, <2>3 DEF NoneLost
  <2>5. HeldOnce
    BY <2>2, <2>3, RangeEmpty DEF HeldOnce
  <2>. QED
    BY <2>1, <2>4, <2>5, InitType
<1>2. IInv /\ [Next]_vars => IInv'
  BY NextType, NextPhase, NextIds, NextOwnership
<1>. QED
  BY <1>1, <1>2, PTL DEF Spec

(* The half of Ownership that lets no event be executed twice: each is in  *)
(* one queue or list or with one thread, across merges and phases.         *)
THEOREM ExecutedOnce == Spec => []HeldOnce
<1>1. NoneLost /\ HeldOnce => HeldOnce
  OBVIOUS
<1>. QED
  BY <1>1, Ownership, PTL

---------------------------------------------------------------------------
(* What is left of the merged lists at each place of a pass.               *)
SleepInv ==
    /\ pc \notin {"mergeAsync", "parallel"} => batch = {}
    /\ pc \in {"timed", "mergeAsync", "parallel", "wait", "asleep"} => serial = <<>>
    /\ pc = "test" => pending \/ serial = <<>>

(* Every step keeps what SleepInv says of the merged lists.                *)
LEMMA NextSleep == TypeOK /\ SleepInv /\ [Next]_vars => SleepInv'
<1> SUFFICES ASSUME TypeOK, SleepInv, [Next]_vars PROVE SleepInv'
  OBVIOUS
<1> USE DEF TypeOK, SleepInv, inbox, main, ids, loop, history
<1>1. ASSUME NEW t \in Threads, NEW e \in Events, AddEvent(t, e) PROVE SleepInv'
  BY <1>1 DEF AddEvent
<1>2. ASSUME NEW t \in Threads, NEW e \in Events, AsyncEvent(t, e) PROVE SleepInv'
  BY <1>2 DEF AsyncEvent
<1>3. ASSUME NEW t \in Threads, NEW e \in Events, TakeId(t, e) PROVE SleepInv'
  BY <1>3 DEF TakeId
<1>4. ASSUME NEW t \in Threads, ScheduleEvent(t) PROVE SleepInv'
  BY <1>4 DEF ScheduleEvent
<1>5. ASSUME NEW t \in Threads, Notify(t) PROVE SleepInv'
  BY <1>5 DEF Notify, Awake
<1>6. ASSUME NEW e \in TimedEvents, StopEvent(e) PROVE SleepInv'
  BY <1>6 DEF StopEvent
<1>7. ASSUME NEW d \in 0..MaxStep, UpdateTime(d) PROVE SleepInv'
  BY <1>7 DEF UpdateTime
<1>8. ASSUME BeginSerial PROVE SleepInv'
  BY <1>8 DEF BeginSerial
<1>9. ASSUME EndSerial PROVE SleepInv'
  BY <1>9 DEF EndSerial
<1>10. ASSUME NEW e \in sched, BeginTimed(e) PROVE SleepInv'
  BY <1>10 DEF BeginTimed
<1>11. ASSUME EndTimed PROVE SleepInv'
  BY <1>11 DEF EndTimed
<1>12. ASSUME NEW t \in Threads, EndBody(t) PROVE SleepInv'
  BY <1>12 DEF EndBody
<1>13. ASSUME NEW t \in Threads, MergeAsync(t) PROVE SleepInv'
  BY <1>13 DEF MergeAsync
<1>14. ASSUME StartParallel PROVE SleepInv'
  BY <1>14 DEF StartParallel, LeavePhase
<1>15. ASSUME NEW e \in mine, BeginMine(e) PROVE SleepInv'
  BY <1>15 DEF BeginMine
<1>16. ASSUME NEW t \in Threads, NEW e \in batch, BeginTheirs(t, e) PROVE SleepInv'
  BY <1>16 DEF BeginTheirs
<1>17. ASSUME EndParallel PROVE SleepInv'
  BY <1>17 DEF EndParallel, LeavePhase
<1>18. ASSUME NEW t \in Threads, Merge(t) PROVE SleepInv'
  BY <1>18 DEF Merge
<1>19. ASSUME CheckPending PROVE SleepInv'
  BY <1>19 DEF CheckPending
<1>20. ASSUME TestPending PROVE SleepInv'
  BY <1>20 DEF TestPending
<1>21. ASSUME Sleep PROVE SleepInv'
  BY <1>21 DEF Sleep
<1>22. ASSUME Timeout PROVE SleepInv'
  BY <1>22 DEF Timeout
<1>23. ASSUME SpuriousWake PROVE SleepInv'
  BY <1>23 DEF SpuriousWake
<1>24. ASSUME NotifyAll PROVE SleepInv'
  BY <1>24 DEF NotifyAll, Awake
<1>25. ASSUME StopPool PROVE SleepInv'
  BY <1>25 DEF StopPool
<1>26. ASSUME Exit PROVE SleepInv'
  BY <1>26 DEF Exit
<1>27. CASE UNCHANGED vars
  BY <1>27 DEF vars
<1>. QED
  BY <1>1, <1>2, <1>3, <1>4, <1>5, <1>6, <1>7, <1>8, <1>9, <1>10, <1>11, <1>12, <1>13, <1>14, <1>15, <1>16, <1>17, <1>18, <1>19, <1>20, <1>21, <1>22, <1>23, <1>24, <1>25, <1>26, <1>27
  DEF Next, LoopStep, Post, ThreadStep, PoolStep

(* The loop never sleeps over an event that it has merged itself.          *)
THEOREM MergedEventsKeepItAwake == Spec => []NoSleepOverMerged
<1>1. Init => PhaseInv /\ SleepInv
  BY ThreadAssumption, EventAssumption
  DEF ThreadAssumption, Init, PhaseInv, Workers, SleepInv
<1>2. TypeOK /\ PhaseInv /\ SleepInv => NoSleepOverMerged
  BY ThreadAssumption
  DEF ThreadAssumption, PhaseInv, SleepInv, NoSleepOverMerged, Running, Workers
<1>. QED
  BY <1>1, <1>2, TypeCorrect, NextPhase, NextSleep, PTL DEF Spec

---------------------------------------------------------------------------
(* Until the asynchronous event of a promise has ended, its completion     *)
(* waits in the dispatcher's own inbox, and the loop has a parallel phase  *)
(* to go before it merges that inbox.                                      *)
Promised(a, s) ==
    /\ s \in Range(queue[Main])
    /\ a \in asyncQueue[Main] \cup batch \cup mine \cup Running
    /\ pc \in {"serial", "mergeAsync", "parallel", "timed"}
    /\ a \in asyncQueue[Main] =>
          pc \in {"serial", "timed"} \/ stage = "events" \/ (pc = "mergeAsync" /\ Main \in toMerge)

PromiseInv ==
    \A a \in AsyncEvents, s \in SerialEvents :
        <<a, s>> \in promised => a \in gone \/ Promised(a, s)

(* Every step keeps what PromiseInv says of the two.                       *)
LEMMA NextPromise ==
    TypeOK /\ PhaseInv /\ NoneLost /\ PromiseInv /\ [Next]_vars => PromiseInv'
<1> SUFFICES ASSUME TypeOK, PhaseInv, NoneLost, PromiseInv, [Next]_vars PROVE PromiseInv'
  OBVIOUS
<1> USE ThreadAssumption, EventAssumption
<1> USE DEF ThreadAssumption, EventAssumption, TypeOK, PhaseInv, PromiseInv, Promised, Running,
            EventOrNone, Events, Workers, inbox, main, ids, loop, history
<1>1. ASSUME NEW t \in Threads, NEW e \in Events, AddEvent(t, e) PROVE PromiseInv'
  <2> USE <1>1 DEF AddEvent, MayPost
  <2> SUFFICES ASSUME NEW a \in AsyncEvents, NEW s \in SerialEvents, <<a, s>> \in promised'
               PROVE  a \in gone \/ Promised(a, s)'
    BY DEF Promised
  <2>1. Range(queue[Main]) \subseteq Range(queue'[Main])
    BY RangeAppend
  <2>2. CASE <<a, s>> \in promised
    BY <2>1, <2>2
  <2>3. CASE <<a, s>> \notin promised
    <3>1. t = Main /\ running[Main] \notin AsyncEvents /\ a \in asyncQueue[Main] /\ s = e
      BY <2>3
    <3>2. s \in Range(queue'[Main])
      BY <3>1, RangeAppend
    <3>. QED
      BY <3>1, <3>2
  <2>. QED
    BY <2>2, <2>3
<1>2. ASSUME NEW t \in Threads, NEW e \in Events, AsyncEvent(t, e) PROVE PromiseInv'
  <2>1. asyncQueue[Main] \cup batch \cup mine \cup Running \subseteq posted
    BY DEF NoneLost, Inbox, Merged
  <2>2. e \notin posted /\ asyncQueue'[Main] \subseteq asyncQueue[Main] \cup {e}
        /\ asyncQueue[Main] \subseteq asyncQueue'[Main]
    BY <1>2 DEF AsyncEvent, MayPost
  <2>. QED
    BY <1>2, <2>1, <2>2 DEF AsyncEvent
<1>3. ASSUME NEW t \in Threads, NEW e \in Events, TakeId(t, e) PROVE PromiseInv'
  BY <1>3 DEF TakeId
<1>4. ASSUME NEW t \in Threads, ScheduleEvent(t) PROVE PromiseInv'
  BY <1>4 DEF ScheduleEvent
<1>5. ASSUME NEW t \in Threads, Notify(t) PROVE PromiseInv'
  BY <1>5 DEF Notify, Awake
<1>6. ASSUME NEW e \in TimedEvents, StopEvent(e) PROVE PromiseInv'
  BY <1>6 DEF StopEvent
<1>7. ASSUME NEW d \in 0..MaxStep, UpdateTime(d) PROVE PromiseInv'
  BY <1>7 DEF UpdateTime
<1>8. ASSUME BeginSerial PROVE PromiseInv'
  BY <1>8 DEF BeginSerial
<1>9. ASSUME EndSerial PROVE PromiseInv'
  BY <1>9 DEF EndSerial
<1>10. ASSUME NEW e \in sched, BeginTimed(e) PROVE PromiseInv'
  BY <1>10 DEF BeginTimed
<1>11. ASSUME EndTimed PROVE PromiseInv'
  BY <1>11 DEF EndTimed
<1>12. ASSUME NEW t \in Threads, EndBody(t) PROVE PromiseInv'
  BY <1>12 DEF EndBody
<1>13. ASSUME NEW t \in Threads, MergeAsync(t) PROVE PromiseInv'
  <2> USE <1>13 DEF MergeAsync
  <2>1. asyncQueue'[Main] \cup batch' = (IF t = Main THEN {} ELSE asyncQueue[Main]) \cup batch \cup asyncQueue[t]
    OBVIOUS
  <2>2. asyncQueue'[Main] = IF t = Main THEN {} ELSE asyncQueue[Main]
    OBVIOUS
  <2>3. ASSUME NEW a \in AsyncEvents, NEW s \in SerialEvents, Promised(a, s) PROVE Promised(a, s)'
    BY <2>1, <2>2, <2>3
  <2>. QED
    BY <2>3
<1>14. ASSUME StartParallel PROVE PromiseInv'
  <2> USE <1>14 DEF StartParallel, LeavePhase
  <2> SUFFICES ASSUME NEW a \in AsyncEvents, NEW s \in SerialEvents, Promised(a, s) PROVE Promised(a, s)'
    OBVIOUS
  <2>1. Running' = {} /\ Running = {} /\ mine = {}
    OBVIOUS
  <2>2. a \in asyncQueue[Main] \cup batch /\ batch \subseteq batch' \cup mine'
    BY <2>1
  <2>3. s \in Range(queue'[Main])
    OBVIOUS
  <2>4. a \in asyncQueue[Main] => stage' = "events"
    OBVIOUS
  <2>5. pc' \in {"timed", "parallel"}
    BY <2>2, <2>4
  <2>. QED
    BY <2>2, <2>3, <2>4, <2>5
<1>15. ASSUME NEW e \in mine, BeginMine(e) PROVE PromiseInv'
  BY <1>15 DEF BeginMine
<1>16. ASSUME NEW t \in Threads, NEW e \in batch, BeginTheirs(t, e) PROVE PromiseInv'
  BY <1>16 DEF BeginTheirs
<1>17. ASSUME EndParallel PROVE PromiseInv'
  BY <1>17 DEF EndParallel, LeavePhase
<1>18. ASSUME NEW t \in Threads, Merge(t) PROVE PromiseInv'
  BY <1>18 DEF Merge
<1>19. ASSUME CheckPending PROVE PromiseInv'
  BY <1>19 DEF CheckPending
<1>20. ASSUME TestPending PROVE PromiseInv'
  BY <1>20 DEF TestPending
<1>21. ASSUME Sleep PROVE PromiseInv'
  BY <1>21 DEF Sleep
<1>22. ASSUME Timeout PROVE PromiseInv'
  BY <1>22 DEF Timeout
<1>23. ASSUME SpuriousWake PROVE PromiseInv'
  BY <1>23 DEF SpuriousWake
<1>24. ASSUME NotifyAll PROVE PromiseInv'
  BY <1>24 DEF NotifyAll, Awake
<1>25. ASSUME StopPool PROVE PromiseInv'
  BY <1>25 DEF StopPool
<1>26. ASSUME Exit PROVE PromiseInv'
  BY <1>26 DEF Exit
<1>27. CASE UNCHANGED vars
  BY <1>27 DEF vars
<1>. QED
  BY <1>1, <1>2, <1>3, <1>4, <1>5, <1>6, <1>7, <1>8, <1>9, <1>10, <1>11, <1>12, <1>13, <1>14, <1>15, <1>16, <1>17, <1>18, <1>19, <1>20, <1>21, <1>22, <1>23, <1>24, <1>25, <1>26, <1>27
  DEF Next, LoopStep, Post, ThreadStep, PoolStep

(* A completion starts only when the asynchronous event that its poster    *)
(* posted before it has ended.  PromiseInv says where the two are until    *)
(* then; NoneLost and HeldOnce that they are nowhere else.                 *)
THEOREM CompletionsWait == Spec => []CompletionAfterAsync
<1>1. Init => PhaseInv /\ PromiseInv
  BY ThreadAssumption, EventAssumption DEF ThreadAssumption, Init, PhaseInv, Workers, PromiseInv
<1>2. TypeOK /\ PhaseInv /\ (NoneLost /\ HeldOnce) /\ PromiseInv => CompletionAfterAsync
  <2> SUFFICES ASSUME TypeOK, HeldOnce, PromiseInv, NEW p \in promised, p[2] \in Begun
               PROVE  p[1] \in gone
    BY DEF CompletionAfterAsync
  <2>1. p \in AsyncEvents \X SerialEvents
    BY DEF TypeOK
  <2>2. p[1] \in AsyncEvents /\ p[2] \in SerialEvents /\ p = <<p[1], p[2]>>
    BY <2>1
  <2>3. p[2] \notin Range(queue[Main])
    BY ThreadAssumption DEF ThreadAssumption, HeldOnce, Inbox, Begun
  <2>. QED
    BY <2>2, <2>3 DEF PromiseInv, Promised
<1>3. TypeOK /\ PhaseInv /\ (NoneLost /\ HeldOnce) /\ PromiseInv /\ [Next]_vars => PromiseInv'
  BY NextPromise
<1>. QED
  BY <1>1, <1>2, <1>3, TypeCorrect, NextPhase, Ownership, PTL DEF Spec

---------------------------------------------------------------------------
(* The order of the events of one thread: x was posted before y.           *)
Before(q, x, y) == \A i, j \in DOMAIN q : q[i] = x /\ q[j] = y => i < j

(* An event posted last stands behind all others.                          *)
LEMMA BeforeAppend ==
    ASSUME NEW S, NEW q \in Seq(S), NEW e \in S, NEW x, NEW y, e \notin Range(q), x # e,
           y = e \/ Before(q, x, y)
    PROVE  Before(Append(q, e), x, y)
<1> DEFINE r == Append(q, e)
<1>1. /\ DOMAIN r = 1..(Len(q) + 1) /\ DOMAIN q = 1..Len(q) /\ Len(q) \in Nat
      /\ \A i \in 1..Len(q) : r[i] = q[i]
      /\ r[Len(q) + 1] = e
  OBVIOUS
<1> HIDE DEF r
<1>2. \A i \in DOMAIN q : q[i] # e
  BY DEF Range
<1>3. Before(r, x, y)
  BY <1>1, <1>2 DEF Before
<1>. QED
  BY <1>3 DEF r

(* Two queues in order are in order one after the other, unless y is in    *)
(* the first and x in the second.                                          *)
LEMMA BeforeConcat ==
    ASSUME NEW S, NEW q \in Seq(S), NEW r \in Seq(S), NEW x, NEW y,
           Before(q, x, y), Before(r, x, y), ~ (y \in Range(q) /\ x \in Range(r))
    PROVE  Before(q \o r, x, y)
<1> DEFINE c == q \o r
<1>1. /\ DOMAIN c = 1..(Len(q) + Len(r)) /\ Len(q) \in Nat /\ Len(r) \in Nat
      /\ DOMAIN q = 1..Len(q) /\ DOMAIN r = 1..Len(r)
      /\ \A i \in 1..Len(q) : c[i] = q[i]
      /\ \A i \in DOMAIN c \ (1..Len(q)) : c[i] = r[i - Len(q)]
  OBVIOUS
<1> HIDE DEF c
<1> SUFFICES ASSUME NEW i \in DOMAIN c, NEW j \in DOMAIN c, c[i] = x, c[j] = y PROVE i < j
  BY DEF Before, c
<1>2. CASE i \in 1..Len(q) /\ j \in 1..Len(q)
  BY <1>1, <1>2 DEF Before
<1>3. CASE i \in 1..Len(q) /\ j \notin 1..Len(q)
  BY <1>1, <1>3
<1>4. CASE i \notin 1..Len(q)
  <2>1. i - Len(q) \in DOMAIN r /\ r[i - Len(q)] = x
    BY <1>1, <1>4
  <2>2. j \notin 1..Len(q)
    BY <1>1, <2>1 DEF Range
  <2>3. j - Len(q) \in DOMAIN r /\ r[j - Len(q)] = y
    BY <1>1, <2>2
  <2>4. i - Len(q) < j - Len(q)
    BY <2>1, <2>3 DEF Before
  <2>. QED
    BY <1>1, <2>4
<1>. QED
  BY <1>2, <1>3, <1>4

(* What is taken from the front has nothing before it.                     *)
LEMMA BeforeTail ==
    ASSUME NEW S, NEW q \in Seq(S), q # <<>>, NEW x, NEW y, Before(q, x, y)
    PROVE  Before(Tail(q), x, y) /\ (y = Head(q) => x \notin Range(q))
<1> DEFINE r == Tail(q)
<1>1. /\ DOMAIN q = 1..Len(q) /\ Len(q) \in Nat \ {0} /\ Head(q) = q[1]
      /\ DOMAIN r = 1..(Len(q) - 1)
      /\ \A i \in 1..(Len(q) - 1) : r[i] = q[i + 1]
  OBVIOUS
<1> HIDE DEF r
<1>2. Before(r, x, y)
  BY <1>1 DEF Before
<1>3. y = Head(q) => x \notin Range(q)
  BY <1>1 DEF Before, Range
<1>. QED
  BY <1>2, <1>3 DEF r

(* Where an event posted by t is, and what it means that x is before y.    *)
Somewhere(t, x) == x \in Range(queue[t]) \cup Range(serial) \cup Begun

Ordered(t, x, y) ==
    /\ Before(queue[t], x, y) /\ Before(serial, x, y)
    /\ y \in Range(serial) => x \notin Range(queue[t])
    /\ y \in Begun => x \in gone

FifoInv ==
    \A t \in Threads : \A i \in DOMAIN sent[t] :
        /\ Somewhere(t, sent[t][i])
        /\ \A j \in DOMAIN sent[t] : i < j => Ordered(t, sent[t][i], sent[t][j])

(* A step that moves no serial event keeps the order.                      *)
LEMMA FifoStays ==
    ASSUME TypeOK, FifoInv, queue' = queue, serial' = serial, sent' = sent,
           Begun' \cap SerialEvents = Begun \cap SerialEvents, gone \subseteq gone'
    PROVE  FifoInv'
<1>1. \A t \in Threads : sent[t] \in Seq(SerialEvents)
  BY DEF TypeOK
<1>2. \A t \in Threads : \A i \in DOMAIN sent[t] : sent[t][i] \in SerialEvents
  BY <1>1
<1>3. \A t \in Threads, x \in SerialEvents : Somewhere(t, x) => Somewhere(t, x)'
  BY DEF Somewhere
<1>4. \A t \in Threads, x \in SerialEvents, y \in SerialEvents : Ordered(t, x, y) => Ordered(t, x, y)'
  BY DEF Ordered
<1>. QED
  BY <1>2, <1>3, <1>4 DEF FifoInv

(* Every step keeps the order.                                             *)
LEMMA NextFifo ==
    TypeOK /\ PhaseInv /\ NoneLost /\ HeldOnce /\ FifoInv /\ [Next]_vars => FifoInv'
<1> SUFFICES ASSUME TypeOK, PhaseInv, NoneLost, HeldOnce, FifoInv, [Next]_vars PROVE FifoInv'
  OBVIOUS
<1> USE ThreadAssumption, EventAssumption
<1> USE DEF ThreadAssumption, EventAssumption, EventOrNone, Events, inbox, main, ids, loop, history
<1>0. \A t \in Threads : /\ sent[t] \in Seq(SerialEvents) /\ queue[t] \in Seq(SerialEvents)
                         /\ \A i \in DOMAIN sent[t] : sent[t][i] \in SerialEvents
  BY DEF TypeOK
<1>1. ASSUME NEW t \in Threads, NEW e \in Events, AddEvent(t, e) PROVE FifoInv'
  <2> USE <1>1 DEF AddEvent, MayPost
  <2>1. /\ e \in SerialEvents /\ e \notin posted /\ serial' = serial /\ Begun' = Begun /\ gone' = gone
        /\ \A u \in Threads \ {t} : queue'[u] = queue[u] /\ sent'[u] = sent[u]
        /\ queue'[t] = Append(queue[t], e) /\ sent'[t] = Append(sent[t], e)
    BY DEF TypeOK, Begun, Running
  <2>2. /\ Range(queue'[t]) = Range(queue[t]) \cup {e}
        /\ e \notin Range(queue[t]) \cup Range(serial) \cup Begun
    BY <1>0, <2>1, RangeAppend DEF NoneLost, Inbox, Merged, Begun
  <2> HIDE <1>1 DEF AddEvent, MayPost
  <2>3. /\ DOMAIN sent'[t] = 1..(Len(sent[t]) + 1) /\ DOMAIN sent[t] = 1..Len(sent[t])
        /\ Len(sent[t]) \in Nat /\ sent'[t][Len(sent[t]) + 1] = e
        /\ \A i \in DOMAIN sent[t] : sent'[t][i] = sent[t][i]
    BY <1>0, <2>1
  <2>4. \A i \in DOMAIN sent[t] : sent[t][i] # e
    BY <2>2 DEF FifoInv, Somewhere
  <2>5. ASSUME NEW u \in Threads, u # t, NEW i \in DOMAIN sent[u]
        PROVE  /\ Somewhere(u, sent[u][i])'
               /\ \A j \in DOMAIN sent[u] : i < j => Ordered(u, sent[u][i], sent[u][j])'
    <3>1. queue'[u] = queue[u] /\ sent'[u] = sent[u]
      BY <2>1, <2>5
    <3>. QED
      BY <2>1, <2>5, <3>1 DEF FifoInv, Somewhere, Ordered
  <2>6. ASSUME NEW x, x = e \/ Somewhere(t, x) PROVE Somewhere(t, x)'
    BY <2>1, <2>2, <2>6 DEF Somewhere
  <2>7. ASSUME NEW x, NEW y, x # e, y = e \/ Ordered(t, x, y) PROVE Ordered(t, x, y)'
    <3>1. Before(queue'[t], x, y)
      BY <1>0, <2>1, <2>2, <2>7, BeforeAppend DEF Ordered
    <3>2. Before(serial', x, y) /\ (y \in Range(serial') => x \notin Range(queue'[t]))
      BY <2>1, <2>2, <2>7 DEF Ordered, Before, Range
    <3>3. y \in Begun' => x \in gone'
      BY <2>1, <2>2, <2>7 DEF Ordered
    <3>. QED
      BY <3>1, <3>2, <3>3 DEF Ordered
  <2>8. ASSUME NEW i \in DOMAIN sent'[t]
        PROVE  /\ Somewhere(t, sent[t][i])'
               /\ \A j \in DOMAIN sent'[t] : i < j => Ordered(t, sent[t][i], sent[t][j])'
    <3>1. sent'[t][i] = e \/ Somewhere(t, sent'[t][i])
      BY <2>3 DEF FifoInv
    <3>2. ASSUME NEW j \in DOMAIN sent'[t], i < j
          PROVE  sent'[t][i] # e /\ (sent'[t][j] = e \/ Ordered(t, sent'[t][i], sent'[t][j]))
      BY <2>3, <2>4, <3>2 DEF FifoInv
    <3>. QED
      BY <2>6, <2>7, <3>1, <3>2
  <2>9. \A u \in Threads \ {t} : sent'[u] = sent[u]
    BY <2>1
  <2>. QED
    BY <2>5, <2>8, <2>9 DEF FifoInv
<1>2. ASSUME NEW t \in Threads, NEW e \in Events, AsyncEvent(t, e) PROVE FifoInv'
  BY <1>2, FifoStays DEF AsyncEvent, Begun, Running
<1>3. ASSUME NEW t \in Threads, NEW e \in Events, TakeId(t, e) PROVE FifoInv'
  BY <1>3, FifoStays DEF TakeId, Begun, Running
<1>4. ASSUME NEW t \in Threads, ScheduleEvent(t) PROVE FifoInv'
  BY <1>4, FifoStays DEF ScheduleEvent, Begun, Running
<1>5. ASSUME NEW t \in Threads, Notify(t) PROVE FifoInv'
  BY <1>5, FifoStays DEF Notify, Begun, Running
<1>6. ASSUME NEW e \in TimedEvents, StopEvent(e) PROVE FifoInv'
  BY <1>6, FifoStays DEF StopEvent, Begun, Running
<1>7. ASSUME NEW d \in 0..MaxStep, UpdateTime(d) PROVE FifoInv'
  BY <1>7, FifoStays DEF UpdateTime, Begun, Running
<1>8. ASSUME BeginSerial PROVE FifoInv'
  <2> DEFINE h == Head(serial)
  <2>1. /\ serial \in Seq(SerialEvents) /\ serial # <<>> /\ serial' = Tail(serial)
        /\ queue' = queue /\ sent' = sent /\ gone \subseteq gone'
    BY <1>8 DEF BeginSerial, TypeOK
  <2>2. Range(serial) = Range(serial') \cup {h}
    BY <2>1, RangeTail
  <2>3. Running = {} /\ Begun' = Begun \cup {h}
    <3>1. Running = {}
      BY <1>8 DEF BeginSerial, PhaseInv, Running, Workers
    <3>2. running \in [Threads -> EventOrNone] /\ h # NoEvent
      BY <2>1 DEF TypeOK
    <3>. QED
      BY <1>8, <3>1, <3>2 DEF BeginSerial, Begun, Running
  <2> HIDE DEF h
  <2>4. ASSUME NEW t \in Threads, NEW x, Somewhere(t, x) PROVE Somewhere(t, x)'
    BY <2>1, <2>2, <2>3, <2>4 DEF Somewhere
  <2>5. ASSUME NEW t \in Threads, NEW x, NEW y, Somewhere(t, x), Ordered(t, x, y)
        PROVE  Ordered(t, x, y)'
    <3>1. Before(serial', x, y) /\ (y = h => x \notin Range(serial))
      BY <2>1, <2>5, BeforeTail DEF Ordered, h
    <3>2. y = h => y \in Range(serial)
      BY <2>2
    <3>3. y = h => x \in gone
      BY <2>3, <2>5, <3>1, <3>2 DEF Ordered, Somewhere, Begun
    <3>4. y \in Begun' => x \in gone'
      BY <2>1, <2>3, <2>5, <3>3 DEF Ordered
    <3>. QED
      BY <2>1, <2>2, <2>5, <3>1, <3>4 DEF Ordered
  <2>. QED
    BY <2>1, <2>4, <2>5 DEF FifoInv
<1>9. ASSUME EndSerial PROVE FifoInv'
  BY <1>9, FifoStays DEF EndSerial, Begun, Running
<1>10. ASSUME NEW e \in sched, BeginTimed(e) PROVE FifoInv'
  BY <1>10, FifoStays DEF BeginTimed, TypeOK, Begun, Running
<1>11. ASSUME EndTimed PROVE FifoInv'
  BY <1>11, FifoStays DEF EndTimed, Begun, Running
<1>12. ASSUME NEW t \in Threads, EndBody(t) PROVE FifoInv'
  <2>1. queue' = queue /\ serial' = serial /\ sent' = sent /\ gone \subseteq gone'
    BY <1>12 DEF EndBody
  <2>2. \A u \in Threads : running'[u] = IF u = t THEN NoEvent ELSE running[u]
    BY <1>12 DEF EndBody, TypeOK
  <2>3. gone' = gone \cup ({running[t]} \ CycleEvents)
    BY <1>12 DEF EndBody
  <2>4. ASSUME NEW x \in SerialEvents PROVE x \in Begun' <=> x \in Begun
    <3>1. x # NoEvent /\ x \notin CycleEvents
      OBVIOUS
    <3>2. x \in Running' \/ x = running[t] <=> x \in Running
      BY <2>2, <3>1 DEF Running
    <3>. QED
      BY <2>3, <3>1, <3>2 DEF Begun
  <2>. QED
    BY <2>1, <2>4, FifoStays
<1>13. ASSUME NEW t \in Threads, MergeAsync(t) PROVE FifoInv'
  BY <1>13, FifoStays DEF MergeAsync, Begun, Running
<1>14. ASSUME StartParallel PROVE FifoInv'
  BY <1>14, FifoStays DEF StartParallel, LeavePhase, Begun, Running
<1>15. ASSUME NEW e \in mine, BeginMine(e) PROVE FifoInv'
  BY <1>15, FifoStays DEF BeginMine, TypeOK, Begun, Running
<1>16. ASSUME NEW t \in Threads, NEW e \in batch, BeginTheirs(t, e) PROVE FifoInv'
  BY <1>16, FifoStays DEF BeginTheirs, TypeOK, Begun, Running
<1>17. ASSUME EndParallel PROVE FifoInv'
  BY <1>17, FifoStays DEF EndParallel, Begun, Running
<1>18. ASSUME NEW t \in Threads, Merge(t) PROVE FifoInv'
  <2>1. /\ serial \in Seq(SerialEvents) /\ serial' = serial \o queue[t]
        /\ queue'[t] = <<>> /\ \A u \in Threads \ {t} : queue'[u] = queue[u]
        /\ sent' = sent /\ Begun' = Begun /\ gone' = gone
    BY <1>18 DEF Merge, TypeOK, Begun, Running
  <2>2. Range(serial') = Range(serial) \cup Range(queue[t])
    BY <1>0, <2>1, RangeConcat
  <2>3. ASSUME NEW u \in Threads, NEW x, Somewhere(u, x) PROVE Somewhere(u, x)'
    BY <2>1, <2>2, <2>3 DEF Somewhere
  <2>4. ASSUME NEW u \in Threads, NEW x, u # t, Somewhere(u, x) PROVE x \notin Range(queue[t])
    BY <2>4 DEF Somewhere, HeldOnce, Inbox, Merged, Begun
  <2>5. ASSUME NEW u \in Threads, NEW x, NEW y, Somewhere(u, x), Somewhere(u, y), Ordered(u, x, y)
        PROVE  Ordered(u, x, y)'
    <3>1. Before(queue[t], x, y) /\ ~ (y \in Range(serial) /\ x \in Range(queue[t]))
      BY <2>4, <2>5 DEF Ordered, Before, Range
    <3>2. Before(serial', x, y)
      BY <1>0, <2>1, <2>5, <3>1, BeforeConcat DEF Ordered
    <3>3. Before(queue'[u], x, y) /\ (y \in Range(serial') => x \notin Range(queue'[u]))
      BY <2>1, <2>2, <2>4, <2>5, RangeEmpty DEF Ordered, Before
    <3>. QED
      BY <2>1, <2>5, <3>2, <3>3 DEF Ordered
  <2>. QED
    BY <2>1, <2>3, <2>5 DEF FifoInv
<1>19. ASSUME CheckPending PROVE FifoInv'
  BY <1>19, FifoStays DEF CheckPending, Begun, Running
<1>20. ASSUME TestPending PROVE FifoInv'
  BY <1>20, FifoStays DEF TestPending, Begun, Running
<1>21. ASSUME Sleep PROVE FifoInv'
  BY <1>21, FifoStays DEF Sleep, Begun, Running
<1>22. ASSUME Timeout PROVE FifoInv'
  BY <1>22, FifoStays DEF Timeout, Begun, Running
<1>23. ASSUME SpuriousWake PROVE FifoInv'
  BY <1>23, FifoStays DEF SpuriousWake, Begun, Running
<1>24. ASSUME NotifyAll PROVE FifoInv'
  BY <1>24, FifoStays DEF NotifyAll, Begun, Running
<1>25. ASSUME StopPool PROVE FifoInv'
  BY <1>25, FifoStays DEF StopPool, Begun, Running
<1>26. ASSUME Exit PROVE FifoInv'
  BY <1>26, FifoStays DEF Exit, Begun, Running
<1>27. CASE UNCHANGED vars
  BY <1>27, FifoStays DEF vars, Begun, Running
<1>. QED
  BY <1>1, <1>2, <1>3, <1>4, <1>5, <1>6, <1>7, <1>8, <1>9, <1>10, <1>11, <1>12, <1>13, <1>14, <1>15, <1>16, <1>17, <1>18, <1>19, <1>20, <1>21, <1>22, <1>23, <1>24, <1>25, <1>26, <1>27
  DEF Next, LoopStep, Post, ThreadStep, PoolStep

(* The serial events of one thread start in the order in which it posted   *)
(* them.  FifoInv follows them through the inbox and the merged list.      *)
THEOREM PostersKeepOrder == Spec => []FifoPerThread
<1>1. Init => PhaseInv /\ FifoInv
  <2>1. Init => FifoInv
    BY DEF Init, FifoInv
  <2>. QED
    BY <2>1, ThreadAssumption, EventAssumption DEF ThreadAssumption, Init, PhaseInv, Workers
<1>2. FifoInv => FifoPerThread
  BY DEF FifoInv, Ordered, FifoPerThread
<1>3. TypeOK /\ PhaseInv /\ (NoneLost /\ HeldOnce) /\ FifoInv /\ [Next]_vars => FifoInv'
  BY NextFifo
<1>. QED
  BY <1>1, <1>2, <1>3, TypeCorrect, NextPhase, Ownership, PTL DEF Spec

---------------------------------------------------------------------------
(* A scheduled event that still waits for its turn.                        *)
Waits(e) == e \in sched \/ \E t \in Threads : e \in timed[t]

(* Either stopEvent has cancelled e, or it can still find e by its id and  *)
(* was not called for it.                                                  *)
Findable(e) == e \in cancelled \/ (e \in ref /\ e \notin stopCalled)

(* An event with an id of its own is Findable as long as it waits.  A      *)
(* periodic event has no id.                                               *)
StopInv ==
    /\ \A e \in stopCalled : idOf[e] # 0
    /\ \A e \in CycleEvents : idOf[e] = 0
    /\ \A t \in Threads : holding[t] \notin CycleEvents
    /\ \A e \in TimedEvents : idOf[e] # 0 /\ OwnId(e) /\ Waits(e) => Findable(e)

(* Every step keeps what StopInv says of the ids.                          *)
LEMMA NextStop ==
    TypeOK /\ IdInv /\ HeldOnce /\ StopInv /\ [Next]_vars => StopInv'
<1> SUFFICES ASSUME TypeOK, IdInv, HeldOnce, StopInv, [Next]_vars PROVE StopInv'
  OBVIOUS
<1> USE DEF inbox, main, ids, loop, history
<1>a. ASSUME UNCHANGED <<idOf, ref, cancelled, stopCalled, timed, sched>>,
             \A t \in Threads : holding'[t] \notin CycleEvents
      PROVE  StopInv'
  BY <1>a DEF StopInv, Findable, Waits, OwnId
<1>b. ASSUME UNCHANGED <<idOf, ref, cancelled, stopCalled, timed, sched, holding>>
      PROVE  StopInv'
  BY <1>b, <1>a DEF StopInv
<1>c. ASSUME NEW e \in TimedEvents, UNCHANGED <<idOf, cancelled, stopCalled, holding>>,
             ref \ Found(idOf[e]) \subseteq ref',
             ~Waits(e)', \A f \in TimedEvents : Waits(f)' => Waits(f)
      PROVE  StopInv'
  <2>1. ASSUME NEW f \in TimedEvents, OwnId(f), Waits(f)', idOf[f] # 0 PROVE Findable(f)'
    <3>1. Findable(f)
      BY <1>c, <2>1 DEF StopInv
    <3>2. f \notin Found(idOf[e])
      BY <1>c, <2>1 DEF OwnId, Found
    <3>. QED
      BY <1>c, <3>1, <3>2 DEF Findable
  <2>2. \A f \in TimedEvents : OwnId(f)' <=> OwnId(f)
    BY <1>c DEF OwnId
  <2>. QED
    BY <1>c, <2>1, <2>2 DEF StopInv
<1>1. ASSUME NEW t \in Threads, NEW e \in Events, AddEvent(t, e) PROVE StopInv'
  <2>1. \A u \in Threads : holding'[u] \notin CycleEvents
    BY <1>1, EventAssumption DEF AddEvent, EventAssumption, StopInv, TypeOK
  <2>. QED
    BY <1>1, <1>a, <2>1 DEF AddEvent
<1>2. ASSUME NEW t \in Threads, NEW e \in Events, AsyncEvent(t, e) PROVE StopInv'
  <2>1. \A u \in Threads : holding'[u] \notin CycleEvents
    BY <1>2, EventAssumption DEF AsyncEvent, EventAssumption, StopInv, TypeOK
  <2>. QED
    BY <1>2, <1>a, <2>1 DEF AsyncEvent
<1>3. ASSUME NEW t \in Threads, NEW e \in Events, TakeId(t, e) PROVE StopInv'
  <2>1. \A u \in Threads : holding'[u] \notin CycleEvents
    BY <1>3 DEF TakeId, StopInv, TypeOK
  <2>2. UNCHANGED <<idOf, ref, cancelled, stopCalled, sched, timed>>
    BY <1>3 DEF TakeId
  <2>. QED
    BY <2>1, <2>2 DEF StopInv, Findable, Waits, OwnId
<1>4. ASSUME NEW t \in Threads, ScheduleEvent(t) PROVE StopInv'
  <2> DEFINE e == holding[t]
  <2>1. /\ e \in TimedEvents \ CycleEvents /\ idOf[e] = 0 /\ e \notin stopCalled
    BY <1>4 DEF ScheduleEvent, StopInv
  <2>2. lastId # 0 /\ lastId \in Nat
    BY <2>1 DEF IdInv, Unregistered, TypeOK
  <2>3. /\ idOf' = [idOf EXCEPT ![e] = lastId]
        /\ ref' = IF Found(lastId) = {} THEN ref \cup {e} ELSE ref
        /\ timed' = [timed EXCEPT ![t] = @ \cup {e}]
        /\ UNCHANGED <<sched, holding, cancelled, stopCalled>>
    BY <1>4 DEF ScheduleEvent, main, history
  <2> HIDE DEF e
  <2>4. idOf'[e] = lastId /\ \A f \in TimedEvents : f # e => idOf'[f] = idOf[f]
    BY <2>1, <2>3 DEF TypeOK
  <2>5. ASSUME NEW f \in TimedEvents, OwnId(f)', Waits(f)', idOf'[f] # 0 PROVE Findable(f)'
    <3>1. CASE f = e
      <4>1. Found(lastId) = {}
        BY <2>1, <2>2, <2>4, <2>5, <3>1 DEF OwnId, Found, TypeOK
      <4>. QED
        BY <2>1, <2>3, <3>1, <4>1 DEF Findable
    <3>2. CASE f # e
      <4>1. OwnId(f) /\ idOf[f] # 0
        BY <2>1, <2>4, <2>5, <3>2 DEF OwnId
      <4>2. Waits(f)
        BY <2>3, <2>5, <3>2 DEF Waits, TypeOK
      <4>3. Findable(f)
        BY <4>1, <4>2 DEF StopInv
      <4>. QED
        BY <2>3, <4>3 DEF Findable
    <3>. QED
      BY <3>1, <3>2
  <2>6. \A f \in stopCalled' : idOf'[f] # 0
    BY <2>1, <2>3, <2>4 DEF StopInv, TypeOK
  <2>7. \A f \in CycleEvents : idOf'[f] = 0
    BY <2>1, <2>4, EventAssumption DEF StopInv, EventAssumption
  <2>8. \A u \in Threads : holding'[u] \notin CycleEvents
    BY <2>3 DEF StopInv
  <2>. QED
    BY <2>5, <2>6, <2>7, <2>8 DEF StopInv
<1>5. ASSUME NEW t \in Threads, Notify(t) PROVE StopInv'
  <2>1. \A u \in Threads : holding'[u] \notin CycleEvents
    BY <1>5, EventAssumption DEF Notify, EventAssumption, StopInv, TypeOK
  <2>. QED
    BY <1>5, <1>a, <2>1 DEF Notify
<1>6. ASSUME NEW e \in TimedEvents, StopEvent(e) PROVE StopInv'
  <2>1. /\ idOf[e] # 0
        /\ stopCalled' = stopCalled \cup {e}
        /\ cancelled' = cancelled \cup Found(idOf[e])
        /\ ref' = ref \ Found(idOf[e])
        /\ UNCHANGED <<sched, timed, holding, idOf>>
    BY <1>6 DEF StopEvent, inbox, main
  <2>2. ASSUME NEW f \in TimedEvents, OwnId(f), Waits(f), idOf[f] # 0 PROVE Findable(f)'
    <3>1. Findable(f)
      BY <2>2 DEF StopInv
    <3>2. f # e => f \notin Found(idOf[e])
      BY <2>2 DEF OwnId, Found
    <3>3. f = e /\ f \in ref => f \in Found(idOf[e])
      BY DEF Found
    <3>. QED
      BY <2>1, <3>1, <3>2, <3>3 DEF Findable
  <2>3. \A f \in TimedEvents : (OwnId(f)' <=> OwnId(f)) /\ (Waits(f)' <=> Waits(f))
    BY <2>1 DEF OwnId, Waits
  <2>. QED
    BY <2>1, <2>2, <2>3 DEF StopInv
<1>7. ASSUME NEW d \in 0..MaxStep, UpdateTime(d) PROVE StopInv'
  <2>1. UNCHANGED <<idOf, ref, cancelled, stopCalled, timed, sched, holding>>
    BY <1>7 DEF UpdateTime
  <2>. QED
    BY <1>b, <2>1
<1>8. ASSUME BeginSerial PROVE StopInv'
  <2>1. UNCHANGED <<idOf, ref, cancelled, stopCalled, timed, sched, holding>>
    BY <1>8 DEF BeginSerial
  <2>. QED
    BY <1>b, <2>1
<1>9. ASSUME EndSerial PROVE StopInv'
  <2>1. UNCHANGED <<idOf, ref, cancelled, stopCalled, timed, sched, holding>>
    BY <1>9 DEF EndSerial
  <2>. QED
    BY <1>b, <2>1
<1>10. ASSUME NEW e \in sched, BeginTimed(e) PROVE StopInv'
  <2>1. /\ sched' = sched \ {e}
        /\ ref \ Found(idOf[e]) \subseteq ref'
        /\ UNCHANGED <<timed, holding, idOf, cancelled, stopCalled>>
    BY <1>10 DEF BeginTimed, inbox, history
  <2>2. \A t \in Threads : e \notin timed[t]
    BY DEF HeldOnce, Merged, Inbox
  <2>3. e \in TimedEvents
    BY DEF TypeOK
  <2>. QED
    BY <1>c, <2>1, <2>2, <2>3 DEF Waits
<1>11. ASSUME EndTimed PROVE StopInv'
  <2>1. UNCHANGED <<idOf, ref, cancelled, stopCalled, timed, sched, holding>>
    BY <1>11 DEF EndTimed
  <2>. QED
    BY <1>b, <2>1
<1>12. ASSUME NEW t \in Threads, EndBody(t) PROVE StopInv'
  <2> DEFINE e == running[t]
  <2>1. /\ e # NoEvent /\ e \in Events
        /\ UNCHANGED <<sched, holding, idOf, cancelled, stopCalled>>
    BY <1>12 DEF EndBody, TypeOK, EventOrNone, main
  <2>2. CASE e \in CycleEvents
    <3>1. timed' = [timed EXCEPT ![t] = @ \cup {e}] /\ ref' = ref
      BY <1>12, <2>2 DEF EndBody
    <3> HIDE DEF e
    <3>2. \A f \in TimedEvents : f # e /\ Waits(f)' => Waits(f)
      BY <2>1, <3>1 DEF Waits, TypeOK
    <3>3. idOf[e] = 0
      BY <2>2 DEF StopInv
    <3>4. \A f \in TimedEvents : (OwnId(f)' <=> OwnId(f)) /\ (Findable(f)' <=> Findable(f))
      BY <2>1, <3>1 DEF OwnId, Findable
    <3>. QED
      BY <2>1, <3>2, <3>3, <3>4 DEF StopInv
  <2>3. CASE e \in TimedEvents \ CycleEvents
    <3>1. ref' = ref \ Found(idOf[e]) /\ timed' = timed
      BY <1>12, <2>3 DEF EndBody
    <3>2. e \in Running
      BY <2>1 DEF Running
    <3>3. e \notin sched /\ \A u \in Threads : e \notin timed[u]
      BY <3>2 DEF HeldOnce, Merged, Inbox
    <3>. QED
      BY <1>c, <2>1, <2>3, <3>1, <3>3 DEF Waits
  <2>4. CASE e \notin TimedEvents
    <3>1. ref' = ref /\ timed' = timed
      BY <1>12, <2>4, EventAssumption DEF EndBody, EventAssumption
    <3>. QED
      BY <1>b, <2>1, <3>1
  <2>. QED
    BY <2>2, <2>3, <2>4
<1>13. ASSUME NEW t \in Threads, MergeAsync(t) PROVE StopInv'
  <2>1. UNCHANGED <<idOf, ref, cancelled, stopCalled, timed, sched, holding>>
    BY <1>13 DEF MergeAsync
  <2>. QED
    BY <1>b, <2>1
<1>14. ASSUME StartParallel PROVE StopInv'
  <2>1. UNCHANGED <<idOf, ref, cancelled, stopCalled, timed, sched, holding>>
    BY <1>14 DEF StartParallel
  <2>. QED
    BY <1>b, <2>1
<1>15. ASSUME NEW e \in mine, BeginMine(e) PROVE StopInv'
  <2>1. UNCHANGED <<idOf, ref, cancelled, stopCalled, timed, sched, holding>>
    BY <1>15 DEF BeginMine
  <2>. QED
    BY <1>b, <2>1
<1>16. ASSUME NEW t \in Threads, NEW e \in batch, BeginTheirs(t, e) PROVE StopInv'
  <2>1. UNCHANGED <<idOf, ref, cancelled, stopCalled, timed, sched, holding>>
    BY <1>16 DEF BeginTheirs
  <2>. QED
    BY <1>b, <2>1
<1>17. ASSUME EndParallel PROVE StopInv'
  <2>1. UNCHANGED <<idOf, ref, cancelled, stopCalled, timed, sched, holding>>
    BY <1>17 DEF EndParallel
  <2>. QED
    BY <1>b, <2>1
<1>18. ASSUME NEW t \in Threads, Merge(t) PROVE StopInv'
  <2>1. /\ sched' = sched \cup timed[t]
        /\ timed' = [timed EXCEPT ![t] = {}]
        /\ UNCHANGED <<holding, ref, idOf, cancelled, stopCalled>>
    BY <1>18 DEF Merge, ids, history
  <2>2. \A f \in TimedEvents : Waits(f)' => Waits(f)
    BY <2>1 DEF Waits, TypeOK
  <2>3. \A f \in TimedEvents : (OwnId(f)' <=> OwnId(f)) /\ (Findable(f)' <=> Findable(f))
    BY <2>1 DEF OwnId, Findable
  <2>. QED
    BY <2>1, <2>2, <2>3 DEF StopInv
<1>19. ASSUME CheckPending PROVE StopInv'
  <2>1. UNCHANGED <<idOf, ref, cancelled, stopCalled, timed, sched, holding>>
    BY <1>19 DEF CheckPending
  <2>. QED
    BY <1>b, <2>1
<1>20. ASSUME TestPending PROVE StopInv'
  <2>1. UNCHANGED <<idOf, ref, cancelled, stopCalled, timed, sched, holding>>
    BY <1>20 DEF TestPending
  <2>. QED
    BY <1>b, <2>1
<1>21. ASSUME Sleep PROVE StopInv'
  <2>1. UNCHANGED <<idOf, ref, cancelled, stopCalled, timed, sched, holding>>
    BY <1>21 DEF Sleep
  <2>. QED
    BY <1>b, <2>1
<1>22. ASSUME Timeout PROVE StopInv'
  <2>1. UNCHANGED <<idOf, ref, cancelled, stopCalled, timed, sched, holding>>
    BY <1>22 DEF Timeout
  <2>. QED
    BY <1>b, <2>1
<1>23. ASSUME SpuriousWake PROVE StopInv'
  <2>1. UNCHANGED <<idOf, ref, cancelled, stopCalled, timed, sched, holding>>
    BY <1>23 DEF SpuriousWake
  <2>. QED
    BY <1>b, <2>1
<1>24. ASSUME NotifyAll PROVE StopInv'
  <2>1. UNCHANGED <<idOf, ref, cancelled, stopCalled, timed, sched, holding>>
    BY <1>24 DEF NotifyAll
  <2>. QED
    BY <1>b, <2>1
<1>25. ASSUME StopPool PROVE StopInv'
  <2>1. UNCHANGED <<idOf, ref, cancelled, stopCalled, timed, sched, holding>>
    BY <1>25 DEF StopPool
  <2>. QED
    BY <1>b, <2>1
<1>26. ASSUME Exit PROVE StopInv'
  <2>1. UNCHANGED <<idOf, ref, cancelled, stopCalled, timed, sched, holding>>
    BY <1>26 DEF Exit
  <2>. QED
    BY <1>b, <2>1
<1>27. CASE UNCHANGED vars
  BY <1>b, <1>27 DEF vars
<1>. QED
  BY <1>1, <1>2, <1>3, <1>4, <1>5, <1>6, <1>7, <1>8, <1>9, <1>10, <1>11, <1>12, <1>13, <1>14, <1>15, <1>16, <1>17, <1>18, <1>19, <1>20, <1>21, <1>22, <1>23, <1>24, <1>25, <1>26, <1>27
  DEF Next, LoopStep, Post, ThreadStep, PoolStep

(* Only executeScheduledEvents starts a scheduled event, and not one that  *)
(* it finds cancelled.                                                     *)
LEMMA Starting ==
    ASSUME TypeOK, [Next]_vars, NEW e \in TimedEvents, e \notin Running, e \in Running'
    PROVE  e \in sched /\ e \notin cancelled
<1> USE DEF inbox, main, ids, loop, history
<1>a. PICK t \in Threads : running'[t] = e /\ running[t] # e
  BY DEF Running
<1>b. ASSUME NEW u \in Threads, NEW f \in Events, running' = [running EXCEPT ![u] = f]
      PROVE  f = e
  BY <1>a, <1>b DEF TypeOK
<1>c. e \notin SerialEvents /\ e \notin AsyncEvents /\ e # NoEvent
  BY EventAssumption DEF EventAssumption
<1>d. Main \in Threads
  BY ThreadAssumption DEF ThreadAssumption
<1>1. running' # running
  BY <1>a
<1>2. ~BeginSerial
  <2> SUFFICES ASSUME BeginSerial PROVE FALSE
    OBVIOUS
  <2>1. Head(serial) \in SerialEvents /\ running' = [running EXCEPT ![Main] = Head(serial)]
    BY <1>1 DEF BeginSerial, TypeOK
  <2>. QED
    BY <1>b, <1>c, <1>d, <2>1 DEF Events
<1>3. ASSUME NEW f \in mine PROVE ~BeginMine(f)
  <2>1. f \in AsyncEvents
    BY DEF TypeOK
  <2>. QED
    BY <1>b, <1>c, <1>d, <2>1 DEF BeginMine, Events
<1>4. ASSUME NEW u \in Threads, NEW f \in batch PROVE ~BeginTheirs(u, f)
  <2>1. f \in AsyncEvents
    BY DEF TypeOK
  <2>. QED
    BY <1>b, <1>c, <2>1 DEF BeginTheirs, Events
<1>5. ASSUME NEW u \in Threads PROVE ~EndBody(u)
  BY <1>a, <1>c DEF EndBody, TypeOK
<1>6. ASSUME NEW u \in Threads PROVE ~Post(u) /\ ~ScheduleEvent(u) /\ ~Notify(u)
  BY <1>1 DEF Post, AddEvent, AsyncEvent, TakeId, ScheduleEvent, Notify
<1>7. /\ \A d \in 0..MaxStep : ~UpdateTime(d)
      /\ ~EndSerial /\ ~EndTimed /\ ~StartParallel /\ ~EndParallel
      /\ ~CheckPending /\ ~TestPending /\ ~Sleep /\ ~Exit
  BY <1>1 DEF UpdateTime, EndSerial, EndTimed, StartParallel, EndParallel, CheckPending,
              TestPending, Sleep, Exit
<1>8. \A u \in Threads : ~MergeAsync(u) /\ ~Merge(u)
  BY <1>1 DEF MergeAsync, Merge
<1>9. \A f \in TimedEvents : ~StopEvent(f)
  BY <1>1 DEF StopEvent
<1>10. ~Timeout /\ ~SpuriousWake /\ ~NotifyAll /\ ~StopPool
  BY <1>1 DEF Timeout, SpuriousWake, NotifyAll, StopPool
<1>11. PICK f \in sched : BeginTimed(f)
  BY <1>1, <1>2, <1>3, <1>4, <1>5, <1>6, <1>7, <1>8, <1>9, <1>10
  DEF Next, LoopStep, ThreadStep, PoolStep, vars
<1>12. f \in Events /\ f \notin cancelled /\ running' = [running EXCEPT ![Main] = f]
  BY <1>1, <1>11 DEF BeginTimed, TypeOK, Events
<1>13. f = e
  BY <1>b, <1>d, <1>12
<1>. QED
  BY <1>11, <1>12, <1>13

(* An event for which stopEvent was called, and whose id is no other       *)
(* event's, never starts: while it waits it is cancelled, because          *)
(* stopEvent found it.                                                     *)
THEOREM StopsAreFinal == Spec => StopIsFinal
<1>1. Init => StopInv
  BY EventAssumption, ThreadAssumption
  DEF EventAssumption, ThreadAssumption, Init, StopInv, Waits, Findable
<1>2. Init => IdInv
  BY EventAssumption DEF EventAssumption, Init, IdInv, Unregistered
<1>3. TypeOK /\ IdInv /\ (NoneLost /\ HeldOnce) /\ StopInv /\ [Next]_vars => StopInv'
  BY NextStop
<1>4. TypeOK /\ StopInv /\ [Next]_vars
        => [\A e \in stopCalled : OwnId(e) /\ e \notin Running => e \notin Running']_vars
  <2> SUFFICES ASSUME TypeOK, StopInv, [Next]_vars, NEW e \in stopCalled, OwnId(e),
                      e \notin Running, e \in Running'
               PROVE  FALSE
    OBVIOUS
  <2>1. e \in TimedEvents /\ idOf[e] # 0
    BY DEF TypeOK, StopInv
  <2>2. Waits(e) /\ e \notin cancelled
    BY <2>1, Starting DEF Waits
  <2>. QED
    BY <2>1, <2>2 DEF StopInv, Findable
<1>. QED
  BY <1>1, <1>2, <1>3, <1>4, TypeCorrect, NextIds, Ownership, PTL DEF Spec, StopIsFinal

=============================================================================
