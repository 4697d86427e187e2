------------------------------- MODULE Dispatcher -------------------------------
(***************************************************************************)
(* The event loop every other part of the server runs on                   *)
(* (src/src/game/scheduling/dispatcher.cpp).  Any thread posts events into *)
(* queues of its own, guarded by its own mutex; one thread, the            *)
(* dispatcher, merges those queues and executes the events in phases, and  *)
(* sleeps on a condition variable when it believes that nothing is left.   *)
(*                                                                         *)
(* Time is the cached clock OTSYS_TIME(): it moves only when the loop      *)
(* calls UPDATE_OTSYS_TIME().  left[e] is the time until e is due (a       *)
(* scheduled event) or expires (a serial event), relative to that clock.   *)
(***************************************************************************)
EXTENDS Integers, Sequences, FiniteSets, Functions

CONSTANTS
    Threads,        \* the threads that post events, the dispatcher included
    Main,           \* the pool thread that runs the dispatcher's loop
    PoolThreads,    \* the threads of the pool
    SerialEvents,   \* events posted with addEvent
    AsyncEvents,    \* events posted with asyncEvent (GenericParallel)
    TimedEvents,    \* events posted with scheduleEvent and cycleEvent
    CycleEvents,    \* the timed events that re-arm themselves
    Schedulers,     \* the threads that call scheduleEvent
    Delay,          \* the delay of each timed event
    Ttl,            \* expiresAfterMs of each serial event, 0 for none
    MaxStep,        \* bound: the most the clock moves in one pass of the loop
    Spurious,       \* whether wait_for may return without notice or timeout,
                    \* as it also does in a build where adding the longest
                    \* duration to the clock overflows
    NoEvent

ASSUME ThreadAssumption ==
    /\ Main \in PoolThreads
    /\ PoolThreads \subseteq Threads
    /\ Schedulers \subseteq Threads

ASSUME EventAssumption ==
    /\ SerialEvents \cap AsyncEvents = {}
    /\ SerialEvents \cap TimedEvents = {}
    /\ AsyncEvents \cap TimedEvents = {}
    /\ CycleEvents \subseteq TimedEvents
    /\ NoEvent \notin SerialEvents \cup AsyncEvents \cup TimedEvents

ASSUME TimeAssumption ==
    /\ MaxStep \in Nat
    /\ Delay \in [TimedEvents -> 0..MaxStep]
    /\ Ttl \in [SerialEvents -> Nat]
    /\ Spurious \in BOOLEAN

Events == SerialEvents \cup AsyncEvents \cup TimedEvents
Workers == Threads \ {Main}
EventOrNone == Events \cup {NoEvent}

VARIABLES
    queue,      \* threads[t].tasks[Serial]
    asyncQueue, \* threads[t].tasks[GenericParallel]
    timed,      \* threads[t].scheduledTasks
    holding,    \* the event whose posting holds threads[t].mutex
    serial,     \* m_tasks[Serial]
    batch,      \* m_tasks[GenericParallel], what the pool threads still have to start
    mine,       \* partitions[0] of m_tasks[GenericParallel]
    sched,      \* scheduledTasks
    ref,        \* scheduledTasksRef: the events stopEvent can find, by their ids
    idOf,       \* Task::id, 0 before getId
    lastId,     \* Task::LAST_EVENT_ID
    cancelled,  \* events whose func was reset by cancel()
    left,       \* utime (or expiration) minus OTSYS_TIME()
    pending,    \* hasPendingTasks
    pc,         \* where the dispatcher's loop is
    stage,      \* which of the two parallel phases the loop is in
    toMerge,    \* the threads the merging loop has still to visit
    running,    \* the event each thread is executing
    shutdown,   \* CanaryServer::shutdown: "running", "notified", "stopped"
    posted,     \* history: the events handed to the dispatcher
    gone,       \* history: the events that finished, expired or were dropped
    sent,       \* history: the serial events each thread posted, in order
    promised,   \* history: <<a, s>>, s posted by the dispatcher after async event a
    stopCalled  \* history: the events stopEvent was called for

inbox == <<queue, asyncQueue, timed, holding>>
main == <<serial, batch, mine, sched>>
ids == <<ref, idOf, lastId, cancelled>>
loop == <<pc, stage, toMerge>>
history == <<posted, sent, promised, stopCalled>>
vars == <<inbox, main, ids, loop, history, left, pending, running, shutdown, gone>>

Running == {running[t] : t \in Threads} \ {NoEvent}
Found(id) == {e \in ref : idOf[e] = id}
Expired(e) == Ttl[e] > 0 /\ left[e] < 0
Awake(p) == IF p = "asleep" THEN "update" ELSE p

---------------------------------------------------------------------------
(* The periodic events were registered by Game::start, which discards      *)
(* their ids: nothing can stop them, and they are left out of ref.         *)
Init ==
    /\ queue = [t \in Threads |-> <<>>]
    /\ asyncQueue = [t \in Threads |-> {}]
    /\ timed = [t \in Threads |-> {}]
    /\ holding = [t \in Threads |-> NoEvent]
    /\ serial = <<>> /\ batch = {} /\ mine = {}
    /\ sched = CycleEvents
    /\ ref = {} /\ idOf = [e \in TimedEvents |-> 0] /\ lastId = 0 /\ cancelled = {}
    /\ left = [e \in SerialEvents \cup TimedEvents |->
                 IF e \in CycleEvents THEN Delay[e] ELSE 0]
    /\ pending = FALSE
    /\ pc = "update" /\ stage = "events" /\ toMerge = {}
    /\ running = [t \in Threads |-> NoEvent]
    /\ shutdown = "running"
    /\ posted = CycleEvents /\ gone = {}
    /\ sent = [t \in Threads |-> <<>>] /\ promised = {} /\ stopCalled = {}

---------------------------------------------------------------------------
(* Posting.  A thread appends under its mutex and notifies before it       *)
(* releases it.  The dispatcher posts from inside an event only.           *)

MayPost(t, e) ==
    /\ e \notin posted
    /\ holding[t] = NoEvent
    /\ t = Main => running[Main] # NoEvent

(* Bug: the new event goes to the front of the queue.                      *)
AddEventInFront(t, e) ==
    /\ MayPost(t, e) /\ e \in SerialEvents
    /\ queue' = [queue EXCEPT ![t] = <<e>> \o @]
    /\ holding' = [holding EXCEPT ![t] = e]
    /\ left' = [left EXCEPT ![e] = Ttl[e]]
    /\ posted' = posted \cup {e}
    /\ sent' = [sent EXCEPT ![t] = Append(@, e)]
    /\ promised' = IF t = Main /\ running[Main] \notin AsyncEvents
                     THEN promised \cup (asyncQueue[Main] \X {e}) ELSE promised
    /\ UNCHANGED <<asyncQueue, timed, main, ids, loop, pending, running, shutdown,
                   gone, stopCalled>>

AddEvent(t, e) ==
    /\ MayPost(t, e) /\ e \in SerialEvents
    /\ queue' = [queue EXCEPT ![t] = Append(@, e)]
    /\ holding' = [holding EXCEPT ![t] = e]
    /\ left' = [left EXCEPT ![e] = Ttl[e]]
    /\ posted' = posted \cup {e}
    /\ sent' = [sent EXCEPT ![t] = Append(@, e)]
    /\ promised' = IF t = Main /\ running[Main] \notin AsyncEvents
                     THEN promised \cup (asyncQueue[Main] \X {e}) ELSE promised
    /\ UNCHANGED <<asyncQueue, timed, main, ids, loop, pending, running, shutdown,
                   gone, stopCalled>>

AsyncEvent(t, e) ==
    /\ MayPost(t, e) /\ e \in AsyncEvents
    /\ asyncQueue' = [asyncQueue EXCEPT ![t] = @ \cup {e}]
    /\ holding' = [holding EXCEPT ![t] = e]
    /\ posted' = posted \cup {e}
    /\ UNCHANGED <<queue, timed, main, ids, loop, left, pending, running, shutdown,
                   gone, sent, promised, stopCalled>>

(* Bug: the counter of ids runs down.                                      *)
TakeIdDownwards(t, e) ==
    /\ MayPost(t, e) /\ e \in TimedEvents \ CycleEvents /\ t \in Schedulers
    /\ lastId' = lastId - 1
    /\ holding' = [holding EXCEPT ![t] = e]
    /\ posted' = posted \cup {e}
    /\ left' = [left EXCEPT ![e] = Delay[e]]
    /\ UNCHANGED <<queue, asyncQueue, timed, main, ref, idOf, cancelled, loop, pending,
                   running, shutdown, gone, sent, promised, stopCalled>>

(* scheduleEvent first draws an id: getId increments the shared counter... *)
TakeId(t, e) ==
    /\ MayPost(t, e) /\ e \in TimedEvents \ CycleEvents /\ t \in Schedulers
    /\ lastId' = lastId + 1
    /\ holding' = [holding EXCEPT ![t] = e]
    /\ posted' = posted \cup {e}
    /\ left' = [left EXCEPT ![e] = Delay[e]]
    /\ UNCHANGED <<queue, asyncQueue, timed, main, ref, idOf, cancelled, loop, pending,
                   running, shutdown, gone, sent, promised, stopCalled>>

(* ... and reads it back in a second step; emplace keeps an entry that is  *)
(* already there under the same id.                                        *)
ScheduleEvent(t) ==
    LET e == holding[t] IN
    /\ e \in TimedEvents /\ idOf[e] = 0
    /\ idOf' = [idOf EXCEPT ![e] = lastId]
    /\ ref' = IF Found(lastId) = {} THEN ref \cup {e} ELSE ref
    /\ timed' = [timed EXCEPT ![t] = @ \cup {e}]
    /\ UNCHANGED <<queue, asyncQueue, holding, main, lastId, cancelled, loop, left,
                   pending, running, shutdown, gone, history>>

Notify(t) ==
    /\ holding[t] # NoEvent
    /\ holding[t] \in TimedEvents => idOf[holding[t]] # 0
    /\ holding' = [holding EXCEPT ![t] = NoEvent]
    /\ pending' = TRUE
    /\ pc' = IF pending THEN pc ELSE Awake(pc)
    /\ UNCHANGED <<queue, asyncQueue, timed, main, ids, stage, toMerge, left, running,
                   shutdown, gone, history>>

(* Bug: the entry is erased, the task is not cancelled.                    *)
StopEventWithoutCancel(e) ==
    /\ running[Main] # NoEvent /\ holding[Main] = NoEvent
    /\ e \in TimedEvents \ CycleEvents /\ idOf[e] # 0 /\ e \notin Range(holding)
    /\ e \notin stopCalled
    /\ stopCalled' = stopCalled \cup {e}
    /\ ref' = ref \ Found(idOf[e])
    /\ UNCHANGED <<inbox, main, idOf, lastId, cancelled, loop, left, pending, running,
                   shutdown, gone, posted, sent, promised>>

(* The body of an event, on the dispatcher, stops a scheduled event of     *)
(* which it kept the id.                                                   *)
StopEvent(e) ==
    /\ running[Main] # NoEvent /\ holding[Main] = NoEvent
    /\ e \in TimedEvents \ CycleEvents /\ idOf[e] # 0 /\ e \notin Range(holding)
    /\ e \notin stopCalled
    /\ stopCalled' = stopCalled \cup {e}
    /\ cancelled' = cancelled \cup Found(idOf[e])
    /\ ref' = ref \ Found(idOf[e])
    /\ UNCHANGED <<inbox, main, idOf, lastId, loop, left, pending, running, shutdown,
                   gone, posted, sent, promised>>

---------------------------------------------------------------------------
(* One pass of the loop.                                                   *)

(* wait_for timed out once the earliest scheduled event is due.            *)
LeastStep(d) ==
    pc = "timedOut" => \A e \in sched : left[e] > d => \E f \in sched : left[f] <= d

UpdateTime(d) ==
    /\ pc \in {"update", "timedOut"} /\ shutdown # "stopped"
    /\ LeastStep(d)
    /\ left' = [e \in DOMAIN left |->
                  IF e \notin posted THEN left[e]
                  ELSE IF left[e] - d < -1 THEN -1 ELSE left[e] - d]
    /\ pc' = IF serial = <<>> THEN "timed" ELSE "serial"
    /\ UNCHANGED <<inbox, main, ids, stage, toMerge, pending, running, shutdown, gone,
                   history>>

(* executeSerialEvents: the next event runs, or is skipped as expired.     *)
BeginSerial ==
    /\ pc = "serial" /\ running[Main] = NoEvent /\ serial # <<>>
    /\ serial' = Tail(serial)
    /\ IF Expired(Head(serial))
         THEN gone' = gone \cup {Head(serial)} /\ UNCHANGED running
         ELSE running' = [running EXCEPT ![Main] = Head(serial)] /\ UNCHANGED gone
    /\ UNCHANGED <<inbox, batch, mine, sched, ids, loop, left, pending, shutdown, history>>

EndSerial ==
    /\ pc = "serial" /\ running[Main] = NoEvent /\ serial = <<>>
    /\ pc' = "mergeAsync" /\ stage' = "events" /\ toMerge' = Threads
    /\ UNCHANGED <<inbox, main, ids, left, pending, running, shutdown, gone, history>>

(* executeScheduledEvents: the earliest event that is due runs, or is      *)
(* dropped if it was cancelled.                                            *)
BeginTimed(e) ==
    /\ pc = "timed" /\ running[Main] = NoEvent
    /\ e \in sched /\ left[e] <= 0 /\ \A f \in sched : left[e] <= left[f]
    /\ sched' = sched \ {e}
    /\ IF e \in cancelled
         THEN /\ gone' = gone \cup {e}
              /\ ref' = ref \ Found(idOf[e])
              /\ UNCHANGED running
         ELSE running' = [running EXCEPT ![Main] = e] /\ UNCHANGED <<gone, ref>>
    /\ UNCHANGED <<inbox, serial, batch, mine, idOf, lastId, cancelled, loop, left,
                   pending, shutdown, history>>

(* Bug: no parallel phase after the scheduled events.                      *)
EndTimedWithoutPhase ==
    /\ pc = "timed" /\ running[Main] = NoEvent /\ \A e \in sched : left[e] > 0
    /\ pc' = "merge" /\ stage' = "scheduled" /\ toMerge' = Threads
    /\ UNCHANGED <<inbox, main, ids, left, pending, running, shutdown, gone, history>>

EndTimed ==
    /\ pc = "timed" /\ running[Main] = NoEvent /\ \A e \in sched : left[e] > 0
    /\ pc' = "mergeAsync" /\ stage' = "scheduled" /\ toMerge' = Threads
    /\ UNCHANGED <<inbox, main, ids, left, pending, running, shutdown, gone, history>>

(* Bug: a periodic event is not armed again.                               *)
EndBodyWithoutRearming(t) ==
    LET e == running[t] IN
    /\ e # NoEvent /\ holding[t] = NoEvent
    /\ running' = [running EXCEPT ![t] = NoEvent]
    /\ gone' = gone \cup {e}
    /\ ref' = IF e \in TimedEvents THEN ref \ Found(idOf[e]) ELSE ref
    /\ UNCHANGED <<queue, asyncQueue, timed, holding, main, idOf, lastId, cancelled, loop,
                   left, pending, shutdown, history>>

(* The body returns.  A periodic event is re-armed in the dispatcher's own *)
(* inbox; any other scheduled event gives up its id.                       *)
EndBody(t) ==
    LET e == running[t] IN
    /\ e # NoEvent /\ holding[t] = NoEvent
    /\ running' = [running EXCEPT ![t] = NoEvent]
    /\ IF e \in CycleEvents
         THEN /\ timed' = [timed EXCEPT ![t] = @ \cup {e}]
              /\ left' = [left EXCEPT ![e] = Delay[e]]
              /\ UNCHANGED <<gone, ref>>
         ELSE /\ gone' = gone \cup {e}
              /\ ref' = IF e \in TimedEvents THEN ref \ Found(idOf[e]) ELSE ref
              /\ UNCHANGED <<timed, left>>
    /\ UNCHANGED <<queue, asyncQueue, holding, main, idOf, lastId, cancelled, loop,
                   pending, shutdown, history>>

---------------------------------------------------------------------------
(* The parallel phase, entered after the serial and after the scheduled    *)
(* events of a pass.                                                       *)

(* Bug: the thread's queue is not cleared after the insertion.             *)
MergeAsyncWithoutClear(t) ==
    /\ pc = "mergeAsync" /\ t \in toMerge /\ holding[t] = NoEvent
    /\ toMerge' = toMerge \ {t}
    /\ batch' = batch \cup asyncQueue[t]
    /\ UNCHANGED <<inbox, serial, mine, sched, ids, pc, stage, left, pending, running,
                   shutdown, gone, history>>

MergeAsync(t) ==
    /\ pc = "mergeAsync" /\ t \in toMerge /\ holding[t] = NoEvent
    /\ toMerge' = toMerge \ {t}
    /\ batch' = batch \cup asyncQueue[t]
    /\ asyncQueue' = [asyncQueue EXCEPT ![t] = {}]
    /\ UNCHANGED <<queue, timed, holding, serial, mine, sched, ids, pc, stage, left,
                   pending, running, shutdown, gone, history>>

LeavePhase ==
    /\ pc' = IF stage = "events" THEN "timed" ELSE "merge"
    /\ toMerge' = IF stage = "events" THEN {} ELSE Threads

(* generatePartition: blocks of ceil(size / threads); the dispatcher keeps *)
(* the first one.                                                          *)
FirstBlock(n) == (n + Cardinality(PoolThreads) - 1) \div Cardinality(PoolThreads)

StartParallel ==
    /\ pc = "mergeAsync" /\ toMerge = {}
    /\ IF batch = {}
         THEN LeavePhase /\ UNCHANGED <<batch, mine>>
         ELSE \E block \in SUBSET batch :
                /\ Cardinality(block) = FirstBlock(Cardinality(batch))
                /\ mine' = block /\ batch' = batch \ block
                /\ pc' = "parallel" /\ UNCHANGED toMerge
    /\ UNCHANGED <<inbox, serial, sched, ids, stage, left, pending, running, shutdown,
                   gone, history>>

BeginMine(e) ==
    /\ pc = "parallel" /\ running[Main] = NoEvent /\ e \in mine
    /\ mine' = mine \ {e}
    /\ running' = [running EXCEPT ![Main] = e]
    /\ UNCHANGED <<inbox, serial, batch, sched, ids, loop, left, pending, shutdown, gone,
                   history>>

BeginTheirs(t, e) ==
    /\ pc = "parallel" /\ t \in PoolThreads \ {Main}
    /\ running[t] = NoEvent /\ holding[t] = NoEvent /\ e \in batch
    /\ batch' = batch \ {e}
    /\ running' = [running EXCEPT ![t] = e]
    /\ UNCHANGED <<inbox, serial, mine, sched, ids, loop, left, pending, shutdown, gone,
                   history>>

(* Bug: the phase ends with the dispatcher's own partition.                *)
EndParallelWithoutWaiting ==
    /\ pc = "parallel" /\ mine = {} /\ batch = {} /\ running[Main] = NoEvent
    /\ LeavePhase
    /\ UNCHANGED <<inbox, main, ids, stage, left, pending, running, shutdown, gone, history>>

(* retFuture.wait() returns once every partition is done.                  *)
EndParallel ==
    /\ pc = "parallel" /\ mine = {} /\ batch = {} /\ Running = {}
    /\ LeavePhase
    /\ UNCHANGED <<inbox, main, ids, stage, left, pending, running, shutdown, gone, history>>

---------------------------------------------------------------------------
(* The end of a pass, and the wait.                                        *)

(* Bug: what other threads had posted is overwritten.                      *)
MergeOverwriting(t) ==
    /\ pc = "merge" /\ t \in toMerge /\ holding[t] = NoEvent
    /\ toMerge' = toMerge \ {t}
    /\ serial' = queue[t]
    /\ queue' = [queue EXCEPT ![t] = <<>>]
    /\ sched' = sched \cup timed[t]
    /\ timed' = [timed EXCEPT ![t] = {}]
    /\ UNCHANGED <<asyncQueue, holding, batch, mine, ids, pc, stage, left, pending,
                   running, shutdown, gone, history>>

Merge(t) ==
    /\ pc = "merge" /\ t \in toMerge /\ holding[t] = NoEvent
    /\ toMerge' = toMerge \ {t}
    /\ serial' = serial \o queue[t]
    /\ queue' = [queue EXCEPT ![t] = <<>>]
    /\ sched' = sched \cup timed[t]
    /\ timed' = [timed EXCEPT ![t] = {}]
    /\ UNCHANGED <<asyncQueue, holding, batch, mine, ids, pc, stage, left, pending,
                   running, shutdown, gone, history>>

(* Bug: the flag is cleared and the lists are not looked at.               *)
CheckPendingBlindly ==
    /\ pc = "merge" /\ toMerge = {}
    /\ pending' = FALSE
    /\ pc' = "test"
    /\ UNCHANGED <<inbox, main, ids, stage, toMerge, left, running, shutdown, gone, history>>

CheckPending ==
    /\ pc = "merge" /\ toMerge = {}
    /\ pending' = (serial # <<>> \/ batch # {})
    /\ pc' = "test"
    /\ UNCHANGED <<inbox, main, ids, stage, toMerge, left, running, shutdown, gone, history>>

TestPending ==
    /\ pc = "test"
    /\ pc' = IF pending THEN "update" ELSE "wait"
    /\ UNCHANGED <<inbox, main, ids, stage, toMerge, left, pending, running, shutdown,
                   gone, history>>

Sleep ==
    /\ pc = "wait"
    /\ pc' = "asleep"
    /\ UNCHANGED <<inbox, main, ids, stage, toMerge, left, pending, running, shutdown,
                   gone, history>>

(* Bug: the wait has no time limit while a scheduled event is pending.     *)
TimeoutWhenIdle ==
    /\ pc = "asleep" /\ sched = {}
    /\ pc' = "timedOut"
    /\ UNCHANGED <<inbox, main, ids, stage, toMerge, left, pending, running, shutdown,
                   gone, history>>

(* timeUntilNextScheduledTask is the longest duration there is when        *)
(* nothing is scheduled: only SpuriousWake ends such a wait by itself.     *)
Timeout ==
    /\ pc = "asleep" /\ sched # {}
    /\ pc' = "timedOut"
    /\ UNCHANGED <<inbox, main, ids, stage, toMerge, left, pending, running, shutdown,
                   gone, history>>

SpuriousWake ==
    /\ Spurious /\ pc = "asleep"
    /\ pc' = "update"
    /\ UNCHANGED <<inbox, main, ids, stage, toMerge, left, pending, running, shutdown,
                   gone, history>>

---------------------------------------------------------------------------
(* CanaryServer::shutdown, on the program's main thread: notify_all first, *)
(* then ThreadPool::shutdown sets the flag and waits for the loop to end.  *)

NotifyAll ==
    /\ shutdown = "running"
    /\ shutdown' = "notified"
    /\ pc' = Awake(pc)
    /\ UNCHANGED <<inbox, main, ids, stage, toMerge, left, pending, running, gone, history>>

StopPool ==
    /\ shutdown = "notified"
    /\ shutdown' = "stopped"
    /\ UNCHANGED <<inbox, main, ids, loop, left, pending, running, gone, history>>

Exit ==
    /\ pc \in {"update", "timedOut"} /\ shutdown = "stopped"
    /\ pc' = "done"
    /\ UNCHANGED <<inbox, main, ids, stage, toMerge, left, pending, running, shutdown,
                   gone, history>>

---------------------------------------------------------------------------
Post(t) == \E e \in Events : AddEvent(t, e) \/ AsyncEvent(t, e) \/ TakeId(t, e)

LoopStep ==
    \/ \E d \in 0..MaxStep : UpdateTime(d)
    \/ BeginSerial \/ EndSerial
    \/ (\E e \in sched : BeginTimed(e)) \/ EndTimed
    \/ \E t \in Threads : MergeAsync(t) \/ Merge(t)
    \/ StartParallel \/ (\E e \in mine : BeginMine(e)) \/ EndParallel
    \/ CheckPending \/ TestPending \/ Sleep \/ Exit

ThreadStep(t) == ScheduleEvent(t) \/ Notify(t) \/ EndBody(t)
PoolStep(t) == \E e \in batch : BeginTheirs(t, e)

Next ==
    \/ LoopStep
    \/ \E t \in Threads : Post(t) \/ ThreadStep(t) \/ PoolStep(t)
    \/ \E e \in TimedEvents : StopEvent(e)
    \/ Timeout \/ SpuriousWake \/ NotifyAll \/ StopPool

Spec == Init /\ [][Next]_vars

(* Every thread that can take a step of code it has begun takes it, the    *)
(* clock runs, and a shutdown that was begun goes on.  Nobody has to post, *)
(* to stop an event or to shut the server down.                            *)
Fairness ==
    /\ WF_vars(LoopStep) /\ WF_vars(Timeout) /\ WF_vars(StopPool)
    /\ \A t \in Threads : WF_vars(ThreadStep(t)) /\ WF_vars(PoolStep(t))

FairSpec == Spec /\ Fairness

---------------------------------------------------------------------------
TypeOK ==
    /\ queue \in [Threads -> Seq(SerialEvents)]
    /\ asyncQueue \in [Threads -> SUBSET AsyncEvents]
    /\ timed \in [Threads -> SUBSET TimedEvents]
    /\ holding \in [Threads -> EventOrNone]
    /\ serial \in Seq(SerialEvents)
    /\ batch \in SUBSET AsyncEvents /\ mine \in SUBSET AsyncEvents
    /\ sched \in SUBSET TimedEvents
    /\ ref \in SUBSET TimedEvents
    /\ idOf \in [TimedEvents -> Nat] /\ lastId \in Nat
    /\ cancelled \in SUBSET TimedEvents
    /\ left \in [SerialEvents \cup TimedEvents -> Int]
    /\ pending \in BOOLEAN
    /\ pc \in {"update", "serial", "timed", "mergeAsync", "parallel", "merge", "test",
               "wait", "asleep", "timedOut", "done"}
    /\ stage \in {"events", "scheduled"} /\ toMerge \in SUBSET Threads
    /\ running \in [Threads -> EventOrNone]
    /\ shutdown \in {"running", "notified", "stopped"}
    /\ posted \in SUBSET Events /\ gone \in SUBSET Events
    /\ sent \in [Threads -> Seq(SerialEvents)]
    /\ promised \in SUBSET (AsyncEvents \X SerialEvents)
    /\ stopCalled \in SUBSET TimedEvents

(***************************************************************************)
(* Safety.                                                                 *)
(***************************************************************************)

(* Where an event can be: in the inbox of the thread that posted it, in    *)
(* the dispatcher's own lists, on a thread, or gone.                       *)
Unregistered(t) == {e \in TimedEvents : holding[t] = e /\ idOf[e] = 0}
Inbox(t) == Range(queue[t]) \cup asyncQueue[t] \cup timed[t] \cup Unregistered(t)
Merged == Range(serial) \cup batch \cup mine \cup sched

(* No event is lost on its way from a poster to its execution, whichever   *)
(* merges and phases it crosses (insert and clear in mergeEvents and       *)
(* mergeAsyncEvents, tasks.clear() after a phase).                         *)
NoneLost == posted = (UNION {Inbox(t) : t \in Threads}) \cup Merged \cup Running \cup gone

(* No event is in two places, nor twice in one: none executes twice.       *)
HeldOnce ==
    /\ \A t \in Threads : IsInjective(queue[t])
    /\ IsInjective(serial) /\ batch \cap mine = {}
    /\ \A t, u \in Threads : t # u => Inbox(t) \cap Inbox(u) = {}
    /\ \A t \in Threads : Inbox(t) \cap (Merged \cup Running \cup gone) = {}
    /\ Merged \cap (Running \cup gone) = {}
    /\ Running \cap gone = {}
    /\ \A t, u \in Threads : running[t] = running[u] => t = u \/ running[t] = NoEvent

(* Serial and scheduled events have the game to themselves: no pool thread *)
(* executes an asynchronous event while the dispatcher executes one of     *)
(* them, and only the dispatcher does (retFuture.wait() in asyncWait).     *)
PhaseExclusion ==
    /\ \A t \in Workers : running[t] \in AsyncEvents \cup {NoEvent}
    /\ (\E t \in Workers : running[t] # NoEvent) =>
          running[Main] \in AsyncEvents \cup {NoEvent}

(* The serial events of one thread are executed in the order in which it   *)
(* posted them, across merges and passes.                                  *)
Begun == gone \cup Running
FifoPerThread ==
    \A t \in Threads : \A i, j \in DOMAIN sent[t] :
        i < j /\ sent[t][j] \in Begun => sent[t][i] \in gone

(* What Creature::goToFollowCreature_async counts on: a completion posted  *)
(* with addEvent, after an asyncEvent, by the same serial body, starts     *)
(* only when the asynchronous event has ended.                             *)
CompletionAfterAsync ==
    \A p \in promised : p[2] \in Begun => p[1] \in gone

(* The dispatcher never goes to sleep over events it has merged itself:    *)
(* checkPendingTasks and the phases of a pass leave nothing behind.        *)
NoSleepOverMerged ==
    pc \in {"wait", "asleep"} => serial = <<>> /\ batch = {} /\ mine = {} /\ Running = {}

(* What notify() is for: the dispatcher is not left asleep over an event   *)
(* that another thread has posted, notified and released.                  *)
NoSleepOverPosted ==
    pc = "asleep" => \A t \in Threads : holding[t] = NoEvent => queue[t] = <<>>

(* Once stopEvent was called for an event, and no other event was given    *)
(* the same id, it never starts: not from the inbox, not from the list and *)
(* not when it is already due in the pass that is executing.               *)
OwnId(e) == \A f \in TimedEvents : f # e => idOf[f] # idOf[e]
StopIsFinal ==
    [][\A e \in stopCalled : OwnId(e) /\ e \notin Running => e \notin Running']_vars

(***************************************************************************)
(* Liveness.                                                               *)
(***************************************************************************)

(* "Dispatcher allow you to dispatch a task async to be executed in the    *)
(* dispatching thread": every posted event is executed or, expired or      *)
(* stopped, dropped, unless the server is shut down first.                 *)
EveryEventHandled ==
    \A e \in Events \ CycleEvents :
        e \in posted ~> (e \in gone \/ shutdown # "running")

(* A periodic event never ceases to be executed.                           *)
CyclesRecur ==
    \A e \in CycleEvents : []<>(running[Main] = e \/ shutdown # "running")

(* ThreadPool::shutdown does not wait for ever: the loop sees the flag,    *)
(* though notify_all comes before the flag is set.                         *)
LoopStops == shutdown = "stopped" ~> pc = "done"

=============================================================================
