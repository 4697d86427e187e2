CONSTANTS
    d = d  p = p  n = n
    s1 = s1  s2 = s2  s3 = s3  a1 = a1  a2 = a2  t1 = t1  t2 = t2  c1 = c1
    NoEvent = NoEvent
    Threads = {d, p}
    Main = d
    PoolThreads = {d, p}
    SerialEvents = {s1}
    AsyncEvents = {a1, a2}
    TimedEvents = {c1, t1}
    CycleEvents = {c1}
    Schedulers = {d, p}
    Delay <- OneTick
    Ttl <- OneMayExpire
    MaxStep = 1
    Spurious = FALSE
SPECIFICATION FairSpec
PROPERTIES EveryEventHandled CyclesRecur LoopStops StopIsFinal
CHECK_DEADLOCK FALSE
