CONSTANTS
    d = d  p = p  n = n
    s1 = s1  s2 = s2  s3 = s3  a1 = a1  a2 = a2  t1 = t1  t2 = t2  c1 = c1
    NoEvent = NoEvent
    Threads = {d, p, n}
    Main = d
    PoolThreads = {d, p}
    SerialEvents = {s1, s2}
    AsyncEvents = {a1, a2}
    TimedEvents = {t1}
    CycleEvents = {}
    Schedulers = {d}
    Delay <- NoDelay
    Ttl <- OneMayExpire
    MaxStep = 1
    Spurious = TRUE
SPECIFICATION Spec
SYMMETRY Interchangeable
INVARIANTS TypeOK NoneLost HeldOnce PhaseExclusion FifoPerThread CompletionAfterAsync NoSleepOverMerged
CHECK_DEADLOCK FALSE
