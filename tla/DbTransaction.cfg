CONSTANTS
    d = d  p = p  q = q
    player = player  kv = kv  async = async  c1 = c1
    NoThread = NoThread
    Threads = {d, p, q}
    Transactions = {player, kv, async}
    Standalone = {c1}
    ThreadOf <- Placed
    Throws = {player, async}
    Parts = 2
    MaxFaults = 2
SPECIFICATION FairSpec
INVARIANTS TypeOK LockKept Atomic
PROPERTY Finishes
CHECK_DEADLOCK FALSE
