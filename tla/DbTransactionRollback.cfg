CONSTANTS
    d = d  p = p  q = q
    player = player  kv = kv  async = async  c1 = c1
    NoThread = NoThread
    Threads = {d, p, q}
    Transactions = {player, kv}
    Standalone = {c1}
    ThreadOf <- Placed
    Throws = {player}
    Parts = 2
    MaxFaults = 0
SPECIFICATION Spec
PROPERTY RollbackIsOwn
CHECK_DEADLOCK FALSE
