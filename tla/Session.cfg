CONSTANTS
    c1 = c1  c2 = c2
    None = None
    Clients = {c1, c2}
    AsyncClients = {c1}
    KickAfter = 1
    MaxChanges = 1
    MaxSaves = 3
    MaxChecks = 1
    MaxDeaths = 1
SPECIFICATION FairSpec
INVARIANTS TypeOK OneInWorld ClientHasPlayer NothingLost
PROPERTIES ScheduledIsSaved
CHECK_DEADLOCK FALSE
