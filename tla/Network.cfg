CONSTANTS
    c1 = c1  x = x  y = y
    NoMsg = NoMsg
    Conns = {c1}
    Strangers = {x, y}
    MaxData <- ItemsOf
    MaxPackets <- ReadsOf
    MaxChains = 2
    BufferSize = 2
    MaxSeqNo = 2
SPECIFICATION FairSpec
INVARIANTS TypeOK OneWriter OneReader Numbered ReleasedIsForgotten
PROPERTIES ImplementsChannel WrittenArrivesOrCloses ClosedLetsGo
CHECK_DEADLOCK FALSE
