SPECIFICATION HistorySpec
CONSTANTS
    d1 = d1  p1 = p1  p2 = p2  r1 = r1  r2 = r2  e1 = e1  q1 = q1  q2 = q2
    Null = Null  Keep = Keep
    Devices = {d1}
    Properties = {p1, p2}
    Rooms = {r1}
    Home <- OneRoom
    Faults = {e1}
    Edits <- Evictions
    Slots = {q1, q2}
    Threshold = 0
    MaxTime = 2
    CanFail = TRUE
SYMMETRY Interchangeable
INVARIANTS TypeOK StatusExplained IssuedWasSent CommandsReachTheRoom
PROPERTIES ComesBackNew OnlyOperatorsPlace OnlyStaleGoOfflineUntilOverlap
