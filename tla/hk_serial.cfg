SPECIFICATION FairSpec
CONSTANTS
    t1 = t1
    t2 = t2
    r1 = r1
    r2 = r2
    h1 = h1
    h2 = h2
    s1 = s1
    n1 = n1
    q1 = q1
    q2 = q2
    Null = Null
    Tasks = {t1, t2}
    Rooms = {r1}
    Housekeepers = {h1}
    Supervisors = {s1}
    Notes = {}
    Slots = {q1}
    InitialRoomStatuses <- DirtyRoom
    FrontDeskTargets <- FrontDeskMoves
    Logged = {}
    MaxTime = 2
    CanFail = TRUE
PROPERTIES ImplementsTurnover
