SPECIFICATION HistorySpec
CONSTANTS
    t1 = t1
    t2 = t2
    r1 = r1
    r2 = r2
    h1 = h1
    h2 = h2
    s1 = s1
    n1 = n1
    q1 = q1
    q2 = q2
    Null = Null
    Tasks = {t1}
    Rooms = {r1}
    Housekeepers = {h1}
    Supervisors = {s1}
    Notes = {n1}
    Slots = {q1, q2}
    InitialRoomStatuses <- DirtyRoom
    FrontDeskTargets <- OutOfOrder
    Logged = {"start", "pass"}
    MaxTime = 2
    CanFail = TRUE
SYMMETRY Interchangeable
INVARIANTS TypeOK AssigneeKnown PendingUntouched InspectionRecorded PromotionBacked AuditJustified DatesUntilOverlap
PROPERTIES RecordsKept CompletedUntilOverlap NotesUntilOverlap RoomsLegalUntilOverlap TurnoverUntilOverlap PassedAreDecided
