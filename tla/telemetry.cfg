SPECIFICATION FairSpec
CONSTANTS
    m1 = m1  m2 = m2
    Null = Null
    Messages = {m1, m2}
    Contents <- Everything
    Refusable = {"error"}
INVARIANTS TypeOK EventsFaithful EventsInTurn WaitingAreInHand
PROPERTIES ImplementsEventBus EmittedInTheEnd AlwaysResubscribed OnlyLossLoses
CHECK_DEADLOCK FALSE
