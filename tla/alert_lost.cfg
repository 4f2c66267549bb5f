SPECIFICATION FairSpec
CONSTANTS
    m1 = m1  m2 = m2
    Null = Null
    Messages = {m1}
    Contents <- Alerts
    Refusable = {}
PROPERTY AlertsGetThrough
CHECK_DEADLOCK FALSE
