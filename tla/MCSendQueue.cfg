SPECIFICATION FairSpec
CONSTANTS
    Thread = {t1, t2}
    Msg = {m1, m2}
    NoMsg = NoMsg
    Units = 2
    Cap = 1
INVARIANTS AskIsHeard BlockedSendResumes EndKeepsOrder
PROPERTIES ImplementsChannel AskedIsWritten TrafficFlushes
CHECK_DEADLOCK FALSE
