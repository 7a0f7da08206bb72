SPECIFICATION FairSpec
CONSTANTS
    Thread = {t1, t2}
    Msg = {m1, m2}
    NoMsg = NoMsg
    Units = 2
    Cap = 1
PROPERTY PushedIsWritten
CHECK_DEADLOCK FALSE
