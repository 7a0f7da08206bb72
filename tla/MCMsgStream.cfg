SPECIFICATION FairSpec
CONSTANTS
    m1 = m1  m2 = m2  m3 = m3
    Msg = {m1, m2, m3}
    NoMsg = NoMsg
    Base = 4
    FieldBytes = 2
    Magic = 13
    MaxPayload = 3
    MsgId <- MCMsgId
    PayloadLen <- MCPayloadLen
    Cap = 8
INVARIANTS StreamInv NoDataForgotten
PROPERTIES ImplementsChannel WrittenIsDelivered
CHECK_DEADLOCK FALSE
