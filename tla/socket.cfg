SPECIFICATION FairSpec
CONSTANTS
    PingTimeOut = 10
    PacketDeliveryTimeOut = 3
    ReconnectTimeOut = 3
    AnswerTime = 2
INVARIANTS
    OneConnection
    DeadNoticed
PROPERTIES
    HealthyKept
    Replaced
