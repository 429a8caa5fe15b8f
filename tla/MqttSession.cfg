CONSTANTS
    Messages = {m1, m2, m3}
    Qos2Messages = {m1, m2}
    LongMessages = {m2}
    NoMessage = none
    TxRoom = 2
    MaxPublishes = 2
    MaxPings = 2
    MaxTraffic = 3
    MaxFaults = 1
SPECIFICATION FairSpec
INVARIANTS
    TypeOK
    ForwardedOnce
    DeliveredOnce
    AcksAreExpected
    PongsHavePings
PROPERTY PublishCompletes
