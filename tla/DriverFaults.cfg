CONSTANTS
    Tasks = {t1, t2}
    Spawn = spawn
    NoOne = noone
    CallKinds = {"command", "async", "send", "recv"}
    MaxCalls = 3
    MaxEvents = 0
    MaxUnread = 2
    SpawnQueueLength = 1
    TxBuffers = 3
    Faults = {"timeout", "write", "read"}
SPECIFICATION Spec
SYMMETRY Symmetric
CHECK_DEADLOCK FALSE
INVARIANTS
    TypeOK
    MessagesAreCounted
    CreditIsCovered
    TransportIsExclusive
