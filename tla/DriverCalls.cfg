CONSTANTS
    Tasks = {t1, t2}
    Spawn = spawn
    NoOne = noone
    CallKinds = {"async", "send", "recv"}
    MaxCalls = 3
    MaxEvents = 1
    MaxUnread = 2
    SpawnQueueLength = 4
    TxBuffers = 3
    Faults = {}
SPECIFICATION FairSpec
INVARIANTS
    AnswerIsOwn
    LocksAreReturned
    NoMessageStranded
PROPERTY CallsReturn
