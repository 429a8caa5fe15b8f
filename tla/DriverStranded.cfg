CONSTANTS
    Tasks = {t1, t2}
    Spawn = spawn
    NoOne = noone
    CallKinds = {"async", "send", "recv"}
    MaxCalls = 3
    MaxEvents = 1
    MaxUnread = 3
    SpawnQueueLength = 4
    TxBuffers = 3
    Faults = {}
SPECIFICATION Spec
INVARIANT NoMessageStranded
