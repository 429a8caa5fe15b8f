SPECIFICATION FairSpec
CONSTANTS
    Apps = {"mqtt", "lwm2m"}
    MaxFaults = 3
INVARIANTS
    TypeOK
    ReconnectsAlways
    SuspensionIsKnown
PROPERTIES
    MediatorFollowsLink
    AppRuns
