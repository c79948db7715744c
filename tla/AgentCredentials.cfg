CONSTANTS
    heartbeat = heartbeat
    discovery = discovery
    Loops <- MCLoops
    MaxFaults = 4
    MaxOutages = 2
SPECIFICATION FairSpec
INVARIANTS
    TypeOK
    NoSpuriousRegistration
    RestartSafe
    RetryIsNewer
PROPERTIES
    ImplementsIdentity
    EventuallyInSync
    CallsKeepBeingAccepted
