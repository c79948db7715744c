CONSTANTS
    heartbeat = heartbeat
    discovery = discovery
    Loops <- MCLoops
    MaxFaults = 2
    MaxOutages = 1
SPECIFICATION FairSpec
PROPERTIES
    RestartRecovers
