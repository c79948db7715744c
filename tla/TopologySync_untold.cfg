CONSTANTS
    plain = plain
    local = local
    NoTopology = NoTopology
    Topologies <- MCTopologies
    WithLocalImages <- MCWithLocalImages
    ChannelCapacity = 2
    MaxAttempts = 2
    MaxIssued = 2
    MaxScans = 1
    MaxChanges = 1
    MaxExports = 1
    MaxFaults = 1
SPECIFICATION FairSpec
PROPERTIES
    GatewayIsTold
