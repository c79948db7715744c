CONSTANTS
    plain = plain
    local = local
    NoTopology = NoTopology
    Topologies <- MCTopologies
    WithLocalImages <- MCWithLocalImages
    ChannelCapacity = 1
    MaxAttempts = 2
    MaxIssued = 2
    MaxScans = 2
    MaxChanges = 2
    MaxExports = 1
    MaxFaults = 1
SPECIFICATION FairSpec
INVARIANTS
    TypeOK
    UploadedIsStored
    NoticeOfOwner
PROPERTIES
    Converges
    ScanForcesUpload
