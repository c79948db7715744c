CONSTANTS
    internal = internal
    cluster = cluster
    localhost = localhost
    public = public
    NoObject = NoObject
    NoHost = NoHost
    ContainerLists <- MCContainerLists
    PublicImages <- MCPublicImages
    Hosts <- MCHosts
    InternalHosts <- MCInternalHosts
    LocalHost = localhost
    DefaultHost = internal
    AllowHttp = TRUE
    MaxAttempts = 2
    MaxNow = 1
SPECIFICATION Spec
INVARIANTS
    ReferencesResolve
    ArchiveShared
    ReplacedHostRestored
