CONSTANTS
    web = web
    db = db
    one = one
    two = two
    latest = latest
    v1 = v1
    pause = pause
    uid0 = uid0
    app = app
    None = None
    Hosts <- MCHosts
    Ids = {web, db}
    Names = {"app", "k8s_pod_app"}
    References <- MCReferences
    Images = {one, two}
    Users = {uid0, app}
    Versioned = {v1}
    RootUsers = {uid0}
    ExcludedContainers <- MCExcluded
    Clusters <- MCClusters
    ExcludedNamespaces = {"kube-system"}
    MaxChanges = 2
SPECIFICATION FairSpec
INVARIANTS
    TypeOK
    SourcesIndependent
    StatusOfOwnContainer
    RootAsRun
PROPERTIES
    ChosenDaemonAsked
    ImageOfOwnContainer
    AnswersAsListed
    CollectionEnds
