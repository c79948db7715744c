CONSTANTS
    None = None
    Nothing = None
    Text <- MCText
    EnvKeys <- MCEnvKeys
    LowerCase <- MCLowerCase
    HostName <- MCHostName
    Nodes <- MCNodes
    Bindings <- MCBindings
    Services <- MCServices
    Ingresses <- MCIngresses
    MaxBindings = 3
    MaxNodes = 3
SPECIFICATION Spec
INVARIANTS
    TypeOK
    BestSourceKept
    AttributesReported
    HashesPaired
    RoutesMatchPorts
