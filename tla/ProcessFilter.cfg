CONSTANTS
    Pids <- MCPids
    Own = 2
    Names <- MCNames
    EmptyNames <- MCEmptyNames
    IgnoredNames <- MCIgnoredNames
    ExemptNames <- MCExemptNames
    RelevantNames <- MCRelevantNames
    Processes <- MCProcesses
    AgentProcess <- MCAgentProcess
    Limits <- MCLimits
SPECIFICATION Spec
INVARIANTS
    TypeOK
    ReportedByDefinition
    BreaksExactlyAtZero
