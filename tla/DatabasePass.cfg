CONSTANTS
    Reports <- MCReports
    Redacted <- MCRedacted
    Masked = "aegis-mock-value"
    RedactedText = "[REDACTED]"
    Connections <- MCConnections
    Databases <- MCDatabases
    SystemSchemas <- MCSystemSchemas
SPECIFICATION FairPassSpec
INVARIANTS
    TablesOfOwnDatabase
    FailuresIsolated
    ConnectsAsDeclared
    TablesApart
    KeysOfOwnTable
PROPERTY
    EnrichmentEnds
