CONSTANTS
    Reports <- MCReports
    Redacted <- MCRedacted
    Masked = "aegis-mock-value"
    RedactedText = "[REDACTED]"
SPECIFICATION Spec
INVARIANT
    ConnectsToRawHost
