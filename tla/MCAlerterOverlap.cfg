SPECIFICATION Spec
CONSTANTS
    Engine = {e1, e2}
    Rule = {"any_errors"}
    Service = {"*"}
    Star = "*"
    None = None
    service <- MCService
    Notifies = {"any_errors"}
    Adjacent <- MCAdjacent
    Score = {20, 60}
    pageMinConfidence = 60
    MaxIncidents = 2
    MaxFaults = 2
SYMMETRY Symmetry
INVARIANTS
    OneOpenPerFingerprint
    PagedAboveGate
    SeverityNeverOverstates
    OpenedAnnouncedOnce
    PagedAtMostOnce
CHECK_DEADLOCK FALSE
