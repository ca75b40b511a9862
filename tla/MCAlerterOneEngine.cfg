SPECIFICATION Spec
CONSTANTS
    Engine = {e1}
    Rule = {"db_errors", "db_latency"}
    Service = {"api", "db", "*"}
    Star = "*"
    None = None
    service <- MCService
    Notifies = {"db_errors"}
    Adjacent <- MCAdjacent
    Score = {60}
    pageMinConfidence = 60
    MaxIncidents = 2
    MaxFaults = 1

    
PROPERTIES
    ResolvedIsFinal
CHECK_DEADLOCK FALSE
