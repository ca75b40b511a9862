SPECIFICATION Spec
CONSTANTS
    Kinds = {"routing"}
    Service = {"a", "b", "c", "d"}
    Second = 2
    Hour = 6
    DefaultLookback = 3
    CardinalityWindow = 6
    maxLabelCardinality = 1
    TimelineDefault = 2
    TimelineMax = 3
    MaxText = 4
    MaxWhere = 6
    MaxClauses = 5
    MaxParens = 7
    MaxSkew = 3
    MaxSamples = 3
    MaxRows = 3
    MaxRouting = 5
INVARIANTS
    OrNeverFires
CHECK_DEADLOCK FALSE
