SPECIFICATION Spec
CONSTANTS
    Kinds = {"text", "where", "clauses", "query", "parens", "loki", "streams", "prom", "topology", "timeline", "routing"}
    Service = {"a", "b", "c", "d"}
    Second = 2
    Hour = 6
    DefaultLookback = 3
    CardinalityWindow = 6
    maxLabelCardinality = 1
    TimelineDefault = 2
    TimelineMax = 3
    MaxText = 4
    MaxWhere = 6
    MaxClauses = 5
    MaxParens = 7
    MaxSkew = 3
    MaxSamples = 3
    MaxRows = 3
    MaxRouting = 5
INVARIANTS
    TextIsKept
    ParserIsGrammar
    QueryIsConfined
    TailAgreesWithQuery
    GrafanaKeepsRows
    PromAnswersSamples
    BlastRadiusIsCallers
    TimelineIsLatest
    SimulationIsConservative
CHECK_DEADLOCK FALSE
