CONSTANTS
    Schemas <- AllSchemas
    Ids = {1, 2}
    Null = Null
    Unset = Unset
    NoRow = NoRow
    NoId = NoId
    Tried <- TriedColumns
    Predicates <- TriedPredicates
    MaxCalls = 2
    MaxTrips = 2
    MaxFaults = 1
SPECIFICATION Spec
INVARIANTS
    RowsWhole
    OldPrecedesSave
PROPERTIES
    ImmutableKept
    UpdateMeansCalls
    QueryAnswers
CHECK_DEADLOCK FALSE
