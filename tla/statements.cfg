SPECIFICATION Spec
CONSTANTS
    TableColumns <- MCTableColumns
    Keys = {"id", "name", "nope"}
    Values = {1, 2}
    Dicts = {"d"}
    InitialItems <- MCInitialItems
    Inserts = {s1, s2}
    Merges = {m1, m2}
    Sources = {source, other}
    Conditions = {"c"}
    UpsertCalls <- MCUpsertCalls
    None = None
    MaxCalls = 4
SYMMETRY MCSymmetry
INVARIANT TypeOK UpsertAsAsked MergeAsAsked
\* The client is done.
CHECK_DEADLOCK FALSE
