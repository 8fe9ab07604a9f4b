SPECIFICATION Spec
CONSTANTS
    a = a
    b = b
    c = c
    Rows <- MCRows
    MaxSavepoints = 4
INVARIANT TypeOK
PROPERTY ImplementsNesting NoSilentPartialRollback
