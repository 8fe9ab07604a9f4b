SPECIFICATION Spec
CONSTANTS
    MaxItems = 3
    MaxBody = 5
    Inputs <- MCInputs
INVARIANT TypeOK InBounds ReadsBack CutIsPrefix
PROPERTY Terminates
\* The processor returns, and that is all.
CHECK_DEADLOCK FALSE
