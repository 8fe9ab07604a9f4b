SPECIFICATION Spec
CONSTANTS
    MaxItems = 2
    MaxBody = 1
    Inputs <- MCInputs
INVARIANT NoSilentCorruption
\* The processor returns, and that is all.
CHECK_DEADLOCK FALSE
