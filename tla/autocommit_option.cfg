SPECIFICATION Spec
CONSTANTS
    RC = RC
    RR = RR
    SER = SER
    s1 = s1
    s2 = s2
    AUTOCOMMIT = AUTOCOMMIT
    Unset = Unset
    Levels <- MCLevels
    DefaultLevel = RC
    ServerDefault = RC
    Slots <- MCSlots
    EngineLevel = Unset
    PrePing = FALSE
    LinkErrors <- MCLinkErrors
    SqlErrors <- MCSqlErrors
\* Every record may end up lost, and then nothing is left to do.
CHECK_DEADLOCK FALSE
INVARIANT AutocommitPromise
