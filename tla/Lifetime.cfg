CONSTANTS
    Wrappers = {w1, w2, w3, w4}
    Holding = {w1, w2}
    Fds = {f1, f2}
    NoFd = NoFd
    Free = Free
    Other = Other
    Nobody = Nobody
SPECIFICATION FairSpec
INVARIANTS
    LifetimeInv
    PolledLives
    PointerMatchesHandle
    DeadHoldsNothing
    CalledWrapperLives
PROPERTIES
    DestroyedIsReleased
CHECK_DEADLOCK FALSE
