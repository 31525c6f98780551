SPECIFICATION FairSpec
CONSTANTS
    Users = {u1, u2, u3, u4}
    Connections = {c1, c2, c3}
    None = None
PROPERTIES
    LendsExclusively
    SleepersServed
