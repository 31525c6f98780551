\* Do the indices stay consistent, and is the loss of a crash bounded, after
\* inserts and saves that threw and are tried again?  Two names on two maps,
\* three stays, so a name can come back on another map, and one restart.
CONSTANTS
    Names = {n1, n2}
    Maps = {m1, m2}
    Tokens = {t1, t2, t3}
    Deltas = {1}
    MaxInactive = 1
    SavePeriod = 2
    MaxRuns = 2
    AutoTick = FALSE
SYMMETRY Symmetry
SPECIFICATION Spec
\* the server may stay down once its runs are used up
CHECK_DEADLOCK FALSE
INVARIANTS
    OneRecordPerRun
    IndexConsistent
    FileConsistent
    TokenIdentity
    BoundedLoss
PROPERTIES
    KeepsLedger
