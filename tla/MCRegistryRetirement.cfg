\* Is every stay retired and recorded properly, and whoever goes idle for good
\* retired at last?  Two players, two restarts, ticks of two lengths by the
\* ticker, an idle limit that no tick divides and a save every second unit.  No
\* symmetry, for the liveness.
CONSTANTS
    Names = {n1, n2}
    Maps = {m1}
    Tokens = {t1, t2}
    Deltas = {1, 2}
    MaxInactive = 3
    SavePeriod = 2
    MaxRuns = 3
    AutoTick = TRUE
SPECIFICATION FairSpec
\* the server may stay down once its runs are used up
CHECK_DEADLOCK FALSE
INVARIANTS
    RecordedIsGone
    SaveForgetsRetired
PROPERTIES
    OnlyIdleRetire
    IdleIsRetired
