CONSTANTS
    Threads = {main, t1, t2}
    Main = main
    Connections = {c1, c2}
    Tickers = {update, loot}
    Save = save
SPECIFICATION FairSpec
\* The process ends.
CHECK_DEADLOCK FALSE
INVARIANTS
    OneAtATime
    TickersLive
PROPERTIES
    InOrder
    RequestsAnswered
    SignalEnds
