SPECIFICATION Spec
CONSTANTS
    Request = {r1, r2}
    Janitor = Janitor
    Statements = {0, 2}
    MaxOpenConns = 2
    Env <- MCEnv
    Second = 10
    Day = 10
    IntBound = 128
CHECK_DEADLOCK FALSE
INVARIANTS TypeOK RequestsWaitedFor NoConnectionLost TTLsAsConfigured
PROPERTIES RequestsServed SignalEnds BindFailureEnds
