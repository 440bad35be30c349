SPECIFICATION Spec
CONSTANTS
    Key = {k1, k2, k3}
    Observed = k1
    Max = 2
    Burst = 2
    Every = 2
    IdleTTL = 4
    MaxTime = 9
INVARIANTS TypeOK MapBounded WindowBudget IInv
PROPERTIES RecentKept BucketsSpec
