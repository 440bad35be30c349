SPECIFICATION Spec
CONSTANTS
    User = {u1}
    Token = {t1, t2, t3}
    ResetToken = {r1}
    Worker = {w1, w2}
    None = None
    AccessTTL = 2
    RefreshTTL = 1
    ResetTTL = 1
    MaxTime = 1
SYMMETRY Symmetry
INVARIANTS TypeOK SingleLiveToken LockdownKillsStored ResetSingleUse
PROPERTY ChainsSpec
