SPECIFICATION FairSpec
CONSTANTS
    User = {u1}
    Token = {t1, t2}
    ResetToken = {r1}
    Worker = {w1, w2}
    None = None
    AccessTTL = 2
    RefreshTTL = 1
    ResetTTL = 1
    MaxTime = 1
PROPERTY RequestsFinish
