SPECIFICATION Spec
CONSTANTS
    User = {u1}
    Token = {t1}
    ResetToken = {}
    Worker = {w1, w2}
    None = None
    AccessTTL = 2
    RefreshTTL = 1
    ResetTTL = 1
    MaxTime = 3
PROPERTY RejectedStaysRejected
