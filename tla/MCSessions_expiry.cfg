SPECIFICATION Spec
CONSTANTS
    User = {u1}
    Token = {t1, t2}
    ResetToken = {r1}
    Worker = {w1, w2}
    None = None
    AccessTTL = 2
    RefreshTTL = 0
    ResetTTL = 0
    MaxTime = 2
SYMMETRY Symmetry
INVARIANTS NewSessionAccepted IInv
