SPECIFICATION Spec
CONSTANTS
    a1 = a1
    A1 = A1
    a2 = a2
    User = {u1, u2}
    Address = {a1, A1, a2}
    Lower <- MCLower
    Phone = {p1, p2}
    Link = {l1, l2}
    Worker = {w1, w2, w3}
    None = None
    LinkTTL = 0
    MaxTime = 1
SYMMETRY Symmetry
INVARIANTS TypeOK OneAccountPerContact CreatedCanVerify MailedLinkWorks VerifiedByMail
PROPERTY RegistrySpec
