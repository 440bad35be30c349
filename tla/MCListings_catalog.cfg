SPECIFICATION Spec
CONSTANTS
    User = {u1, u2}
    Listing = {l1, l2}
    Media = {m1, m2}
    Worker = {w1, w2}
    Client = {c1}
    None = None
    PriceText <- MCPriceText
    StatusText = {"rented", "available"}
    CreateForm <- MCCreateForm
    UpdateForm <- MCUpdateForm
    Asked <- MCAsked
    Order = {0, 1, 2}
    PageText = {0, 1, 3}
    LimitText = {0, 1, 2, 3}
    MaxPrice = 2
    PriceCapacity = 2
    IntegerMax = 1
    AddressMax = 1
    MaxPageSize = 2
    IntBound = 4
    MaxClock = 3
SYMMETRY Symmetry
INVARIANTS TypeOK NoOrphans PlainPriceFits CalmReadExact WalkShowsAll
PROPERTIES OnlyOwnerChanges CatalogueSpec
