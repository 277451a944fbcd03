CONSTANTS
    Worker = {c1, c2}
    Limit = 2
    Window = 2
    Menus <- MCMenus
    Key <- MCKey
    Account <- MCAccount
    Id = {i1, i2}
    Ops = ops
    None = None
    ops = ops
    ann = ann
    i1 = i1
    i2 = i2
    MaxNow = 3
    MaxTries = 2
    MaxCrash = 1
SPECIFICATION Spec
SYMMETRY Symmetry
CHECK_DEADLOCK FALSE
INVARIANTS
    TypeOK
    WindowLimit
    PaidAsDelivered
    AirtimeIsPaidFor
    ConfirmsItsOwn
