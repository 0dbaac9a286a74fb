CONSTANTS
    A = A
    B = B
    C = C
    D = D
    a1 = a1
    b1 = b1
    b2 = b2
    c1 = c1
    d1 = d1
    x = x
    Packages = {A, B, C, D}
    Listing <- List
    SlotOf <- Slot
    IUse <- Flags
    Required <- MustUse
    Damaged = {d1}
    Requests <- Asked
    Repositories <- Repos
    Earlier <- ReadBefore
    NoEbuild = NoEbuild
    NoSlot = NoSlot
    MaxRequests = 3
    MaxSessions = 1
SPECIFICATION Spec
INVARIANTS
    ReturnedIsComplete
CHECK_DEADLOCK FALSE
