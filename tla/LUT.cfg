CONSTANTS
    gcc = gcc
    glibc = glibc
    bash = bash
    vim = vim
    Keys = {gcc, glibc, bash, vim}
    Data = {d1, d2}
    NoData = NoData
    NoHolder = NoHolder
    Hash <- Collide
    InitialSize = 1
    OverlapRange = 2
SPECIFICATION Spec
SYMMETRY Symmetry
INVARIANTS
    TypeOK
    Placed
    Distinct
    RoomLeft
    RefsExact
    HeldStaysValid
PROPERTIES
    ImplementsIdTable
CHECK_DEADLOCK FALSE
