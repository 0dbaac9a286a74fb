CONSTANTS
    e1 = e1
    e2 = e2
    e3 = e3
    e4 = e4
    e5 = e5
    e6 = e6
    e7 = e7
    Ebuilds = {e1, e3, e4, e5}
    VersionOf <- Catalog
    Atoms <- SomeAtoms
    NoEbuild = NoEbuild
    WordRange = 256
    MaxEbuilds = 4
SPECIFICATION Spec
INVARIANTS
    ShortCircuitMissesNothing
CHECK_DEADLOCK FALSE
