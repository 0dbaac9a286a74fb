CONSTANTS
    p1 = p1
    p2 = p2
    p3 = p3
    Packages = {p1, p2, p3}
    Files = {"gcc-1.5", "gcc-1.5-r1", "gcc-1.05_rc1", "lib-x-r2-1.5", "other/gcc-1.5"}
    Repositories <- SomeRepositories
    Text <- FileNames
    NoSource = {"gcc-1.5-r1"}
    Keys <- SomeKeys
    Hash <- CollidingHash
    InitialSize = 1
    OverlapRange = 2
    Atoms <- SomeAtoms
    WordRange = 256
    MaxLoads = 2
    MaxEbuilds = 3
    MaxOwned = 1
    AtomKeys <- SomeAtomKeys
    VersionTexts <- SomeVersions
    NoKey = NoKey
    NoPackage = NoPackage
    NoHolder = NoHolder
    NoEbuild = NoEbuild
    Ebuilds <- EbuildsOfFiles
    VersionOf <- VersionsOfFiles
    NoScan = NoScan
SPECIFICATION Spec
SYMMETRY Symmetry
INVARIANTS
    TypeOK
    PackagesLive
    FoundById
    LoadedIsFound
    Sorted
    BestMatch
    AtomLeadsToKey
    NamesTakenApart
CHECK_DEADLOCK FALSE
