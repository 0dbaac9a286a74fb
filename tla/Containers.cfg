CONSTANTS
    o1 = o1
    o2 = o2
    o3 = o3
    k1 = k1
    k2 = k2
    k3 = k3
    Objects = {o1, o2, o3}
    Nodes = {n1, n2, n3}
    Null = Null
    Keys = {k1, k2, k3}
    Hash <- SomeHashes
    Sizes = {2}
    Threshold <- FourFifths
    MaxSize = 16
    FirstRoom = 2
    Class <- SomeClasses
    Vectors = {v1, v2}
    Sets = {s1, s2, s3}
    MaxPlaces = 4
    MaxOwned = 1
    MaxLeaked = 1
    Uses = {{"list"}, {"vectors"}, {"sets"}, {"map"}}
SPECIFICATION Spec
SYMMETRY Symmetry
INVARIANTS
    CountsExact
    SetsAreSets
PROPERTIES
    ListIsDeque
    
CHECK_DEADLOCK FALSE
