CONSTANTS
    Files <- SomeFiles
    Dependencies = {"DEPEND", "RDEPEND"}
    Arches = {"x86", "arm"}
    Bad = Bad
    Null = Null
    MaxReads = 2
    Names = {"x", "y", "z", ""}
    Depth = 3
SPECIFICATION Spec
INVARIANTS
    RequiredUseKept
PROPERTIES
    MetadataIsWhole
CHECK_DEADLOCK FALSE
