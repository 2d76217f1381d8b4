CONSTANTS
    a = a
    b = b
    Names = {a, b}
    MaxSize = 2
    MaxFiles = 2
    MaxTasks = 1
SYMMETRY Symmetry
SPECIFICATION Spec
CHECK_DEADLOCK FALSE
INVARIANTS
    FilesStay
    SizesAreExact
    NothingIsLeft
PROPERTIES
    ImplementsSandboxedStorage
