CONSTANTS
    Movies = {1, 2}
    Ids = {1, 2}
    MaxMovies = 3
    Faults = {"expire", "opaque"}
    NULL = NULL
SPECIFICATION Spec
INVARIANTS
    TypeOK
    IInv
    CompleteOrGone
PROPERTIES
    OthersUntouched
    LibrarySpec
