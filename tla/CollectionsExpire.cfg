CONSTANTS
    Movies = {1, 2}
    Ids = {1, 2}
    MaxMovies = 2
    Faults = {"expire"}
    NULL = NULL
SPECIFICATION Spec
INVARIANT ErrorDeletesCollection
