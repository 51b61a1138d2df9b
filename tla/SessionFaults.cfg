CONSTANTS
    Commands <- FewCommands
    Sessions = {s1, s2, s3}
    Blocks = {b1, b2, b3, b4}
    MaxMovies = 1
    Faults = {"opaque", "close", "expire"}
    NULL = NULL
SYMMETRY Symmetry
SPECIFICATION Spec
INVARIANTS
    IInv
PROPERTY CredentialsSpec
