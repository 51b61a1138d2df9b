CONSTANTS
    Commands <- FewCommands
    Sessions = {s1, s2}
    Blocks = {b1, b2, b3}
    MaxMovies = 1
    Faults = {}
    NULL = NULL
SPECIFICATION Spec
INVARIANT ExitFreesMemory
