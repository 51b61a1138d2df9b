CONSTANTS
    Commands <- FewCommands
    Sessions = {s1, s2}
    Blocks = {b1, b2}
    MaxMovies = 2
    Faults = {"close"}
    NULL = NULL
SPECIFICATION FairSpec
PROPERTY CommandEnds
