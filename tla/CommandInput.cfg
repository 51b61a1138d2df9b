CONSTANTS
    Commands <- AllCommands
    Lines <- OddLines
    LINELEN = 5
    MaxMovies = 2
    MaxTyped = 8
SPECIFICATION Spec
INVARIANTS
    TypeOK
    AnswersInStep
    TextIsNoCommand
