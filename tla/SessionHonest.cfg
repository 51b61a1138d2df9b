CONSTANTS
    Commands <- AllCommands
    Sessions = {s1, s2, s3}
    Blocks = {b1, b2, b3, b4}
    MaxMovies = 2
    Faults = {}
    NULL = NULL
SYMMETRY Symmetry
SPECIFICATION Spec
INVARIANTS
    TypeOK
    CredentialSafety
    TokenKeepsItsCookie
    OutcomeIsTrue
    SessionsAccountedFor
    CookiesAreLive
PROPERTY CredentialsSpec
