CONSTANTS
    NULL = NULL
    FREE = FREE
    MAX_NESTING = 2
    Nodes = {n1, n2, n3, n4}
    MaxRoots = 2
    Fuels <- UpToEight
    Scalars <- OneScalar
    Names <- TwoNames
    Paths <- SomePaths
    Texts <- SomeTexts
SYMMETRY AnyNodes
SPECIFICATION Spec
INVARIANTS
    TypeOK
    OneOwner
    ParentsAgree
    SetMeansSet
    RoundTrip
    PrefixRefused
    EqualsIsStructural
PROPERTY DocumentsSpec
