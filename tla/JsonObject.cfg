SPECIFICATION Spec
CONSTANTS
    k1 = k1
    k2 = k2
    k3 = k3
    k4 = k4
    k5 = k5
    Keys = {k1, k2, k3, k4, k5}
    Values = {v1, v2, v3, v4, v5}
    STARTING_CAPACITY = 4
    NULL = NULL
    hash_string <- Hash
SYMMETRY Symmetry
INVARIANTS
    TypeOK
    IInv
    LinksAgree
    EveryNameFound
    ProbeFindsRoom
    OwnsItsValues
PROPERTY MapSpec
