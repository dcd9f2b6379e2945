CONSTANTS
    Clients = {c1, c2}
    Host = host
    MaxId = 3
    MaxSends = 1
SPECIFICATION Spec
SYMMETRY ClientSymmetry
INVARIANTS
    TargetsRespected
CHECK_DEADLOCK FALSE
