CONSTANTS
    Ips = {a, b}
    MaxConnectionAge = 2
    ElapsedWidth = 1
    MaxTime = 2
SPECIFICATION Spec
SYMMETRY MC_Symmetry
INVARIANTS
    TypeOK
    ConnectionIdBindsSourceAndTime
    ForgedIdExpires
