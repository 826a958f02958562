\* The boot slot under every interleaving of calls, faults and reinstallations.
SPECIFICATION Spec
CONSTANTS
    Primaries = {p1, p2}
    Roms = {r1, r2}
    MaxFaults = 3
INVARIANTS
    TypeOK
    PrimaryRecoverable
    ResultTruthful
    FailedCallHarmless
SYMMETRY Symmetry
PROPERTIES
    CustodySpec
