SPECIFICATION Spec
CONSTANTS
    u1 = u1
    u2 = u2
    k1 = k1
    k2 = k2
    x1 = x1
    x2 = x2
    NoValue = NoValue
    Uuids = {u1}
    Keys = {k1, k2}
    AcceptanceIds = {x1, x2}
    MaxArtifacts = 2
    MaxContracts = 1
SYMMETRY MCSymmetry
INVARIANTS
    OneAcceptancePerArtifact
    AcceptedRecordIsBacked
    AdmissionIsSigned
    AcceptableIsIssued
PROPERTIES
    RevokedUntilReinstated
