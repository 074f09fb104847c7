CONSTANTS
    Script <- TestClient
    Faults = {"lose", "late"}
    MaxFaults = 2

SPECIFICATION Spec

INVARIANTS
    SuccessMeansAccepted

CHECK_DEADLOCK FALSE
