CONSTANTS
    Script <- TestClient
    Faults = {"damage"}
    MaxFaults = 12

SPECIFICATION FairSpec

INVARIANTS
    SeqnosAgree

PROPERTIES
    ImplementsD1Service

\* The program ends.
CHECK_DEADLOCK FALSE
