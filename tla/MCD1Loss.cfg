CONSTANTS
    Script <- TestClient
    Faults = {"lose", "duplicate", "damage", "flip_seqno", "damage_ack", "late", "socket"}
    MaxFaults = 5

SPECIFICATION Spec

INVARIANTS
    NoAnswerLost
    AcceptedOnceInOrder

\* The program ends, and without a timeout it may wait for ever.
CHECK_DEADLOCK FALSE
