\* The two bounds on ids, and the trees of up to seven nodes: one or two packets.
CONSTANTS
    StudentIds = {999, 1000, 1001}
    MaxNodes = 7
    MaxChildren = 5
    PerPacket = 5
    Faults = {"create_fails", "send_fails", "request_lost", "recv_fails", "repeat_size"}
    MaxFaults = 2

SPECIFICATION FairSpec

INVARIANTS
    IndexIsId
    PrintsTree

PROPERTIES
    RequestEnds

\* The program ends, or waits for the answer to a request that has not arrived.
CHECK_DEADLOCK FALSE
