SPECIFICATION Spec
CONSTANTS
    Sessions = {s1, s2}
    Threads = {a, b, c}
    Nobody = Nobody
    MaxRequests = 6
SYMMETRY Alike
PROPERTIES
    RemovalSeesRuns
CHECK_DEADLOCK FALSE
