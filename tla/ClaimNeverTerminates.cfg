\* A client that leaves early.
CONSTANTS
    c1 = c1  c2 = c2
    Clients = {c1, c2}
    Nobody = nobody
    Files <- MCFiles
    MAX_ANSWER_LENGTH = 5
    MaxSockets = 2
SPECIFICATION Spec
INVARIANT NeverTerminates
CHECK_DEADLOCK FALSE
