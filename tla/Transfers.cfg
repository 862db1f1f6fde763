\* Two clients, descriptors for none, one or both, and messages of five tokens.
CONSTANTS
    c1 = c1  c2 = c2
    Clients = {c1, c2}
    Nobody = nobody
    Files <- MCFiles
    MAX_ANSWER_LENGTH = 5
    MaxSockets = 2
SPECIFICATION FairSpec
INVARIANTS TypeOK NeverStuck Delivered
PROPERTIES AllServed
CHECK_DEADLOCK FALSE
