\* Two connections, two requests on each, descriptors enough.
CONSTANTS
    c1 = c1  c2 = c2
    Main = main  None = none
    Conns = {c1, c2}
    MaxFds = 3
    MaxRequests = 2
SPECIFICATION FairSpec
CHECK_DEADLOCK FALSE
INVARIANTS TypeOK Exclusive CallsAreAtomic StartedFirst
PROPERTIES Served
