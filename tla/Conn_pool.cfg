CONSTANTS
    Conns = {n1, n2}
    Requests = {r1, r2, r3}
    Handlers = {h1}
    Nobody = Nobody
SPECIFICATION FairSpec
INVARIANTS TypeOK NoWedge
PROPERTIES StarvedOnlyByWedge
CHECK_DEADLOCK FALSE
