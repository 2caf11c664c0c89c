SPECIFICATION FairSpec
CONSTANTS
    Worker = {w1}
    Poster = {p1, p2}
    Thread = {w1, p1, p2}
    Carrier = {m1, m2}
    NoCarrier = none
INVARIANTS
    CountsExact
    QueueStays
    NothingLeft
PROPERTIES
    CallsReturn
