SPECIFICATION TrackerSpec
CONSTANTS
    Thread = {t1, t2}
    Url = {u1, u2}
    Request = {r1, r2, r3}
    NoRequest = NoRequest
INVARIANTS
    RequestsOwned
PROPERTIES
    TrackersAreTold
    StopReturns
