SPECIFICATION FairSpec
CONSTANTS
    Link = {1, 2}
    Wants <- MCWants
    MaxUpload = 1
    Rate = {1, 2}
    MaxWire = 2
    MaxSent = 1
INVARIANTS
    ChokingSound
    NoLostRequest
PROPERTIES
    SlotsUsed
    RequestsAnswered
