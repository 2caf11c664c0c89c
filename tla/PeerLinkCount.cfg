SPECIFICATION Spec
CONSTANTS
    NumPieces = 2
    SliceCount <- MCSliceCount
    END_GAME_LINE = 2
    Link = {l1, l2}
    PendingCount = 2
    ResetLine = 30
    MaxHave = 3
SYMMETRY Peers
INVARIANTS
    HaveIsOwners
