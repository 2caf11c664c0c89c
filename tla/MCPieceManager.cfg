SPECIFICATION Spec
CONSTANTS
    NumPieces = 3
    SliceCount <- MCSliceCount
    END_GAME_LINE = 2
    MaxHave = 2
    MaxWant = 2
INVARIANTS
    TypeOK
    IndexConsistent
    StatesAgree
    NoStuckPiece
    EndgameExact
PROPERTY
    StartsByRarity
