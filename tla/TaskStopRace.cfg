SPECIFICATION Spec
CONSTANTS
    Task = {t1}
    NumPieces = 1
INVARIANTS
    StopFindsThread
