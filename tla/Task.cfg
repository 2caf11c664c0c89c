SPECIFICATION FairSpec
CONSTANTS
    Task = {t1}
    NumPieces = 2
INVARIANTS
    ThreadsAgree
    OwnedIsOnDisk
    
PROPERTIES
    CallsReturn
