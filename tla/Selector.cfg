SPECIFICATION Spec
CONSTANTS
    Handler = {h1, h2}
    Handle = {x, y}
    NoHandle = NoHandle
    NoHandler = NoHandler
    Interval = 2
INVARIANTS
    HandlersOwned
    InputIsReal
    TimerInTime
PROPERTIES
    DataIsSent
    StopReturns
