SPECIFICATION Spec
CONSTANTS
    Listen = {1, 2}
    Ephemeral = {3}
    PeerId = {"a", "b", "me"}
    IdsOf <- Peers
    Self = "me"
    LocalAddr = 2
    Task = {t1, t2}
    ReuseId = FALSE
    MaxError = 1
    MaxConnection = 2
    PerCall = 2
    Reserve = 1
    Conn = {1, 2, 3}
    MaxIO = 1
SYMMETRY Threads
INVARIANTS TypeOK NoneForgotten PeersMetOnce
