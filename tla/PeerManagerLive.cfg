SPECIFICATION FairSpec
CONSTANTS
    Listen = {1, 2}
    Ephemeral = {3}
    PeerId = {"a", "b", "me"}
    IdsOf <- FewPeers
    Self = "me"
    LocalAddr = 2
    Task = {t1}
    ReuseId = TRUE
    MaxError = 1
    MaxConnection = 2
    PerCall = 2
    Reserve = 1
    Conn = {1, 2}
    MaxIO = 1
PROPERTIES DisconnectEnds DialSettles
