CONSTANTS
    Instance = {c1, c2}
    Score <- ScoreDef
    Capacity = 1
    MinPeers = 1
    MaxChanges = 2
    MaxFaults = 1
SPECIFICATION DSpec
INVARIANTS
    ObserversSettle
    NoSendOnClosed
PROPERTIES
    PeersConverge
    AddressesConverge
    CallsReturn
    ConnectionsRestored
CHECK_DEADLOCK FALSE
