CONSTANTS
    Host = {h1, h2, h3}
    NoHost = NoHost
    LeaderInterval = 1
    FollowerInterval = 4
    MaxLag = 1
    MaxFaults = 2
    MaxCrashes = 1
SPECIFICATION Spec
INVARIANTS
    LeadersExcludeEachOther
PROPERTIES
    LeaseNeverStolen
    OneLeaderInTheEnd
