SPECIFICATION FairSpec
CONSTANTS
    PollInterval = 4
    Lifetime = 10
    Grace = 3
    Slack = 1
    PodRefresh = 2
    MinBackoff = 1
    MaxBackoff = 4
    MaxFaults = 2
INVARIANTS
    TypeOK TokenValid
PROPERTIES
    Recovers
