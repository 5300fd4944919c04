SPECIFICATION Spec
CONSTANTS
    PollInterval = 1
    Lifetime = 60
    Grace = 1
    Slack = 0
    PodRefresh = 1
    MinBackoff = 1
    MaxBackoff = 17
    MaxFaults = 0
INVARIANTS
    TokenValid
