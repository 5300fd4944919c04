SPECIFICATION FairSpec
CONSTANTS
    r1 = r1
    r2 = r2
    Replica = {r1, r2}
    Worker = {r1, r2}
    Nobody = nobody
    None = none
    enableLeaderElection = TRUE
    MaxFaults = 2
    Version = {"v1", "v2", "v3"}
    Values = {"plain", "other"}
    valuesOf <- MCValuesOf
    Broken = {"v3"}
    MaxEdits = 1
INVARIANTS
    TypeOK OneManager GoneMeansClean
PROPERTIES
    ReadyMeansServing Serves HonestInTheEnd
