SPECIFICATION Spec
CONSTANTS
    none = none
    notOffered = notOffered
    malformed = malformed
    SecretName <- MCSecretName
    NoSecret = none
    PrefixSecretName <- MCPrefix
    Namespace <- MCNamespace1
    Version = {"v1", "v2"}
    NotOffered = notOffered
    Malformed = malformed
    Bystander <- MCBystander
    Kind = {"Metric", "ManagedMetric"}
    metricsListGVKs <- TwoKinds
    Configs <- RolloutConfigs
    NoToken = none
    Drifters = {}
    MaxFaults = 1
    MaxEdits = 1
INVARIANTS
    TypeOK InventoryGone NoManagedCopyLeft GuardSound
PROPERTIES
    TeardownOrder ReadyMeansSynced CleanersSpareInventory BystandersSpared
