SPECIFICATION Spec
CONSTANTS
    none = none
    notOffered = notOffered
    malformed = malformed
    SecretName <- MCSecretName
    NoSecret = none
    PrefixSecretName <- MCPrefix
    Namespace <- MCNamespace1
    Version = {"v1", "v2"}
    NotOffered = notOffered
    Malformed = malformed
    Bystander <- MCBystander
    Kind = {"Metric"}
    metricsListGVKs <- OneKind
    Configs <- RolloutConfigs
    NoToken = none
    Drifters = {}
    MaxFaults = 2
    MaxEdits = 1
INVARIANTS
    NoCopyLeft
