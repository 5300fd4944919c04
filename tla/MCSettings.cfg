SPECIFICATION Spec
CONSTANTS
    none = none
    notOffered = notOffered
    malformed = malformed
    SecretName <- MCSecretName
    NoSecret = none
    PrefixSecretName <- MCPrefix
    Namespace <- MCNamespace1
    Version = {"v1"}
    NotOffered = notOffered
    Malformed = malformed
    Bystander <- MCBystander
    Kind = {"Metric"}
    metricsListGVKs <- OneKind
    Configs <- SettingsConfigs
    NoToken = none
    Drifters <- SettingsDrifters
    MaxFaults = 0
    MaxEdits = 2
INVARIANTS
    InventoryGone NoManagedCopyLeft
PROPERTIES
    ReadyMeansSynced ImplementsLifecycle
