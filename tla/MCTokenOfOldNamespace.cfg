SPECIFICATION Spec
CONSTANTS
    none = none
    notOffered = notOffered
    malformed = malformed
    SecretName <- MCSecretName
    NoSecret = none
    PrefixSecretName <- MCPrefix
    Namespace <- MCNamespace2
    Version = {"v1"}
    NotOffered = notOffered
    Malformed = malformed
    Bystander <- MCBystander
    Kind = {"Metric"}
    metricsListGVKs <- OneKind
    Configs <- NamespaceConfigs
    NoToken = none
    Drifters = {}
    MaxFaults = 0
    MaxEdits = 1
PROPERTIES
    ReadyMeansTokenValid
