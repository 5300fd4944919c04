SPECIFICATION FairSpec
CONSTANTS
    none = none
    notOffered = notOffered
    malformed = malformed
    SecretName <- MCSecretName
    NoSecret = none
    PrefixSecretName <- MCPrefix
    Namespace <- MCNamespace1
    Version = {"v1"}
    NotOffered = notOffered
    Malformed = malformed
    Bystander <- MCBystander
    Kind = {"Metric"}
    metricsListGVKs <- OneKind
    Configs <- LivenessConfigs
    NoToken = none
    Drifters <- LivenessDrifters
    MaxFaults = 1
    MaxEdits = 1
PROPERTIES
    DeletionCompletes Converges
