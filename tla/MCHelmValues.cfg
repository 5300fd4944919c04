SPECIFICATION Spec
CONSTANTS
    Missing = Missing
    Null = Null
    Malformed = Malformed
    Volumes <- MCVolumes
    InitSections <- MCInitSections
    ManagerSections <- MCManagerSections
INVARIANTS
    PodStaysValid BothConnected UserEntriesKept
