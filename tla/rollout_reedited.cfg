SPECIFICATION FairSpec
CONSTANTS
    MaxReplicas = 2
    MaxRev = 2
    MaxStarts = 4
    MaxRestarts = 0
    MaxEdits = 2
    InitReplicas = 1
    EditReplicas = {2}
    EnableDecommission = FALSE
    Faults = {"overlap"}
PROPERTIES ReadyIsTruthful Converges
