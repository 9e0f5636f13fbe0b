SPECIFICATION FairSpec
CONSTANTS
    MaxReplicas = 2
    MaxRev = 2
    MaxStarts = 5
    MaxRestarts = 1
    MaxEdits = 1
    InitReplicas = 2
    EditReplicas = {2}
    EnableDecommission = FALSE
    Faults = {"exec"}
PROPERTIES Converges
