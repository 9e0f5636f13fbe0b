SPECIFICATION FairSpec
CONSTANTS
    MaxReplicas = 3
    MaxRev = 1
    MaxStarts = 3
    MaxRestarts = 0
    MaxEdits = 1
    InitReplicas = 3
    EditReplicas = {1, 2}
    EnableDecommission = TRUE
    Faults = {}
PROPERTIES DecommissionEnds
