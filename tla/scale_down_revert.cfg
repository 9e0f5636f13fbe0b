SPECIFICATION Spec
CONSTANTS
    MaxReplicas = 2
    MaxRev = 1
    MaxStarts = 3
    MaxRestarts = 1
    MaxEdits = 1
    InitReplicas = 2
    EditReplicas = {1}
    EnableDecommission = FALSE
    Faults = {}
PROPERTIES NoReplicaRevert
