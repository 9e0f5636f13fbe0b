SPECIFICATION Spec
CONSTANTS
    MaxReplicas = 3
    MaxRev = 1
    MaxStarts = 2
    MaxRestarts = 0
    MaxEdits = 1
    InitReplicas = 3
    EditReplicas = {1}
    EnableDecommission = TRUE
    Faults = {"crash", "sql"}
PROPERTIES NoNeedlessDelete GracefulShrink DropOnlyEmptyBackends
