SPECIFICATION Spec
CONSTANTS
    MaxReplicas = 2
    MaxRev = 2
    MaxStarts = 2
    MaxRestarts = 0
    MaxEdits = 2
    InitReplicas = 1
    EditReplicas = {1, 2}
    EnableDecommission = FALSE
    Faults = {"api", "conflict", "deadline", "lag"}
INVARIANTS OnDeleteWhileGraceful
