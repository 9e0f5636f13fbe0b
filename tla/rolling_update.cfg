SPECIFICATION FairSpec
CONSTANTS
    MaxReplicas = 3
    MaxRev = 3
    MaxStarts = 4
    MaxRestarts = 1
    MaxEdits = 2
    InitReplicas = 2
    EditReplicas = {3}
    EnableDecommission = FALSE
    Faults = {}
INVARIANTS TypeOK OneOutOfService
PROPERTIES NoNeedlessDelete DrainBeforeDelete AdvancesOnReplacement ReplacesInTurn Converges
