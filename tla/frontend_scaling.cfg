SPECIFICATION FairSpec
CONSTANTS
    MaxReplicas = 4
    MaxEdits = 2
    MaxFaults = 3
    InitReplicas = 4
    InitElection = 2
    EditReplicas = {1, 3, 4}
    EditElections = {2}
    Faults = {"ms", "sql", "api", "conflict", "pod", "stale"}
INVARIANTS TypeOK
PROPERTIES DropOnlySurplus KeepsVoters FEConverges
