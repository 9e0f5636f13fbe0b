SPECIFICATION FairSpec
CONSTANTS
    MaxFE = 3
    Election = 2
    Others = {"be", "cn", "broker"}
    MaxCN = 2
    Clusters <- MCClusters
    EditFE = {1, 2, 3}
    EditElections = {2}
    MaxEdits = 2
    MaxFaults = 1
INVARIANTS TypeOK
PROPERTIES FrontendsKeepVoters CoupledConverges ConfigRolledOut
