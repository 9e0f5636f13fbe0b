SPECIFICATION FairSpec
CONSTANTS
    Groups = {g1, g2}
    MaxReplicas = 2
    MaxTmpl = 2
    MaxEdits = 1
    MaxFaults = 2
    Provisioner = "Operator"
INVARIANTS TypeOK
PROPERTIES ForgetOnlyCleared ClusterConverges
